---------------------------- MODULE AccountsProofs ----------------------------
(***************************************************************************)
(* Proofs about Accounts, for every number of accounts, administrators,    *)
(* governorates and documents.  The argument: a request works on the       *)
(* account it belongs to, one statement after the other, so what the       *)
(* earlier statements of a request have written is there when the later    *)
(* ones run; what other requests do to that account in between is listed   *)
(* action by action.                                                       *)
(***************************************************************************)
EXTENDS Accounts, FiniteSetTheorems, TLAPS

\* The start: no accounts.
LEMMA InitIInv == Init => IInv
<1> SUFFICES ASSUME Init PROVE IInv
  OBVIOUS
<1>1. Idle \in Req
  BY DEF Idle, Req, ReqStep
<1>2. TypeOK
  BY <1>1, AccountsAssumption DEF Init, TypeOK
<1>3. AccountsExist
  BY DEF Init, AccountsExist, Exists, Idle
<1>4. \A u \in User : RequestOK(u) /\ DocumentsOK(u)
  BY DEF Init, RequestOK, DocumentsOK, Exists, At, Idle
<1>5. SetUpConsistent
  BY DEF Init, SetUpConsistent, SetUpOK, At, Idle
<1> QED
  BY <1>2, <1>3, <1>4, <1>5 DEF IInv

-----------------------------------------------------------------------------
(* Frames.                                                                 *)

\* The step fails nothing, or is the failure.
Faulty == faults' = faults \/ faults' = faults + 1

\* The step leaves account v and its request alone.
Same(v) ==
  /\ user'[v] = user[v] /\ req'[v] = req[v] /\ docs'[v] = docs[v]
  /\ coverage'[v] = coverage[v]
  /\ v \in profile' <=> v \in profile
  /\ v \in welcomed' <=> v \in welcomed

\* A step of the request of one account.
LEMMA OneAccount ==
  ASSUME IInv, TypeOK', NEW u \in User, Exists(u), Exists(u)', Faulty,
         UNCHANGED <<signed, admin, save>>,
         \A v \in User \ {u} : Same(v),
         RequestOK(u)', DocumentsOK(u)', faults' = 0 => SetUpOK(u)'
  PROVE  IInv'
<1>0. \A v \in User : Exists(v) => Exists(v)'
  BY DEF Same, Exists
<1>1. AccountsExist'
  <2>1. \A v \in User : req'[v].step # "idle" \/ v \in welcomed' => Exists(v)'
    BY <1>0 DEF IInv, AccountsExist, Same
  <2>2. \A v \in User : Exists(v)' => signed'[v] \in Role
    BY DEF IInv, AccountsExist, Same, Exists
  <2>3. \A a \in Admin : admin[a] # None => admin[a].user \in User
    BY DEF IInv, TypeOK, Deed
  <2>4. \A s \in Saver : save[s] # None => save[s].user \in User
    BY DEF IInv, TypeOK, Saving
  <2>5. \A a \in Admin : admin'[a] # None => user'[admin'[a].user] # None
    BY <1>0, <2>3 DEF IInv, AccountsExist, Exists
  <2>6. \A s \in Saver : save'[s] # None => user'[save'[s].user] # None
    BY <1>0, <2>4 DEF IInv, AccountsExist, Exists
  <2> QED
    BY <2>1, <2>2, <2>5, <2>6 DEF AccountsExist, Exists, At
<1>2. \A v \in User : RequestOK(v)' /\ DocumentsOK(v)'
  BY DEF IInv, RequestOK, DocumentsOK, Same, Exists, At
<1>3. SetUpConsistent'
  <2> SUFFICES ASSUME faults' = 0, NEW v \in User \ {u} PROVE SetUpOK(v)'
    BY DEF SetUpConsistent
  <2>1. faults = 0
    BY DEF Faulty, IInv, TypeOK
  <2>2. SetUpOK(v)
    BY <2>1 DEF IInv, SetUpConsistent
  <2> QED
    BY <2>2 DEF SetUpOK, Covered, Same, At
<1> QED
  BY <1>1, <1>2, <1>3 DEF IInv

\* A step that writes the row of one account and no request.
LEMMA OneRow ==
  ASSUME IInv, NEW u \in User, Exists(u), NEW row \in UserRow,
         user' = [user EXCEPT ![u] = row],
         row.status = "pending_review" => user[u].status = "pending_review",
         UNCHANGED <<docs, coverage, profile, signed, welcomed, req>>,
         interests' \in [User -> SUBSET Interest],
         \A a \in Admin : admin'[a] = admin[a] \/ admin'[a] = None,
         \A s \in Saver : save'[s] = save[s] \/ save'[s] = None,
         admin' \in [Admin -> Deed \cup {None}], save' \in [Saver -> Saving \cup {None}],
         UNCHANGED Clock, Faulty
  PROVE  IInv'
<1>1. TypeOK'
  <2>1. faults' \in Nat
    BY DEF IInv, TypeOK, Faulty
  <2>2. user' \in [User -> UserRow \cup {None}]
    BY DEF IInv, TypeOK
  <2> QED
    BY <2>1, <2>2 DEF IInv, TypeOK, Clock
<1>2. user'[u] = row /\ row # None /\ \A v \in User \ {u} : user'[v] = user[v]
  BY AccountsAssumption DEF IInv, TypeOK
<1>3. \A v \in User : Exists(v) => Exists(v)'
  BY <1>2 DEF Exists
<1>4. \A v \in User : Exists(v)' => Exists(v)
  BY <1>2 DEF Exists
<1>5. AccountsExist'
  <2>1. \A a \in Admin : admin[a] # None => admin[a].user \in User
    BY DEF IInv, TypeOK, Deed
  <2>2. \A s \in Saver : save[s] # None => save[s].user \in User
    BY DEF IInv, TypeOK, Saving
  <2> QED
    BY <1>3, <1>4, <2>1, <2>2 DEF IInv, AccountsExist
<1>6. \A v \in User : RequestOK(v)' /\ DocumentsOK(v)'
  BY <1>2, <1>4 DEF IInv, RequestOK, DocumentsOK, At, Exists
<1>7. SetUpConsistent'
  <2>1. faults' = 0 => faults = 0
    BY DEF Faulty, IInv, TypeOK
  <2>2. \A v \in User : SetUpOK(v) => SetUpOK(v)'
    BY DEF SetUpOK, Covered, At
  <2> QED
    BY <2>1, <2>2 DEF IInv, SetUpConsistent
<1> QED
  BY <1>1, <1>5, <1>6, <1>7 DEF IInv

\* A step that changes no table and no request of a member.
LEMMA NoRow ==
  ASSUME IInv, TypeOK', UNCHANGED <<user, docs, coverage, profile, signed, welcomed, req, faults>>,
         \A a \in Admin : admin'[a] # None => Exists(admin'[a].user),
         \A s \in Saver : save'[s] # None => Exists(save'[s].user)
  PROVE  IInv'
<1>1. AccountsExist'
  BY DEF IInv, AccountsExist, Exists
<1>2. \A v \in User : RequestOK(v)' /\ DocumentsOK(v)'
  BY DEF IInv, RequestOK, DocumentsOK, At, Exists
<1>3. SetUpConsistent'
  BY DEF IInv, SetUpConsistent, SetUpOK, Covered, At
<1> QED
  BY <1>1, <1>2, <1>3 DEF IInv

-----------------------------------------------------------------------------
(* The administrators.                                                     *)

\* What a decision makes of a row: typed, and never an application again.
LEMMA DecisionWritten ==
  ASSUME IInv, NEW a \in Admin,
         \/ ApproveUser(a) \/ RejectUser(a) \/ SuspendUser(a)
         \/ UnsuspendUser(a) \/ BanUser(a) \/ UnbanUser(a)
  PROVE  /\ admin[a] # None /\ admin'[a] = None
         /\ admin[a].user \in User /\ Exists(admin[a].user)
         /\ \E row \in UserRow :
              /\ user' = [user EXCEPT ![admin[a].user] = row]
              /\ row.status = "pending_review" => user[admin[a].user].status = "pending_review"
         /\ admin' = [admin EXCEPT ![a] = None]
         /\ UNCHANGED <<interests, docs, coverage, profile, signed, welcomed, req, save, world>>
<1>0. admin[a] # None /\ admin' = [admin EXCEPT ![a] = None]
      /\ UNCHANGED <<interests, docs, coverage, profile, signed, welcomed, req, save, world>>
  BY DEF ApproveUser, RejectUser, SuspendUser, UnsuspendUser, BanUser, UnbanUser, Decide
<1>1. PICK u \in User : u = admin[a].user /\ Exists(u)
  BY <1>0 DEF IInv, TypeOK, Deed, AccountsExist
<1>2. user[u] \in UserRow
  BY <1>1 DEF IInv, TypeOK, Exists
<1>3. \A d \in {None, today + 1} : d \in Day \cup {None}
  <2>1. Horizon \in Nat /\ today \in 0 .. Horizon
    BY AccountsAssumption DEF IInv, TypeOK
  <2> QED
    BY <2>1 DEF Day
<1>4. \A st \in Status, d \in Day \cup {None} :
        /\ [user[u] EXCEPT !.status = st] \in UserRow
        /\ [user[u] EXCEPT !.status = st].status = st
        /\ [user[u] EXCEPT !.status = st, !.until = d] \in UserRow
        /\ [user[u] EXCEPT !.status = st, !.until = d].status = st
  BY <1>2 DEF UserRow
<1>5. \E row \in UserRow : /\ user' = [user EXCEPT ![u] = row]
                           /\ row.status = "pending_review" => user[u].status = "pending_review"
  <2>0. {"active", "rejected", "suspended", "banned"} \subseteq Status /\ None \in Day \cup {None}
    BY DEF Status
  <2>1. CASE ApproveUser(a)
    <3>1. PICK row \in Approved(user[u]) : user' = [user EXCEPT ![u] = row]
      BY <1>1, <2>1 DEF ApproveUser, Decide
    <3> QED
      BY <1>4, <2>0, <3>1 DEF Approved
  <2>2. CASE RejectUser(a)
    <3>1. PICK row \in UpdateUserStatusWithReason(user[u]) : user' = [user EXCEPT ![u] = row]
      BY <1>1, <2>2 DEF RejectUser, Decide
    <3> QED
      BY <1>4, <2>0, <3>1 DEF UpdateUserStatusWithReason
  <2>3. CASE SuspendUser(a)
    <3>1. PICK row \in SuspendRow(user[u]) : user' = [user EXCEPT ![u] = row]
      BY <1>1, <2>3 DEF SuspendUser, Decide
    <3>2. CASE user[u].status # "banned"
      <4>1. PICK d \in {None, today + 1} : row = [user[u] EXCEPT !.status = "suspended", !.until = d]
        BY <3>1, <3>2 DEF SuspendRow
      <4>2. d \in Day \cup {None} /\ "suspended" \in Status
        BY <1>3, <2>0
      <4>3. row \in UserRow /\ row.status = "suspended"
        BY <1>4, <4>1, <4>2
      <4> QED
        BY <3>1, <4>3
    <3>3. CASE user[u].status = "banned"
      BY <1>2, <3>1, <3>3 DEF SuspendRow
    <3> QED
      BY <3>2, <3>3
  <2>4. CASE UnsuspendUser(a)
    <3>1. PICK row \in UnsuspendRow(user[u]) : user' = [user EXCEPT ![u] = row]
      BY <1>1, <2>4 DEF UnsuspendUser, Decide
    <3>2. CASE user[u].status = "suspended"
      <4>1. row = [user[u] EXCEPT !.status = "active", !.until = None]
        BY <3>1, <3>2 DEF UnsuspendRow
      <4>2. row \in UserRow /\ row.status = "active"
        BY <1>4, <2>0, <4>1
      <4> QED
        BY <3>1, <4>2
    <3>3. CASE user[u].status # "suspended"
      BY <1>2, <3>1, <3>3 DEF UnsuspendRow
    <3> QED
      BY <3>2, <3>3
  <2>5. CASE BanUser(a)
    <3>1. PICK row \in BanRow(user[u]) : user' = [user EXCEPT ![u] = row]
      BY <1>1, <2>5 DEF BanUser, Decide
    <3>2. CASE user[u].status # "banned"
      BY <1>4, <2>0, <3>1, <3>2 DEF BanRow
    <3>3. CASE user[u].status = "banned"
      BY <1>2, <3>1, <3>3 DEF BanRow
    <3> QED
      BY <3>2, <3>3
  <2>6. CASE UnbanUser(a)
    <3>1. PICK row \in UnbanRow(user[u]) : user' = [user EXCEPT ![u] = row]
      BY <1>1, <2>6 DEF UnbanUser, Decide
    <3> QED
      BY <1>2, <1>4, <2>0, <3>1 DEF UnbanRow
  <2> QED
    BY <2>1, <2>2, <2>3, <2>4, <2>5, <2>6
<1> QED
  BY <1>0, <1>1, <1>5 DEF IInv, TypeOK

\* The administrators keep the invariant.
LEMMA AdminKeeps ==
  ASSUME IInv, NEW a \in Admin,
         \/ ApproveUser(a) \/ RejectUser(a) \/ SuspendUser(a)
         \/ UnsuspendUser(a) \/ BanUser(a) \/ UnbanUser(a)
  PROVE  IInv'
<1>1. /\ admin[a].user \in User /\ Exists(admin[a].user)
      /\ \E row \in UserRow :
              /\ user' = [user EXCEPT ![admin[a].user] = row]
              /\ row.status = "pending_review" => user[admin[a].user].status = "pending_review"
      /\ admin' = [admin EXCEPT ![a] = None]
      /\ UNCHANGED <<interests, docs, coverage, profile, signed, welcomed, req, save, world>>
  BY DecisionWritten
<1>2. /\ admin' \in [Admin -> Deed \cup {None}] /\ save' \in [Saver -> Saving \cup {None}]
      /\ \A b \in Admin : admin'[b] = admin[b] \/ admin'[b] = None
      /\ interests' \in [User -> SUBSET Interest]
  BY <1>1 DEF IInv, TypeOK
<1>3. UNCHANGED Clock /\ Faulty
  BY <1>1 DEF world, Clock, Faulty
<1> QED
  BY <1>1, <1>2, <1>3, OneRow

\* An administrator opens an account.
LEMMA OpenKeeps ==
  ASSUME IInv, NEW a \in Admin, NEW op \in AdminOp, NEW u \in User, Open(a, op, u)
  PROVE  IInv'
<1>1. [op |-> op, user |-> u] \in Deed
  BY DEF Deed
<1>2. TypeOK'
  BY <1>1 DEF IInv, TypeOK, Open, rows, world
<1>3. \A b \in Admin : admin'[b] # None => Exists(admin'[b].user)
  BY DEF IInv, TypeOK, AccountsExist, Open
<1> QED
  BY <1>2, <1>3, NoRow DEF Open, rows, world, IInv, AccountsExist

-----------------------------------------------------------------------------
(* A member's request.                                                     *)

\* What SetUpOK asks, of the values a step leaves to account u.
SetUpTo(u, w, covered, profiled, told) ==
  /\ signed[u] = "carrier" /\ w.step \in {"names", "region"} => w.todo # {}
  /\ w.step \in {"profile", "upsert"} => covered
  /\ signed[u] = "carrier" /\ w.step = "subscribe" => covered /\ profiled
  /\ signed[u] = "carrier" /\ told => profiled /\ (covered \/ w.step = "add")

\* A function and itself, written as an update.
LEMMA Kept ==
  ASSUME TypeOK, NEW u \in User
  PROVE  /\ user = [user EXCEPT ![u] = user[u]] /\ docs = [docs EXCEPT ![u] = docs[u]]
         /\ coverage = [coverage EXCEPT ![u] = coverage[u]]
         /\ docs[u] \in SUBSET DocType /\ coverage[u] \in SUBSET Region /\ req[u] \in Req
         /\ Exists(u) => user[u] \in UserRow
BY DEF TypeOK, Exists

\* A step of one request: whatever it writes to the account it belongs to.
LEMMA OneStep ==
  ASSUME IInv, NEW u \in User, Exists(u), NEW row \in UserRow, NEW w \in Req,
         NEW d \in SUBSET DocType, NEW c \in SUBSET Region,
         user' = [user EXCEPT ![u] = row], req' = [req EXCEPT ![u] = w],
         docs' = [docs EXCEPT ![u] = d], coverage' = [coverage EXCEPT ![u] = c],
         profile' = profile \/ profile' = profile \cup {u},
         welcomed' = welcomed \/ welcomed' = welcomed \cup {u},
         UNCHANGED <<interests, signed, admin, save>>, UNCHANGED Clock, Faulty,
         w.step = "restore" => w.op \in RequestOp,
         w.step \in {"names", "region", "add"} => w.todo \subseteq Region,
         signed[u] = "merchant" /\ row.status = "pending_review" => d = DocType,
         faults' = 0 => SetUpTo(u, w, c # {}, u \in profile', u \in welcomed')
  PROVE  IInv'
<1>1. TypeOK'
  <2>1. faults' \in Nat
    BY DEF IInv, TypeOK, Faulty
  <2>2. user' \in [User -> UserRow \cup {None}] /\ req' \in [User -> Req]
    BY DEF IInv, TypeOK
  <2>3. docs' \in [User -> SUBSET DocType] /\ coverage' \in [User -> SUBSET Region]
    BY DEF IInv, TypeOK
  <2>4. profile' \subseteq User /\ welcomed' \subseteq User
    BY DEF IInv, TypeOK
  <2> QED
    BY <2>1, <2>2, <2>3, <2>4 DEF IInv, TypeOK, Clock
<1>2. user'[u] = row /\ req'[u] = w /\ docs'[u] = d /\ coverage'[u] = c /\ row # None
  BY AccountsAssumption DEF IInv, TypeOK
<1>3. \A v \in User \ {u} : Same(v)
  BY DEF IInv, TypeOK, Same
<1>4. RequestOK(u)' /\ DocumentsOK(u)'
  BY <1>2 DEF RequestOK, DocumentsOK, At
<1>5. faults' = 0 => SetUpOK(u)'
  BY <1>2 DEF SetUpOK, SetUpTo, Covered, At
<1> QED
  BY <1>1, <1>2, <1>3, <1>4, <1>5, OneAccount DEF Exists

\* The states a request can be left in.
LEMMA RequestStates ==
  ASSUME TypeOK, NEW u \in User
  PROVE  /\ Idle \in Req /\ Idle.step = "idle"
         /\ \A step \in ReqStep :
              /\ [req[u] EXCEPT !.step = step] \in Req
              /\ [req[u] EXCEPT !.step = step].step = step
              /\ [req[u] EXCEPT !.step = step].op = req[u].op
              /\ [req[u] EXCEPT !.step = step].todo = req[u].todo
         /\ \A step \in ReqStep, todo \in SUBSET (Region \cup DocType) :
              /\ [req[u] EXCEPT !.step = step, !.todo = todo] \in Req
              /\ [req[u] EXCEPT !.step = step, !.todo = todo].step = step
              /\ [req[u] EXCEPT !.step = step, !.todo = todo].todo = todo
<1>1. req[u] \in Req
  BY DEF TypeOK
<1>2. Idle \in Req /\ Idle.step = "idle"
  BY DEF Idle, Req, ReqStep
<1> QED
  BY <1>1, <1>2 DEF Req

\* A request that ends early because a statement failed, or with a read.
LEMMA EndKeeps ==
  ASSUME IInv, NEW u \in User, Exists(u), Done(u), UNCHANGED <<rows, admin, save>>,
         UNCHANGED Clock,
         (faults' = faults + 1) \/ (faults' = faults /\ req[u].step # "add")
  PROVE  IInv'
<1>1. Idle \in Req /\ Idle.step = "idle" /\ req' = [req EXCEPT ![u] = Idle]
  BY RequestStates DEF IInv, Done
<1>2. faults' = 0 => SetUpTo(u, Idle, coverage[u] # {}, u \in profile', u \in welcomed')
  <2> SUFFICES ASSUME faults' = 0
               PROVE SetUpTo(u, Idle, coverage[u] # {}, u \in profile', u \in welcomed')
    OBVIOUS
  <2>1. faults = 0 /\ req[u].step # "add"
    BY DEF IInv, TypeOK
  <2>2. SetUpOK(u)
    BY <2>1 DEF IInv, SetUpConsistent
  <2> QED
    BY <1>1, <2>1, <2>2 DEF SetUpOK, SetUpTo, Covered, At, rows
<1>3. signed[u] = "merchant" /\ user[u].status = "pending_review" => docs[u] = DocType
  BY DEF IInv, DocumentsOK
<1>4. TypeOK
  BY DEF IInv
<1>5. user' = [user EXCEPT ![u] = user[u]] /\ docs' = [docs EXCEPT ![u] = docs[u]]
      /\ coverage' = [coverage EXCEPT ![u] = coverage[u]]
      /\ docs[u] \in SUBSET DocType /\ coverage[u] \in SUBSET Region
      /\ user[u] \in UserRow
  BY <1>4, Kept DEF rows
<1>6. UNCHANGED <<interests, signed, admin, save, profile, welcomed>> /\ Faulty
  BY DEF rows, Faulty
<1> QED
  BY <1>1, <1>2, <1>3, <1>5, <1>6, OneStep

\* What is known of the account a request works on.
LEMMA Working ==
  ASSUME IInv, NEW u \in User, req[u].step # "idle"
  PROVE  /\ TypeOK /\ Exists(u) /\ user[u] \in UserRow /\ signed[u] \in Role
         /\ signed[u] = "merchant" /\ user[u].status = "pending_review" => docs[u] = DocType
         /\ req[u].step \in {"names", "region", "add"} => req[u].todo \subseteq Region
         /\ req[u].step = "restore" => req[u].op \in RequestOp
         /\ faults = 0 => SetUpTo(u, req[u], coverage[u] # {}, u \in profile, u \in welcomed)
<1>1. TypeOK /\ Exists(u) /\ signed[u] \in Role /\ RequestOK(u) /\ DocumentsOK(u)
  BY DEF IInv, AccountsExist
<1>2. faults = 0 => SetUpTo(u, req[u], coverage[u] # {}, u \in profile, u \in welcomed)
  BY DEF IInv, SetUpConsistent, SetUpOK, SetUpTo, Covered, At
<1>3. user[u] \in UserRow
  BY <1>1, Kept
<1> QED
  BY <1>1, <1>2, <1>3 DEF RequestOK, DocumentsOK, At

\* A status or a job written on a row.
LEMMA RowsTyped ==
  ASSUME NEW row \in UserRow
  PROVE  /\ \A st \in Status : /\ [row EXCEPT !.status = st] \in UserRow
                               /\ [row EXCEPT !.status = st].status = st
         /\ \A job \in Role : /\ [row EXCEPT !.job = job] \in UserRow
                              /\ [row EXCEPT !.job = job].status = row.status
         /\ \A n \in Nat : /\ [row EXCEPT !.count = n] \in UserRow
                           /\ [row EXCEPT !.count = n].status = row.status
         /\ [row EXCEPT !.status = "active", !.until = None] \in UserRow
         /\ [row EXCEPT !.status = "active", !.until = None].status = "active"
BY DEF UserRow, Role, Status

\* The cached job of a new account.
LEMMA NamesKeep ==
  ASSUME IInv, NEW u \in User, UpdateUserCachedNames(u)
  PROVE  IInv'
<1>0. /\ req[u].step = "names"
      /\ UNCHANGED <<interests, docs, coverage, profile, signed, welcomed, admin, save, Clock>>
  BY DEF UpdateUserCachedNames, At
<1>1. /\ TypeOK /\ Exists(u) /\ user[u] \in UserRow /\ signed[u] \in Role
      /\ signed[u] = "merchant" /\ user[u].status = "pending_review" => docs[u] = DocType
      /\ req[u].todo \subseteq Region
      /\ faults = 0 => SetUpTo(u, req[u], coverage[u] # {}, u \in profile, u \in welcomed)
  BY <1>0, Working
<1>2. CASE Failed(u) /\ UNCHANGED user
  BY <1>0, <1>1, <1>2, EndKeeps DEF Failed, rows
<1>3. CASE /\ user' = [user EXCEPT ![u].job = signed[u]]
           /\ Go(u, IF signed[u] = "carrier" THEN "region" ELSE "subscribe")
           /\ UNCHANGED faults
  <2> DEFINE row == [user[u] EXCEPT !.job = signed[u]]
             step == IF signed[u] = "carrier" THEN "region" ELSE "subscribe"
             w == [req[u] EXCEPT !.step = step]
  <2>1. row \in UserRow /\ row.status = user[u].status
    BY <1>1, RowsTyped
  <2>2. w \in Req /\ w.todo = req[u].todo /\ w.step = step
    <3>1. step \in ReqStep
      BY DEF ReqStep, RegisterStep
    <3> HIDE DEF step
    <3> QED
      BY <1>1, <3>1, RequestStates
  <2>3. user' = [user EXCEPT ![u] = row] /\ req' = [req EXCEPT ![u] = w]
    BY <1>3 DEF Go
  <2>4. /\ docs' = [docs EXCEPT ![u] = docs[u]] /\ coverage' = [coverage EXCEPT ![u] = coverage[u]]
        /\ docs[u] \in SUBSET DocType /\ coverage[u] \in SUBSET Region
    BY <1>0, <1>1, Kept
  <2> HIDE DEF row, w
  <2>5. faults' = 0 => SetUpTo(u, w, coverage[u] # {}, u \in profile', u \in welcomed')
    BY <1>0, <1>1, <1>3, <2>2 DEF SetUpTo
  <2>6. /\ w.step = "restore" => w.op \in RequestOp
        /\ w.step \in {"names", "region", "add"} => w.todo \subseteq Region
    BY <1>1, <2>2
  <2> HIDE DEF step
  <2>7. /\ UNCHANGED <<interests, signed, admin, save>> /\ UNCHANGED Clock /\ Faulty
        /\ profile' = profile /\ welcomed' = welcomed
    BY <1>0, <1>3 DEF Faulty
  <2>8. signed[u] = "merchant" /\ row.status = "pending_review" => docs[u] = DocType
    BY <1>1, <2>1
  <2> QED
    BY <1>1, <2>1, <2>2, <2>3, <2>4, <2>5, <2>6, <2>7, <2>8, OneStep
<1> QED
  BY <1>2, <1>3 DEF UpdateUserCachedNames

\* A governorate added to a coverage, at registration or later.
LEMMA RegionKeeps ==
  ASSUME IInv, NEW u \in User, AddCarrierRegion(u) \/ AddCoverage(u)
  PROVE  IInv'
<1>0. /\ req[u].step \in {"region", "add"}
      /\ UNCHANGED <<user, interests, docs, profile, signed, welcomed, admin, save, Clock>>
  BY DEF AddCarrierRegion, AddCoverage, AnswerLate, At
<1>1. /\ TypeOK /\ Exists(u) /\ user[u] \in UserRow /\ signed[u] \in Role
      /\ signed[u] = "merchant" /\ user[u].status = "pending_review" => docs[u] = DocType
      /\ req[u].todo \subseteq Region
      /\ faults = 0 => SetUpTo(u, req[u], coverage[u] # {}, u \in profile, u \in welcomed)
  BY <1>0, Working
<1>2. CASE Failed(u) /\ UNCHANGED coverage
  BY <1>0, <1>1, <1>2, EndKeeps DEF Failed, rows
<1>3. ASSUME NEW r \in req[u].todo, NEW last \in {"profile", "upsert"},
             last = IF req[u].step = "region" THEN "profile" ELSE "upsert",
             coverage' = [coverage EXCEPT ![u] = @ \cup {r}],
             req' = [req EXCEPT ![u].todo = @ \ {r},
                       ![u].step = IF req[u].todo = {r} THEN last ELSE req[u].step],
             UNCHANGED faults
      PROVE  IInv'
  <2> DEFINE step == IF req[u].todo = {r} THEN last ELSE req[u].step
             todo == req[u].todo \ {r}
             w == [req[u] EXCEPT !.step = step, !.todo = todo]
  <2>1. step \in ReqStep /\ todo \in SUBSET (Region \cup DocType)
    BY <1>0, <1>1 DEF ReqStep, RegisterStep
  <2>2. w \in Req /\ w.step = step /\ w.todo = todo
    <3>1. req[u] \in Req
      BY <1>1 DEF TypeOK
    <3> HIDE DEF step, todo
    <3> QED
      BY <2>1, <3>1 DEF Req
  <2>3. req' = [req EXCEPT ![u] = w]
    BY <1>1, <1>3 DEF TypeOK, Req
  <2>4. /\ docs' = [docs EXCEPT ![u] = docs[u]] /\ user' = [user EXCEPT ![u] = user[u]]
        /\ docs[u] \in SUBSET DocType /\ coverage[u] \in SUBSET Region
    BY <1>0, <1>1, Kept
  <2>5. coverage' = [coverage EXCEPT ![u] = coverage[u] \cup {r}]
        /\ coverage[u] \cup {r} \in SUBSET Region
    BY <1>1, <1>3, <2>4
  <2>6. w.step \in {req[u].step, last} /\ (w.step = req[u].step => w.todo # {})
        /\ w.todo \subseteq Region
    BY <1>0, <1>1, <1>3, <2>2
  <2> HIDE DEF w, step, todo
  <2>7. faults' = 0 => SetUpTo(u, w, coverage[u] \cup {r} # {}, u \in profile', u \in welcomed')
    BY <1>0, <1>1, <1>3, <2>6 DEF SetUpTo
  <2>8. w.step # "restore"
    BY <1>0, <1>3, <2>6
  <2>9. /\ UNCHANGED <<interests, signed, admin, save>> /\ UNCHANGED Clock /\ Faulty
        /\ profile' = profile /\ welcomed' = welcomed
    BY <1>0, <1>3 DEF Faulty
  <2> QED
    BY <1>1, <2>2, <2>3, <2>4, <2>5, <2>6, <2>7, <2>8, <2>9, OneStep
<1>4. CASE AddCarrierRegion(u)
  <2>1. req[u].step = "region"
    BY <1>4 DEF AddCarrierRegion, At
  <2> QED
    BY <1>2, <1>3, <1>4, <2>1 DEF AddCarrierRegion
<1>5. CASE AddCoverage(u)
  <2>1. req[u].step = "add"
    BY <1>5 DEF AddCoverage, At
  <2> QED
    BY <1>2, <1>3, <1>5, <2>1 DEF AddCoverage
<1> QED
  BY <1>4, <1>5

\* A step that may write the account's row, outside of the carrier's forms.
LEMMA RowStepKeeps ==
  ASSUME IInv, NEW u \in User, req[u].step \notin {"idle", "add"},
         NEW row \in UserRow, user' = [user EXCEPT ![u] = row],
         NEW w \in Req, req' = [req EXCEPT ![u] = w],
         w.step \in {"idle", "activate"} \cup RequestOp,
         UNCHANGED <<interests, docs, coverage, profile, signed, welcomed, admin, save, Clock>>,
         Faulty,
         signed[u] = "merchant" /\ row.status = "pending_review" => docs[u] = DocType
  PROVE  IInv'
<1>1. /\ TypeOK /\ Exists(u)
      /\ faults = 0 => SetUpTo(u, req[u], coverage[u] # {}, u \in profile, u \in welcomed)
  BY Working
<1>2. /\ docs' = [docs EXCEPT ![u] = docs[u]] /\ coverage' = [coverage EXCEPT ![u] = coverage[u]]
      /\ docs[u] \in SUBSET DocType /\ coverage[u] \in SUBSET Region
  BY <1>1, Kept
<1>3. w.step \notin {"restore", "names", "region", "add", "profile", "upsert", "subscribe"}
  BY DEF RequestOp
<1>4. faults' = 0 => faults = 0
  BY <1>1 DEF TypeOK, Faulty
<1>5. faults' = 0 => SetUpTo(u, w, coverage[u] # {}, u \in profile', u \in welcomed')
  BY <1>1, <1>3, <1>4 DEF SetUpTo
<1>6. /\ UNCHANGED <<interests, signed, admin, save>> /\ UNCHANGED Clock
      /\ profile' = profile /\ welcomed' = welcomed
  OBVIOUS
<1> QED
  BY <1>1, <1>2, <1>3, <1>5, <1>6, OneStep

\* The status requests: the lapsed suspension, the reads, the activation.
LEMMA StatusStepsKeep ==
  ASSUME IInv, NEW u \in User,
         \/ Restore(u) \/ Login(u) \/ GetCurrentUser(u) \/ GetUserStatus(u)
         \/ ActivateOnRead(u)
  PROVE  IInv'
<1>1. req[u].step \in {"restore", "login", "me", "status", "activate"}
  BY DEF Restore, Login, GetCurrentUser, GetUserStatus, ActivateOnRead, At
<1>2. /\ TypeOK /\ Exists(u) /\ user[u] \in UserRow
      /\ signed[u] = "merchant" /\ user[u].status = "pending_review" => docs[u] = DocType
      /\ req[u].step = "restore" => req[u].op \in RequestOp
  BY <1>1, Working
<1>3. user = [user EXCEPT ![u] = user[u]]
  BY <1>2, Kept
<1>4. Idle \in Req /\ Idle.step = "idle"
  BY <1>2, RequestStates
<1>5. ASSUME NEW step \in {"activate"} \cup RequestOp, Go(u, step)
      PROVE  \E w \in Req : req' = [req EXCEPT ![u] = w] /\ w.step = step
  <2>1. step \in ReqStep
    BY DEF ReqStep
  <2> DEFINE w == [req[u] EXCEPT !.step = step]
  <2>2. w \in Req /\ w.step = step
    BY <1>2, <2>1, RequestStates
  <2>3. req' = [req EXCEPT ![u] = w]
    BY <1>5 DEF Go
  <2> QED
    BY <2>2, <2>3
<1>6. CASE Restore(u)
  <2>0. /\ req[u].step = "restore" /\ req[u].op \in RequestOp
        /\ UNCHANGED <<interests, docs, coverage, profile, signed, welcomed, admin, save, Clock>>
        /\ Faulty
    BY <1>2, <1>6 DEF Restore, At, Faulty
  <2>1. CASE Done(u) /\ UNCHANGED user
    BY <1>2, <1>3, <1>4, <2>0, <2>1, RowStepKeeps DEF Done
  <2>2. CASE Go(u, req[u].op) /\ UNCHANGED user
    BY <1>2, <1>3, <1>5, <2>0, <2>2, RowStepKeeps
  <2>3. CASE Go(u, req[u].op) /\ user' = [user EXCEPT ![u].status = "active", ![u].until = None]
    <3> DEFINE row == [user[u] EXCEPT !.status = "active", !.until = None]
    <3>1. row \in UserRow /\ row.status = "active"
      BY <1>2, RowsTyped
    <3>2. user' = [user EXCEPT ![u] = row]
      BY <1>2, <2>3 DEF TypeOK, UserRow
    <3> HIDE DEF row
    <3>3. signed[u] = "merchant" /\ row.status = "pending_review" => docs[u] = DocType
      BY <3>1
    <3>4. PICK w \in Req : req' = [req EXCEPT ![u] = w] /\ w.step = req[u].op
      BY <1>5, <2>0, <2>3
    <3> QED
      BY <2>0, <3>1, <3>2, <3>3, <3>4, RowStepKeeps
  <2> QED
    BY <1>6, <2>1, <2>2, <2>3 DEF Restore, LazyRestoreExpiredSuspension
<1>7. CASE Login(u)
  <2>1. /\ UNCHANGED <<interests, docs, coverage, profile, signed, welcomed, admin, save, Clock>>
        /\ UNCHANGED user /\ Faulty /\ req' = [req EXCEPT ![u] = Idle]
    BY <1>7 DEF Login, Done, rows, world, Clock, Faulty
  <2> QED
    BY <1>1, <1>2, <1>3, <1>4, <2>1, RowStepKeeps
<1>8. CASE GetCurrentUser(u) \/ GetUserStatus(u)
  <2>1. /\ UNCHANGED <<interests, docs, coverage, profile, signed, welcomed, admin, save, Clock>>
        /\ UNCHANGED user /\ Faulty
    BY <1>8 DEF GetCurrentUser, GetUserStatus, rows, world, Clock, Faulty
  <2>2. Go(u, "activate") \/ req' = [req EXCEPT ![u] = Idle]
    BY <1>8 DEF GetCurrentUser, GetUserStatus, Done
  <2>3. PICK w \in Req : req' = [req EXCEPT ![u] = w] /\ w.step \in {"activate", "idle"}
    BY <1>4, <1>5, <2>2
  <2> QED
    BY <1>1, <1>2, <1>3, <2>1, <2>3, RowStepKeeps
<1>9. CASE ActivateOnRead(u)
  <2>0. /\ UNCHANGED <<interests, docs, coverage, profile, signed, welcomed, admin, save, Clock>>
        /\ Faulty /\ req' = [req EXCEPT ![u] = Idle]
    BY <1>9 DEF ActivateOnRead, Done, Failed, Faulty
  <2>1. CASE UNCHANGED user
    BY <1>1, <1>2, <1>3, <1>4, <2>0, <2>1, RowStepKeeps
  <2>2. CASE UpdateUserStatus(u, "active")
    <3> DEFINE row == [user[u] EXCEPT !.status = "active"]
    <3>1. row \in UserRow /\ row.status = "active" /\ user' = [user EXCEPT ![u] = row]
      BY <1>2, <2>2, RowsTyped DEF UpdateUserStatus, Status
    <3> HIDE DEF row
    <3>2. signed[u] = "merchant" /\ row.status = "pending_review" => docs[u] = DocType
      BY <3>1
    <3> QED
      BY <1>1, <1>4, <2>0, <3>1, <3>2, RowStepKeeps
  <2> QED
    BY <1>9, <2>1, <2>2 DEF ActivateOnRead
<1> QED
  BY <1>6, <1>7, <1>8, <1>9

\* The job of the member's own form; the documents and the review.
LEMMA FormStepsKeep ==
  ASSUME IInv, NEW u \in User, UpdateProfile(u) \/ SubmitForReview(u)
  PROVE  IInv'
<1>1. req[u].step \in {"job", "docs"}
  BY DEF UpdateProfile, SubmitForReview, At
<1>2. /\ TypeOK /\ Exists(u) /\ user[u] \in UserRow
      /\ signed[u] = "merchant" /\ user[u].status = "pending_review" => docs[u] = DocType
  BY <1>1, Working
<1>3. user = [user EXCEPT ![u] = user[u]]
  BY <1>2, Kept
<1>4. Idle \in Req /\ Idle.step = "idle"
  BY <1>2, RequestStates
<1>5. CASE UpdateProfile(u)
  <2>0. /\ UNCHANGED <<interests, docs, coverage, profile, signed, welcomed, admin, save, Clock>>
        /\ Faulty /\ req' = [req EXCEPT ![u] = Idle]
    BY <1>5 DEF UpdateProfile, Done, world, Clock, Faulty
  <2>1. PICK role \in Role : user' = [user EXCEPT ![u].job = role]
    BY <1>5 DEF UpdateProfile
  <2> DEFINE row == [user[u] EXCEPT !.job = role]
  <2>2. row \in UserRow /\ row.status = user[u].status /\ user' = [user EXCEPT ![u] = row]
    BY <1>2, <2>1, RowsTyped
  <2> HIDE DEF row
  <2>3. signed[u] = "merchant" /\ row.status = "pending_review" => docs[u] = DocType
    BY <1>2, <2>2
  <2> QED
    BY <1>1, <1>4, <2>0, <2>2, <2>3, RowStepKeeps
<1>6. CASE SubmitForReview(u)
  <2>0. /\ UNCHANGED <<interests, docs, coverage, profile, signed, welcomed, admin, save, Clock>>
        /\ Faulty /\ req' = [req EXCEPT ![u] = Idle] /\ docs[u] = DocType
    BY <1>6 DEF SubmitForReview, AllDocuments, Done, Failed, Faulty
  <2>1. CASE UNCHANGED user
    BY <1>1, <1>2, <1>3, <1>4, <2>0, <2>1, RowStepKeeps
  <2>2. CASE UpdateUserStatus(u, "pending_review")
    <3> DEFINE row == [user[u] EXCEPT !.status = "pending_review"]
    <3>1. row \in UserRow /\ user' = [user EXCEPT ![u] = row]
      BY <1>2, <2>2, RowsTyped DEF UpdateUserStatus, Status
    <3> HIDE DEF row
    <3> QED
      BY <1>1, <1>4, <2>0, <3>1, RowStepKeeps
  <2> QED
    BY <1>6, <2>1, <2>2 DEF SubmitForReview
<1> QED
  BY <1>5, <1>6

\* The carrier's profile, written at registration or with its own form, and
\* the last statement of a registration.
LEMMA ProfileStepsKeep ==
  ASSUME IInv, NEW u \in User,
         UpsertFirstProfile(u) \/ UpsertCarrierProfile(u) \/ CreateFreeSubscription(u)
  PROVE  IInv'
<1>1. /\ req[u].step \in {"profile", "upsert", "subscribe"}
      /\ UNCHANGED <<user, interests, docs, coverage, signed, admin, save>>
      /\ UNCHANGED Clock /\ Faulty
      /\ profile' = profile \/ profile' = profile \cup {u}
      /\ welcomed' = welcomed \/ welcomed' = welcomed \cup {u}
  BY DEF UpsertFirstProfile, UpsertCarrierProfile, CreateFreeSubscription, At, Failed, Faulty
<1>2. /\ TypeOK /\ Exists(u) /\ user[u] \in UserRow
      /\ signed[u] = "merchant" /\ user[u].status = "pending_review" => docs[u] = DocType
      /\ faults = 0 => SetUpTo(u, req[u], coverage[u] # {}, u \in profile, u \in welcomed)
  BY <1>1, Working
<1>3. CASE Failed(u) /\ UNCHANGED <<profile, welcomed>>
  BY <1>1, <1>2, <1>3, EndKeeps DEF Failed, rows
<1>4. ASSUME NEW w \in Req, req' = [req EXCEPT ![u] = w], UNCHANGED faults,
             \/ w.step = "subscribe" /\ req[u].step = "profile" /\ profile' = profile \cup {u}
             \/ w.step = "idle" /\ req[u].step = "upsert" /\ profile' = profile \cup {u}
                  /\ welcomed' = welcomed
             \/ w.step = "idle" /\ req[u].step = "subscribe" /\ profile' = profile
      PROVE  IInv'
  <2>1. /\ user' = [user EXCEPT ![u] = user[u]] /\ docs' = [docs EXCEPT ![u] = docs[u]]
        /\ coverage' = [coverage EXCEPT ![u] = coverage[u]]
        /\ docs[u] \in SUBSET DocType /\ coverage[u] \in SUBSET Region
    BY <1>1, <1>2, Kept
  <2>2. faults' = 0 => SetUpTo(u, w, coverage[u] # {}, u \in profile', u \in welcomed')
    BY <1>1, <1>2, <1>4 DEF SetUpTo
  <2>3. UNCHANGED <<interests, signed, admin, save>> /\ w.step \in {"idle", "subscribe"}
    BY <1>1, <1>4
  <2> QED
    BY <1>1, <1>2, <1>4, <2>1, <2>2, <2>3, OneStep
<1>5. CASE UpsertFirstProfile(u) /\ ~ (Failed(u) /\ UNCHANGED profile)
  <2>1. "subscribe" \in ReqStep
    BY DEF ReqStep, RegisterStep
  <2> DEFINE w == [req[u] EXCEPT !.step = "subscribe"]
  <2>2. w \in Req /\ w.step = "subscribe"
    BY <1>2, <2>1, RequestStates
  <2>3. req' = [req EXCEPT ![u] = w] /\ profile' = profile \cup {u} /\ UNCHANGED faults
        /\ req[u].step = "profile"
    BY <1>5 DEF UpsertFirstProfile, Go, At
  <2> HIDE DEF w
  <2> QED
    BY <1>4, <2>2, <2>3
<1>6. CASE UpsertCarrierProfile(u) /\ ~ (Failed(u) /\ UNCHANGED profile)
  <2>1. Idle \in Req /\ Idle.step = "idle"
    BY <1>2, RequestStates
  <2>2. req' = [req EXCEPT ![u] = Idle] /\ profile' = profile \cup {u} /\ UNCHANGED faults
        /\ req[u].step = "upsert" /\ welcomed' = welcomed
    BY <1>6 DEF UpsertCarrierProfile, Done, At
  <2> QED
    BY <1>4, <2>1, <2>2
<1>7. CASE CreateFreeSubscription(u) /\ ~ (Failed(u) /\ UNCHANGED welcomed)
  <2>1. Idle \in Req /\ Idle.step = "idle"
    BY <1>2, RequestStates
  <2>2. req' = [req EXCEPT ![u] = Idle] /\ profile' = profile /\ UNCHANGED faults
        /\ req[u].step = "subscribe"
    BY <1>7 DEF CreateFreeSubscription, Done, At
  <2> QED
    BY <1>4, <2>1, <2>2
<1> QED
  BY <1>3, <1>5, <1>6, <1>7 DEF UpsertFirstProfile, UpsertCarrierProfile, CreateFreeSubscription

\* A coverage is cleared, to be written anew.
LEMMA ClearingKeeps ==
  ASSUME IInv, NEW u \in User, ReplaceCarrierRegions(u)
  PROVE  IInv'
<1>0. /\ req[u].step = "coverage"
      /\ UNCHANGED <<user, interests, docs, profile, signed, welcomed, admin, save, Clock>>
  BY DEF ReplaceCarrierRegions, At
<1>1. /\ TypeOK /\ Exists(u) /\ user[u] \in UserRow
      /\ signed[u] = "merchant" /\ user[u].status = "pending_review" => docs[u] = DocType
      /\ faults = 0 => SetUpTo(u, req[u], coverage[u] # {}, u \in profile, u \in welcomed)
  BY <1>0, Working
<1>2. CASE Failed(u) /\ UNCHANGED coverage
  BY <1>0, <1>1, <1>2, EndKeeps DEF Failed, rows
<1>3. CASE ~ (Failed(u) /\ UNCHANGED coverage)
  <2>1. PICK regions \in SUBSET Region \ {{}} :
          req' = [req EXCEPT ![u].step = "add", ![u].todo = regions]
    BY <1>3 DEF ReplaceCarrierRegions
  <2> DEFINE w == [req[u] EXCEPT !.step = "add", !.todo = regions]
  <2>2. w \in Req /\ w.step = "add" /\ w.todo = regions /\ req' = [req EXCEPT ![u] = w]
    BY <1>1, <2>1 DEF TypeOK, Req, ReqStep
  <2> HIDE DEF w
  <2>3. /\ user' = [user EXCEPT ![u] = user[u]] /\ docs' = [docs EXCEPT ![u] = docs[u]]
        /\ docs[u] \in SUBSET DocType
    BY <1>0, <1>1, Kept
  <2>4. coverage' = [coverage EXCEPT ![u] = {}] /\ UNCHANGED faults
    BY <1>3 DEF ReplaceCarrierRegions
  <2>5. faults' = 0 => SetUpTo(u, w, {} # {}, u \in profile', u \in welcomed')
    BY <1>0, <1>1, <2>2, <2>4 DEF SetUpTo
  <2>6. /\ UNCHANGED <<interests, signed, admin, save>> /\ UNCHANGED Clock /\ Faulty
        /\ profile' = profile /\ welcomed' = welcomed /\ w.todo \subseteq Region
    BY <1>0, <2>2, <2>4 DEF Faulty
  <2> QED
    BY <1>1, <2>2, <2>3, <2>4, <2>5, <2>6, OneStep
<1> QED
  BY <1>2, <1>3

\* A document is stored.
LEMMA DocumentKeeps ==
  ASSUME IInv, NEW u \in User, SubmitDocuments(u)
  PROVE  IInv'
<1>0. /\ req[u].step = "docs" /\ docs[u] # DocType
      /\ UNCHANGED <<user, interests, coverage, profile, signed, welcomed, admin, save, Clock>>
  BY DEF SubmitDocuments, AllDocuments, At
<1>1. /\ TypeOK /\ Exists(u) /\ user[u] \in UserRow
      /\ signed[u] = "merchant" /\ user[u].status = "pending_review" => docs[u] = DocType
      /\ faults = 0 => SetUpTo(u, req[u], coverage[u] # {}, u \in profile, u \in welcomed)
  BY <1>0, Working
<1>2. CASE Failed(u) /\ UNCHANGED docs
  BY <1>0, <1>1, <1>2, EndKeeps DEF Failed, rows
<1>3. CASE ~ (Failed(u) /\ UNCHANGED docs)
  <2>1. PICK d \in DocType : docs' = [docs EXCEPT ![u] = docs[u] \cup {d}]
    BY <1>3 DEF SubmitDocuments
  <2>2. UNCHANGED <<req, faults>>
    BY <1>3 DEF SubmitDocuments
  <2>3. /\ user' = [user EXCEPT ![u] = user[u]] /\ coverage' = [coverage EXCEPT ![u] = coverage[u]]
        /\ docs[u] \in SUBSET DocType /\ coverage[u] \in SUBSET Region
        /\ req[u] \in Req /\ req' = [req EXCEPT ![u] = req[u]]
    BY <1>0, <1>1, <2>2, Kept DEF TypeOK
  <2>4. docs[u] \cup {d} \in SUBSET DocType
    BY <2>3
  <2>5. faults' = 0 => SetUpTo(u, req[u], coverage[u] # {}, u \in profile', u \in welcomed')
    BY <1>0, <1>1, <2>2 DEF SetUpTo
  <2>6. /\ UNCHANGED <<interests, signed, admin, save>> /\ UNCHANGED Clock /\ Faulty
        /\ profile' = profile /\ welcomed' = welcomed
    BY <1>0, <2>2 DEF Faulty
  <2>7. signed[u] = "merchant" /\ user[u].status = "pending_review" => docs[u] \cup {d} = DocType
    BY <1>0, <1>1
  <2> QED
    BY <1>0, <1>1, <2>1, <2>3, <2>4, <2>5, <2>6, <2>7, OneStep
<1> QED
  BY <1>2, <1>3

-----------------------------------------------------------------------------
(* The other steps.                                                        *)

\* A new account.
LEMMA CreateKeeps ==
  ASSUME IInv, NEW u \in User, CreateUser(u)
  PROVE  IInv'
<1>0. /\ ~Exists(u) /\ req[u].step = "idle" /\ TypeOK
      /\ UNCHANGED <<interests, docs, coverage, profile, welcomed, admin, save, world>>
  BY DEF CreateUser, At, IInv
<1>1. PICK role \in Role, regions \in SUBSET Region :
        /\ (role = "carrier") <=> (regions # {})
        /\ user' = [user EXCEPT ![u] = [status |-> InitialStatus(role), until |-> None,
                                        job |-> "", count |-> 0]]
        /\ signed' = [signed EXCEPT ![u] = role]
        /\ req' = [req EXCEPT ![u] = [step |-> "names", op |-> "register", todo |-> regions]]
  BY DEF CreateUser
<1>2. PICK status \in Status : /\ status = InitialStatus(role)
                               /\ role = "merchant" => status # "pending_review"
  BY DEF InitialStatus, Role, Status
<1> DEFINE row == [status |-> status, until |-> None, job |-> "", count |-> 0]
           w == [step |-> "names", op |-> "register", todo |-> regions]
<1>3. row \in UserRow /\ row.status = status /\ user' = [user EXCEPT ![u] = row]
  BY <1>1, <1>2 DEF UserRow
<1>4. w \in Req /\ w.step = "names" /\ w.todo = regions /\ req' = [req EXCEPT ![u] = w]
  BY <1>1 DEF Req, ReqStep, RegisterStep
<1> HIDE DEF row, w
<1>5. row # None
  BY <1>3, AccountsAssumption
<1>6. /\ user'[u] = row /\ req'[u] = w /\ signed'[u] = role
      /\ \A v \in User \ {u} : user'[v] = user[v] /\ req'[v] = req[v] /\ signed'[v] = signed[v]
  BY <1>0, <1>1, <1>3, <1>4 DEF TypeOK
<1>7. TypeOK'
  <2>1. user' \in [User -> UserRow \cup {None}] /\ req' \in [User -> Req]
    BY <1>0, <1>3, <1>4 DEF TypeOK
  <2>2. signed' \in [User -> Role \cup {None}]
    BY <1>0, <1>1 DEF TypeOK
  <2> QED
    BY <1>0, <2>1, <2>2 DEF TypeOK, world
<1>8. \A v \in User : user'[v] # None <=> v = u \/ Exists(v)
  BY <1>5, <1>6 DEF Exists
<1>9. AccountsExist'
  <2>1. \A v \in User : req'[v].step # "idle" \/ v \in welcomed' => user'[v] # None
    BY <1>0, <1>6, <1>8 DEF IInv, AccountsExist
  <2>2. \A v \in User : user'[v] # None => signed'[v] \in Role
    BY <1>6, <1>8 DEF IInv, AccountsExist
  <2>3. \A a \in Admin : admin'[a] # None => user'[admin'[a].user] # None
    BY <1>0, <1>8 DEF IInv, AccountsExist, TypeOK, Deed
  <2>4. \A s \in Saver : save'[s] # None => user'[save'[s].user] # None
    BY <1>0, <1>8 DEF IInv, AccountsExist, TypeOK, Saving
  <2> QED
    BY <2>1, <2>2, <2>3, <2>4 DEF AccountsExist, Exists, At
<1>10. \A v \in User : RequestOK(v)' /\ DocumentsOK(v)'
  <2>1. RequestOK(u)' /\ DocumentsOK(u)'
    BY <1>2, <1>3, <1>4, <1>6 DEF RequestOK, DocumentsOK, At
  <2>2. ASSUME NEW v \in User \ {u} PROVE RequestOK(v)' /\ DocumentsOK(v)'
    BY <1>0, <1>6 DEF IInv, RequestOK, DocumentsOK, At, Exists
  <2> QED
    BY <2>1, <2>2
<1>11. SetUpConsistent'
  <2>1. u \notin welcomed
    BY <1>0 DEF IInv, AccountsExist
  <2>2. SetUpOK(u)'
    BY <1>0, <1>1, <1>4, <1>6, <2>1 DEF SetUpOK, At
  <2>3. ASSUME NEW v \in User \ {u}, SetUpOK(v) PROVE SetUpOK(v)'
    BY <1>0, <1>6, <2>3 DEF SetUpOK, Covered, At
  <2> QED
    BY <1>0, <2>2, <2>3 DEF IInv, SetUpConsistent, world
<1> QED
  BY <1>7, <1>9, <1>10, <1>11 DEF IInv

\* A request passes the middleware, or the head of Login.
LEMMA EnterKeeps ==
  ASSUME IInv, NEW u \in User, NEW op \in RequestOp, Enter(u, op)
  PROVE  IInv'
<1>0. /\ Exists(u) /\ req[u].step = "idle" /\ TypeOK
      /\ UNCHANGED <<rows, admin, save, world>>
  BY DEF Enter, At, IInv
<1>1. PICK step \in {"restore", op} : req' = [req EXCEPT ![u] = [step |-> step, op |-> op, todo |-> {}]]
  BY DEF Enter
<1> DEFINE w == [step |-> step, op |-> op, todo |-> {}]
<1>2. /\ w \in Req /\ w.op \in RequestOp /\ w.todo = {} /\ req' = [req EXCEPT ![u] = w]
      /\ w.step \notin {"names", "region", "add", "profile", "upsert", "subscribe"}
  BY <1>1 DEF Req, ReqStep, RequestOp
<1> HIDE DEF w
<1>3. /\ user' = [user EXCEPT ![u] = user[u]] /\ docs' = [docs EXCEPT ![u] = docs[u]]
      /\ coverage' = [coverage EXCEPT ![u] = coverage[u]]
      /\ docs[u] \in SUBSET DocType /\ coverage[u] \in SUBSET Region /\ user[u] \in UserRow
  BY <1>0, Kept DEF rows
<1>4. /\ UNCHANGED <<interests, signed, admin, save>> /\ UNCHANGED Clock /\ Faulty
      /\ profile' = profile /\ welcomed' = welcomed /\ faults' = faults
  BY <1>0 DEF rows, world, Clock, Faulty
<1>5. signed[u] = "merchant" /\ user[u].status = "pending_review" => docs[u] = DocType
  BY <1>0 DEF IInv, DocumentsOK
<1>6. faults' = 0 => SetUpTo(u, w, coverage[u] # {}, u \in profile', u \in welcomed')
  BY <1>0, <1>2, <1>4 DEF IInv, SetUpConsistent, SetUpOK, SetUpTo, Covered, At
<1> QED
  BY <1>0, <1>2, <1>3, <1>4, <1>5, <1>6, OneStep

\* A member's interests.
LEMMA ReplaceKeeps ==
  ASSUME IInv, NEW s \in Saver, CommitReplace(s) \/ \E u \in User : BeginReplace(s, u)
  PROVE  IInv'
<1>1. CASE \E u \in User : BeginReplace(s, u)
  <2>1. PICK u \in User : BeginReplace(s, u)
    BY <1>1
  <2>2. PICK new \in SUBSET Interest :
          save' = [save EXCEPT ![s] = [user |-> u, seen |-> interests[u], new |-> new]]
    BY <2>1 DEF BeginReplace
  <2>3. [user |-> u, seen |-> interests[u], new |-> new] \in Saving
    BY DEF IInv, TypeOK, Saving
  <2>4. Exists(u) /\ UNCHANGED <<rows, req, admin, world>>
    BY <2>1 DEF BeginReplace
  <2>5. TypeOK'
    BY <2>2, <2>3, <2>4 DEF IInv, TypeOK, rows, world
  <2>6. \A t \in Saver : save'[t] # None => Exists(save'[t].user)
    BY <2>2, <2>4 DEF IInv, TypeOK, AccountsExist
  <2> QED
    BY <2>4, <2>5, <2>6, NoRow DEF rows, world, IInv, AccountsExist
<1>2. CASE CommitReplace(s)
  <2>1. PICK t \in Saving : t = save[s]
    BY <1>2 DEF CommitReplace, IInv, TypeOK
  <2>2. /\ t.user \in User /\ Exists(t.user) /\ t.new \in SUBSET Interest
        /\ user[t.user] \in UserRow /\ interests \in [User -> SUBSET Interest]
    <3>1. save[s] # None
      BY <1>2 DEF CommitReplace
    <3>2. t.user \in User /\ t.new \in SUBSET Interest
      BY DEF Saving
    <3>3. Exists(t.user)
      BY <2>1, <3>1 DEF IInv, AccountsExist
    <3> QED
      BY <3>2, <3>3 DEF IInv, TypeOK, Exists
  <2>3. PICK n \in Nat : n = Cardinality(t.new)
    BY <2>2, FS_Subset, FS_CardinalityType, AccountsAssumption
  <2>4. /\ save' = [save EXCEPT ![s] = None]
        /\ UNCHANGED <<docs, coverage, profile, signed, welcomed, req, admin, Clock>> /\ Faulty
    BY <1>2 DEF CommitReplace, Faulty
  <2>5. /\ UNCHANGED Clock /\ UNCHANGED <<docs, coverage, profile, signed, welcomed, req>>
        /\ \A a \in Admin : admin'[a] = admin[a] \/ admin'[a] = None
        /\ \A r \in Saver : save'[r] = save[r] \/ save'[r] = None
        /\ admin' \in [Admin -> Deed \cup {None}] /\ save' \in [Saver -> Saving \cup {None}]
    BY <2>4 DEF IInv, TypeOK
  <2>6. CASE UNCHANGED <<interests, user>>
    <3>1. user' = [user EXCEPT ![t.user] = user[t.user]] /\ interests' \in [User -> SUBSET Interest]
      BY <2>2, <2>6, Kept DEF IInv
    <3> QED
      BY <2>2, <2>4, <2>5, <3>1, OneRow
  <2>7. CASE /\ interests' = [interests EXCEPT ![t.user] = (@ \ t.seen) \cup t.new]
             /\ user' = [user EXCEPT ![t.user].count = Cardinality(t.new)]
    <3> DEFINE row == [user[t.user] EXCEPT !.count = n]
    <3>1. row \in UserRow /\ row.status = user[t.user].status
      BY <2>2, RowsTyped
    <3>2. user' = [user EXCEPT ![t.user] = row]
      BY <2>3, <2>7
    <3>3. interests' \in [User -> SUBSET Interest]
      BY <2>2, <2>7
    <3> HIDE DEF row
    <3> QED
      BY <2>2, <2>4, <2>5, <3>1, <3>2, <3>3, OneRow
  <2> QED
    BY <1>2, <2>1, <2>6, <2>7 DEF CommitReplace
<1> QED
  BY <1>1, <1>2

\* Time passes.
LEMMA TickKeeps ==
  ASSUME IInv, Tick
  PROVE  IInv'
<1>1. today' \in 0 .. Horizon
  BY AccountsAssumption DEF IInv, TypeOK, Tick
<1>2. UNCHANGED <<rows, calls, requireDocs, faults>>
  BY DEF Tick
<1>3. TypeOK'
  BY <1>1, <1>2 DEF IInv, TypeOK, rows, calls
<1> QED
  BY <1>2, <1>3, NoRow DEF rows, calls, IInv, AccountsExist

\* The server restarts.
LEMMA RestartKeeps ==
  ASSUME IInv, Restart
  PROVE  IInv'
<1>1. /\ req' = [u \in User |-> Idle] /\ admin' = [a \in Admin |-> None]
      /\ save' = [s \in Saver |-> None] /\ UNCHANGED <<rows, today>>
      /\ faults' = faults + 1 /\ requireDocs' \in BOOLEAN
  BY DEF Restart
<1>2. Idle \in Req /\ Idle.step = "idle"
  BY DEF Idle, Req, ReqStep
<1>3. TypeOK'
  <2>1. req' \in [User -> Req] /\ faults' \in Nat
    BY <1>1, <1>2 DEF IInv, TypeOK
  <2> QED
    BY <1>1, <2>1 DEF IInv, TypeOK, rows
<1>4. \A v \in User : req'[v].step = "idle"
  BY <1>1, <1>2
<1>5. AccountsExist'
  BY <1>1, <1>4 DEF IInv, AccountsExist, rows, Exists, At
<1>6. \A v \in User : RequestOK(v)' /\ DocumentsOK(v)'
  BY <1>1, <1>4 DEF IInv, RequestOK, DocumentsOK, At, Exists, rows
<1>7. SetUpConsistent'
  BY <1>1 DEF IInv, TypeOK, SetUpConsistent
<1> QED
  BY <1>3, <1>5, <1>6, <1>7 DEF IInv

-----------------------------------------------------------------------------
(* The results.                                                            *)

\* Every step keeps the invariant.
LEMMA StepKeepsIInv == IInv /\ [Next]_vars => IInv'
<1> SUFFICES ASSUME IInv, [Next]_vars PROVE IInv'
  OBVIOUS
<1>1. ASSUME NEW u \in User, CreateUser(u) PROVE IInv'
  BY <1>1, CreateKeeps
<1>2. ASSUME NEW u \in User, Step(u) PROVE IInv'
  BY <1>2, NamesKeep, RegionKeeps, StatusStepsKeep, FormStepsKeep, ProfileStepsKeep,
     ClearingKeeps, DocumentKeeps DEF Step
<1>3. ASSUME NEW u \in User, CheckLogin(u) \/ \E op \in RequestOp : AccountStatus(u, op)
      PROVE  IInv'
  <2>1. PICK op \in RequestOp : Enter(u, op)
    BY <1>3 DEF CheckLogin, AccountStatus, RequestOp
  <2> QED
    BY <2>1, EnterKeeps
<1>4. ASSUME NEW s \in Saver, CommitReplace(s) \/ (\E u \in User : BeginReplace(s, u)) PROVE IInv'
  BY <1>4, ReplaceKeeps
<1>5. ASSUME NEW a \in Admin,
             \/ ApproveUser(a) \/ RejectUser(a) \/ SuspendUser(a)
             \/ UnsuspendUser(a) \/ BanUser(a) \/ UnbanUser(a)
      PROVE  IInv'
  BY <1>5, AdminKeeps
<1>6. ASSUME NEW a \in Admin, NEW op \in AdminOp, NEW u \in User, Open(a, op, u) PROVE IInv'
  BY <1>6, OpenKeeps
<1>7. CASE UNCHANGED vars
  <2>1. TypeOK' /\ UNCHANGED <<user, docs, coverage, profile, signed, welcomed, req, faults>>
        /\ UNCHANGED <<admin, save>>
    BY <1>7 DEF IInv, TypeOK, vars, rows, calls, world
  <2> QED
    BY <2>1, NoRow DEF IInv, AccountsExist
<1> QED
  BY <1>1, <1>2, <1>3, <1>4, <1>5, <1>6, <1>7, TickKeeps, RestartKeeps DEF Next

\* The inductive invariant holds throughout.
THEOREM Invariance == Spec => []IInv
<1>1. Init => IInv
  BY InitIInv
<1>2. IInv /\ [Next]_vars => IInv'
  BY StepKeepsIInv
<1> QED
  BY <1>1, <1>2, PTL DEF Spec

\* Nobody waits for a review with documents missing.
THEOREM ReviewsAreComplete == Spec => []ReviewQueueIsComplete
<1>1. IInv => ReviewQueueIsComplete
  BY DEF IInv, DocumentsOK, ReviewQueueIsComplete
<1> QED
  BY <1>1, Invariance, PTL

\* A carrier that was told it is registered is set up.
THEOREM CarriersSetUp == Spec => []CarriersAreSetUp
<1>1. IInv => CarriersAreSetUp
  <2> SUFFICES ASSUME IInv, NEW u \in welcomed, signed[u] = "carrier", faults = 0,
                      req[u].step # "add"
               PROVE  coverage[u] # {} /\ u \in profile
    BY DEF CarriersAreSetUp
  <2>1. u \in User
    BY DEF IInv, TypeOK
  <2>2. SetUpOK(u)
    BY <2>1 DEF IInv, SetUpConsistent
  <2> QED
    BY <2>2 DEF SetUpOK, Covered, At
<1> QED
  BY <1>1, Invariance, PTL

\* Who may bring account u back: an administrator with the account open, or a
\* request of the member that was let in before.
Excused(u) ==
  \/ \E a \in Admin : admin[a] # None /\ admin[a].user = u /\ admin'[a] = None
  \/ req[u].step \notin {"idle", "restore"}

Running(u) == user[u].status = "suspended" /\ user[u].until # None /\ user[u].until <= today

\* A step that keeps the row of u, or its status.
LEMMA StatusKept ==
  ASSUME IInv, [Next]_vars, NEW u \in User, Exists(u), Barred(u), ~Running(u)
  PROVE  user'[u].status = user[u].status \/ Barred(u)' \/ Excused(u)
<1>0. TypeOK
  BY DEF IInv
<1>1. ASSUME NEW v \in User, CreateUser(v) PROVE user'[u] = user[u]
  BY <1>0, <1>1 DEF CreateUser, Exists, TypeOK
<1>2. ASSUME NEW v \in User \ {u}, Step(v) PROVE user'[u] = user[u]
  <2>1. CASE UpdateUserCachedNames(v) \/ Restore(v) \/ ActivateOnRead(v) \/ SubmitForReview(v)
             \/ UpdateProfile(v)
    BY <1>0, <2>1 DEF TypeOK, UpdateUserCachedNames, Restore, LazyRestoreExpiredSuspension,
       ActivateOnRead, SubmitForReview, UpdateProfile, UpdateUserStatus
  <2> QED
    BY <1>2, <2>1 DEF Step, AddCarrierRegion, UpsertFirstProfile, CreateFreeSubscription, Login,
       GetCurrentUser, GetUserStatus, SubmitDocuments, ReplaceCarrierRegions, AddCoverage, UpsertCarrierProfile,
       rows
<1>3. ASSUME Step(u) PROVE user'[u] = user[u] \/ Excused(u)
  <2>1. CASE Restore(u)
    BY <2>1 DEF Restore, LazyRestoreExpiredSuspension, Running
  <2>2. CASE ~Restore(u)
    BY <1>3, <2>2 DEF Step, Excused, At, UpdateUserCachedNames, AddCarrierRegion,
       UpsertFirstProfile, CreateFreeSubscription, Login, GetCurrentUser, GetUserStatus,
       ActivateOnRead, SubmitDocuments, SubmitForReview, UpdateProfile, ReplaceCarrierRegions, AddCoverage,
       UpsertCarrierProfile
  <2> QED
    BY <2>1, <2>2
<1>4. ASSUME NEW v \in User, CheckLogin(v) \/ \E op \in RequestOp : AccountStatus(v, op)
      PROVE  user'[u] = user[u]
  BY <1>4 DEF CheckLogin, AccountStatus, Enter, rows
<1>5. ASSUME NEW s \in Saver, CommitReplace(s) \/ (\E v \in User : BeginReplace(s, v))
      PROVE  user'[u].status = user[u].status
  <2>1. CASE UNCHANGED user
    BY <2>1
  <2>2. CASE CommitReplace(s) /\ ~UNCHANGED user
    <3>1. PICK n, v : n = Cardinality(save[s].new) /\ v = save[s].user
      OBVIOUS
    <3>2. user' = [user EXCEPT ![v].count = n]
      BY <2>2, <3>1 DEF CommitReplace
    <3>3. user[u] \in UserRow
      BY <1>0, Kept
    <3> QED
      BY <1>0, <3>2, <3>3 DEF TypeOK, UserRow
  <2> QED
    BY <1>5, <2>1, <2>2 DEF BeginReplace, rows
<1>6. ASSUME NEW a \in Admin,
             \/ ApproveUser(a) \/ RejectUser(a) \/ SuspendUser(a)
             \/ UnsuspendUser(a) \/ BanUser(a) \/ UnbanUser(a)
      PROVE  user'[u] = user[u] \/ Excused(u)
  <2>1. /\ admin[a] # None /\ admin'[a] = None /\ admin[a].user \in User
        /\ \E row \in UserRow : user' = [user EXCEPT ![admin[a].user] = row]
    BY <1>6, DecisionWritten
  <2> QED
    BY <1>0, <2>1 DEF Excused, TypeOK
<1>7. ASSUME NEW a \in Admin, NEW op \in AdminOp, NEW v \in User, Open(a, op, v)
      PROVE  user'[u] = user[u]
  BY <1>7 DEF Open, rows
<1>8. CASE Tick \/ Restart \/ UNCHANGED vars
  BY <1>8 DEF Tick, Restart, vars, rows
<1> QED
  BY <1>1, <1>2, <1>3, <1>4, <1>5, <1>6, <1>7, <1>8 DEF Next

\* A sanction ends by an administrator's decision, by running out, or by a
\* request that was let in before it.
THEOREM SanctionsStand == Spec => SanctionsHold
<1> DEFINE Stands ==
      \A u \in User :
        ( /\ Exists(u) /\ Barred(u)
          /\ ~(user[u].status = "suspended" /\ user[u].until # None /\ user[u].until <= today)
          /\ user'[u].status \notin {"suspended", "banned"} )
        => \/ \E a \in Admin : admin[a] # None /\ admin[a].user = u /\ admin'[a] = None
           \/ req[u].step \notin {"idle", "restore"}
<1>1. IInv /\ [Next]_vars => [Stands]_vars
  <2> SUFFICES ASSUME IInv, [Next]_vars PROVE Stands
    OBVIOUS
  <2> QED
    BY StatusKept DEF Running, Excused, Barred
<1> QED
  BY <1>1, Invariance, PTL DEF Spec, SanctionsHold

===============================================================================
