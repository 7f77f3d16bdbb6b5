---------------------------- MODULE AccountsVetting ----------------------------
(* Accounts with a history of what the administrators decided.             *)
EXTENDS Accounts

VARIABLE vetted  \* accounts an administrator has decided about otherwise than by a sanction

Lets(a) == admin[a] # None /\ admin'[a] = None /\ admin[a].op \notin {"suspend", "ban"}

VettingInit == Init /\ vetted = {}
VettingNext == Next /\ vetted' = vetted \cup {admin[a].user : a \in {b \in Admin : Lets(b)}}
VettingSpec == VettingInit /\ [][VettingNext]_<<vars, vetted>>

\* What register_service.go says of carriers: they wait for an administrator
\* whatever the documents flag says, so none is active that no administrator
\* has let in.
CarriersAreVetted ==
  \A u \in User :
    (Exists(u) /\ signed[u] = "carrier" /\ user[u].status = "active") => u \in vetted
=============================================================================
