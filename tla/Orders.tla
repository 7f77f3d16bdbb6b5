------------------------------- MODULE Orders -------------------------------
(***************************************************************************)
(* What the platform promises about an order, whichever kind of post it    *)
(* came from: once placed it waits ConfirmWindow for the other party.  It  *)
(* is completed before its deadline or cancelled after it, never both, and *)
(* only a cancelled order is ever announced as expired.                    *)
(***************************************************************************)
EXTENDS Naturals

CONSTANTS OrderId, ConfirmWindow

VARIABLES now, status, deadline, expiredNotice

vars == <<now, status, deadline, expiredNotice>>

Init ==
  /\ now = 0
  /\ status = [o \in OrderId |-> "none"]
  /\ deadline = [o \in OrderId |-> 0]
  /\ expiredNotice = {}

\* One party has committed by creating the order; the clock starts.
Place(o) ==
  /\ status[o] = "none"
  /\ status' = [status EXCEPT ![o] = "awaiting"]
  /\ deadline' = [deadline EXCEPT ![o] = now + ConfirmWindow]
  /\ UNCHANGED <<now, expiredNotice>>

\* The other party confirms in time.
Complete(o) ==
  /\ status[o] = "awaiting"
  /\ now < deadline[o]
  /\ status' = [status EXCEPT ![o] = "completed"]
  /\ UNCHANGED <<now, deadline, expiredNotice>>

\* Nobody did.
Lapse(o) ==
  /\ status[o] = "awaiting"
  /\ deadline[o] < now
  /\ status' = [status EXCEPT ![o] = "cancelled"]
  /\ UNCHANGED <<now, deadline, expiredNotice>>

AnnounceExpired(o) ==
  /\ status[o] = "cancelled"
  /\ expiredNotice' = expiredNotice \cup {o}
  /\ UNCHANGED <<now, status, deadline>>

Tick ==
  /\ now' = now + 1
  /\ UNCHANGED <<status, deadline, expiredNotice>>

Next ==
  \/ \E o \in OrderId : Place(o) \/ Complete(o) \/ Lapse(o) \/ AnnounceExpired(o)
  \/ Tick

Spec == Init /\ [][Next]_vars

\* No order waits for ever once its deadline has passed.
FairSpec == Spec /\ \A o \in OrderId : WF_vars(Lapse(o))
=============================================================================
