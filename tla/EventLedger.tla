---------------------------- MODULE EventLedger -----------------------------
(***************************************************************************)
(* What the event queue promises of an event, seen from outside: once      *)
(* accepted it waits, is taken up at most MaxTries times, may be given     *)
(* back in between, and is settled for good in the end.  Workers, leases   *)
(* and sweeps are left out.                                                *)
(***************************************************************************)
EXTENDS Naturals

CONSTANTS Events, MaxTries

VARIABLES phase, tries

vars == <<phase, tries>>

Phases == {"unknown", "waiting", "taken", "settled"}

Init ==
  /\ phase = [e \in Events |-> "unknown"]
  /\ tries = [e \in Events |-> 0]

Accept(e) ==
  /\ phase[e] = "unknown"
  /\ phase' = [phase EXCEPT ![e] = "waiting"]
  /\ UNCHANGED tries

(* Several waiting events may be taken up at once. *)
Take(S) ==
  /\ \A e \in S : phase[e] = "waiting" /\ tries[e] < MaxTries
  /\ phase' = [e \in Events |-> IF e \in S THEN "taken" ELSE phase[e]]
  /\ tries' = [e \in Events |-> IF e \in S THEN tries[e] + 1 ELSE tries[e]]

GiveBack(e) ==
  /\ phase[e] = "taken"
  /\ phase' = [phase EXCEPT ![e] = "waiting"]
  /\ UNCHANGED tries

(* An event that was given back can still be settled by whoever had it. *)
Settle(e) ==
  /\ phase[e] \in {"waiting", "taken"}
  /\ phase' = [phase EXCEPT ![e] = "settled"]
  /\ UNCHANGED tries

Next ==
  \/ \E e \in Events : Accept(e) \/ GiveBack(e) \/ Settle(e)
  \/ \E S \in SUBSET Events : Take(S)

Spec == Init /\ [][Next]_vars

FairSpec == Spec /\ \A e \in Events : WF_vars(Settle(e))

=============================================================================
