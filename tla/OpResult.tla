------------------------------ MODULE OpResult ------------------------------
(***************************************************************************)
(* What the lock says happened: the operation result byte, whose two low   *)
(* bits carry the outcome class (mkey-core/src/op_result.rs), and the      *)
(* Outcome handed to the caller (mkey-session/src/types.rs).               *)
(***************************************************************************)
EXTENDS Bytes

\* OpResultGroup::of
Group(op) == CASE op % 4 = 1 -> "Failure"
               [] op % 4 = 2 -> "Accepted"
               [] op % 4 = 3 -> "Rejected"
               [] OTHER      -> "Unknown"

\* OpResultGroup::is_final: the lock has reached a verdict.
IsFinal(op) == Group(op) \in {"Accepted", "Rejected"}

\* OpResultGroup::is_accepted
IsAccepted(op) == Group(op) = "Accepted"

\* Outcome::new: an absent result has the default group, Unknown.
OutcomeOf(version, op) ==
  [version  |-> version,
   op       |-> op,
   accepted |-> op # None /\ IsAccepted(op)]

\* A Result<Outcome, Error>: err is None for Ok, outcome is None for Err.
Ok(outcome) == [err |-> None, outcome |-> outcome]
Err(e)      == [err |-> e, outcome |-> None]
=============================================================================
