------------------------------ MODULE Attempt ------------------------------
(***************************************************************************)
(* One opening attempt as the caller of run_session sees it, without the   *)
(* protocol: phases that only move forward, at most one verdict of the     *)
(* lock, one outcome that agrees with it, and then the end.                *)
(*                                                                         *)
(* The promises are the documentation's: Phase and Outcome in              *)
(* mkey-session/src/types.rs, run_session in mkey-ble/src/pump.rs.         *)
(***************************************************************************)
EXTENDS OpResult

VARIABLES phase,   \* the last phase the observer was told
          verdict, \* the final result the lock has reported, or None
          outcome, \* what run_session is going to return
          over     \* run_session has returned

attemptVars == <<phase, verdict, outcome, over>>

Phases == <<"NotStarted", "DetectingVersion", "Authenticating", "Exchanging", "Finished">>

Before(p, q) == \E i, j \in 1..5 : i < j /\ Phases[i] = p /\ Phases[j] = q

Init ==
  /\ phase = "NotStarted"
  /\ verdict = None
  /\ outcome = None
  /\ over = FALSE

\* Phases may be skipped, never repeated; after the outcome only Finished.
Advance ==
  /\ \E p \in {Phases[i] : i \in 2..5} :
       /\ Before(phase, p)
       /\ outcome # None => p = "Finished"
       /\ phase' = p
  /\ UNCHANGED <<verdict, outcome, over>>

\* The lock decides, once.
Decide ==
  /\ outcome = None /\ verdict = None
  /\ \E op \in Byte : IsFinal(op) /\ verdict' = op
  /\ UNCHANGED <<phase, outcome, over>>

\* Success hands over the verdict; only a v0100 lock has nothing but the
\* result itself.
Succeed ==
  /\ outcome = None
  /\ \/ outcome' = Ok(OutcomeOf(2, verdict))
     \/ verdict = None /\ \E op \in Byte : outcome' = Ok(OutcomeOf(1, op))
  /\ UNCHANGED <<phase, verdict, over>>

\* After a verdict neither silence nor a dropped link is an error.
Fail ==
  /\ outcome = None
  /\ \E e \in {"Timeout", "Disconnected", "Transport", "InvalidData", "InvalidState",
               "InvalidCrc", "AuthenticationFailed", "InvalidProtocolVersion"} :
       /\ verdict # None => e \notin {"Timeout", "Disconnected"}
       /\ outcome' = Err(e)
  /\ UNCHANGED <<phase, verdict, over>>

\* The end comes with an outcome and after the last phase, which only a failed
\* transport call may leave out.
End ==
  /\ ~over /\ outcome # None
  /\ phase = "Finished" \/ outcome.err = "Transport"
  /\ over' = TRUE
  /\ UNCHANGED <<phase, verdict, outcome>>

Next == Advance \/ Decide \/ Succeed \/ Fail \/ End

Spec == Init /\ [][Next]_attemptVars
=============================================================================
