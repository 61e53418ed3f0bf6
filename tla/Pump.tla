-------------------------------- MODULE Pump --------------------------------
(***************************************************************************)
(* The native shell (mkey-ble/src/pump.rs): run_session drives a Session   *)
(* over a transport, one await at a time, while the lock sends, drops the  *)
(* link and the clock runs.                                                *)
(*                                                                         *)
(* Each action the session asked for is a step of its own, because each is *)
(* an await: notifications queue up, the link can go and a transport call  *)
(* can fail between any two of them.                                       *)
(***************************************************************************)
EXTENDS Session

CONSTANTS MaxPackets,  \* notifications the lock sends in one attempt
          MaxQueue     \* notifications waiting in the transport at once

\* An absent timer is no timer, an absent result no result.
ASSUME PumpAssumption ==
  /\ MaxPackets \in Nat /\ MaxQueue \in Nat
  /\ None \notin Timers
  /\ \A e \in ErrorCode : Err(e) # None
  /\ \A v \in {1, 2}, op \in Byte \cup {None} : Ok(OutcomeOf(v, op)) # None

VARIABLES pc,        \* where run_session is
          pending,   \* the event the next poll is given
          todo,      \* the rest of the action list being applied
          info,      \* protocol_info: <<>>, or <<what the read brought>>
          deadline,  \* the timer pending, None before the first SetTimer
          expired,   \* its instant has passed
          result,    \* what pump returned
          phases,    \* what the observer was told, in order
          link,      \* the link to the lock: "up" or "down"
          subscribed,\* notifications are enabled
          rx,        \* notifications the transport has queued
          sent,      \* how many the lock has sent
          writes     \* how many packets the lock has been written

pumpVars      == <<pc, pending, todo, info, deadline, expired, result, phases>>
transportVars == <<link, subscribed, rx, sent, writes>>
vars          == <<sessionVars, pumpVars, transportVars>>

\* run_session has not given the transport back yet.
Running == pc # "returned"

-----------------------------------------------------------------------------
(* The loop of pump *)

PollSession ==
  /\ pc = "poll"
  /\ Poll(pending)
  /\ todo' = actions'
  /\ info' = <<>>
  /\ pc' = "apply"
  /\ UNCHANGED <<pending, deadline, expired, result, phases, transportVars>>

\* The next action to apply is of this kind; it is taken off the list.
Apply(kind) ==
  /\ pc = "apply" /\ todo # <<>>
  /\ Head(todo).kind = kind
  /\ todo' = Tail(todo)
  /\ UNCHANGED sessionVars

Return(r) == pc' = "finish" /\ result' = r

\* Not fatal: the outcome of the write is only traced.
ApplyAnnounce ==
  /\ Apply("AnnounceAppProtocol")
  /\ UNCHANGED <<pc, pending, info, deadline, expired, result, phases, transportVars>>

\* Mutant: a failed read is not handed to the session.
ReadOrSkip ==
  /\ Apply("ReadProtocolInfo")
  /\ \E i \in Infos : (link = "down" => i = None) /\ info' = IF i = None THEN <<>> ELSE <<i>>
  /\ UNCHANGED <<pc, pending, deadline, expired, result, phases, transportVars>>

\* A failed read and a read that times out both bring None.
ApplyReadProtocolInfo ==
  /\ Apply("ReadProtocolInfo")
  /\ \E i \in Infos : (link = "down" => i = None) /\ info' = <<i>>
  /\ UNCHANGED <<pc, pending, deadline, expired, result, phases, transportVars>>

\* A transport call that the session cannot go on without.
ApplySubscribe ==
  /\ Apply("Subscribe")
  /\ \/ link = "up" /\ subscribed' = TRUE /\ UNCHANGED <<pc, result>>
     \/ Return(Err("Transport")) /\ UNCHANGED subscribed
  /\ UNCHANGED <<pending, info, deadline, expired, phases, link, rx, sent, writes>>

\* Mutant: a failed write is no more fatal than a failed announcement.
WriteNotFatal ==
  /\ Apply("Write")
  /\ writes' \in {writes, IF link = "up" THEN writes + 1 ELSE writes}
  /\ UNCHANGED <<pc, pending, info, deadline, expired, result, phases, link, subscribed, rx, sent>>

ApplyWrite ==
  /\ Apply("Write")
  /\ \/ link = "up" /\ writes' = writes + 1 /\ UNCHANGED <<pc, result>>
     \/ Return(Err("Transport")) /\ UNCHANGED writes
  /\ UNCHANGED <<pending, info, deadline, expired, phases, link, subscribed, rx, sent>>

ApplyPauseOrNote ==
  /\ Apply("Pause") \/ Apply("Note")
  /\ UNCHANGED <<pc, pending, info, deadline, expired, result, phases, transportVars>>

ApplySetTimer ==
  /\ Apply("SetTimer")
  /\ deadline' = Head(todo).arg
  /\ expired' = FALSE
  /\ UNCHANGED <<pc, pending, info, result, phases, transportVars>>

ApplyPhase ==
  /\ Apply("Phase")
  /\ phases' = Append(phases, Head(todo).arg)
  /\ UNCHANGED <<pc, pending, info, deadline, expired, result, transportVars>>

ApplyDone ==
  /\ Apply("Done")
  /\ Return(Head(todo).arg)
  /\ UNCHANGED <<pending, info, deadline, expired, phases, transportVars>>

\* The list is done: deliver the protocol info, or wait for the deadline.
EndOfActions ==
  /\ pc = "apply" /\ todo = <<>>
  /\ \/ /\ info # <<>>
        /\ pending' = Event("ProtocolInfo", info[1])
        /\ pc' = "poll"
        /\ UNCHANGED result
     \/ /\ info = <<>> /\ deadline = None
        /\ Return(Err("AskedForNothing"))
        /\ UNCHANGED pending
     \/ /\ info = <<>> /\ deadline # None
        /\ pc' = "wait"
        /\ UNCHANGED <<pending, result>>
  /\ UNCHANGED <<sessionVars, todo, info, deadline, expired, phases, transportVars>>

Deliver(e) ==
  /\ pc = "wait"
  /\ pending' = e
  /\ pc' = "poll"
  /\ UNCHANGED <<sessionVars, todo, info, deadline, expired, result, phases, link, subscribed, sent, writes>>

\* timeout_at polls receive first: what is queued wins over an expired timer.
ReceiveNotification == rx # <<>> /\ Deliver(Event("Notification", Head(rx))) /\ rx' = Tail(rx)

\* Mutant: a closed link is fed as an abort.
ReceiveClosedAsAbort ==
  /\ rx = <<>> /\ link = "down"
  /\ Deliver(Event("Aborted", None))
  /\ UNCHANGED rx

\* receive returns None or an error once the queue is drained.
ReceiveLinkClosed ==
  /\ rx = <<>> /\ link = "down"
  /\ Deliver(Event("LinkClosed", None))
  /\ UNCHANGED rx

TimerFires ==
  /\ rx = <<>> /\ link = "up" /\ expired
  /\ Deliver(Event("Timer", deadline))
  /\ UNCHANGED rx

-----------------------------------------------------------------------------
(* The end of run_session *)

\* Mutant: the last phase is reported again.
ReportAlways ==
  /\ pc = "finish"
  /\ phases' = Append(phases, "Finished")
  /\ pc' = "disconnect"
  /\ UNCHANGED <<sessionVars, pending, todo, info, deadline, expired, result, transportVars>>

\* A transport failure never reached the session, so the last phase is still
\* to be reported.
ReportFinished ==
  /\ pc = "finish"
  /\ phases' = IF finished THEN phases ELSE Append(phases, "Finished")
  /\ pc' = "disconnect"
  /\ UNCHANGED <<sessionVars, pending, todo, info, deadline, expired, result, transportVars>>

\* The error of transport.disconnect is dropped.
Disconnect ==
  /\ pc = "disconnect"
  /\ link' \in {"down", link}
  /\ pc' = "returned"
  /\ UNCHANGED <<sessionVars, pending, todo, info, deadline, expired, result, phases,
                 subscribed, rx, sent, writes>>

-----------------------------------------------------------------------------
(* The lock and the clock *)

\* Notifications flow from the subscription on, whatever the pump is doing.
LockSends ==
  /\ Running /\ link = "up" /\ subscribed
  /\ sent < MaxPackets /\ Len(rx) < MaxQueue
  /\ \E p \in Packets : rx' = Append(rx, p)
  /\ sent' = sent + 1
  /\ UNCHANGED <<sessionVars, pumpVars, link, subscribed, writes>>

LockDropsLink ==
  /\ Running /\ link = "up"
  /\ link' = "down"
  /\ UNCHANGED <<sessionVars, pumpVars, subscribed, rx, sent, writes>>

DeadlinePasses ==
  /\ Running /\ deadline # None /\ ~expired
  /\ expired' = TRUE
  /\ UNCHANGED <<sessionVars, pc, pending, todo, info, deadline, result, phases, transportVars>>

-----------------------------------------------------------------------------
PumpInit ==
  /\ Init
  /\ pc = "poll"
  /\ pending = Event("Started", None)
  /\ todo = <<>>
  /\ info = <<>>
  /\ deadline = None
  /\ expired = FALSE
  /\ result = None
  /\ phases = <<>>
  /\ link = "up"
  /\ subscribed = FALSE
  /\ rx = <<>>
  /\ sent = 0
  /\ writes = 0

ApplyAction ==
  \/ ApplyAnnounce \/ ApplyReadProtocolInfo \/ ApplySubscribe \/ ApplyWrite
  \/ ApplyPauseOrNote \/ ApplySetTimer \/ ApplyPhase \/ ApplyDone

Receive == ReceiveNotification \/ ReceiveLinkClosed \/ TimerFires

PumpStep ==
  PollSession \/ ApplyAction \/ EndOfActions \/ Receive \/ ReportFinished \/ Disconnect

PumpNext == PumpStep \/ LockSends \/ LockDropsLink \/ DeadlinePasses

\* Whoever called run_session has it back: nothing more need happen.
Returned == pc = "returned" /\ UNCHANGED vars

PumpSpec == PumpInit /\ [][PumpNext \/ Returned]_vars

\* The executor polls a task that is ready, and the clock does not stop.
FairPumpSpec == PumpSpec /\ WF_vars(PumpStep) /\ WF_vars(DeadlinePasses)

-----------------------------------------------------------------------------
(* What makes the pump correct *)

PhaseOrder == <<"DetectingVersion", "Authenticating", "Exchanging", "Finished">>

Rank(p) == CHOOSE i \in 1..4 : PhaseOrder[i] = p

\* Every variable of the pump has the type of its Rust counterpart.
PumpTypeOK ==
  /\ TypeOK
  /\ pc \in {"poll", "apply", "wait", "finish", "disconnect", "returned"}
  /\ pending.kind \in {"Started", "ProtocolInfo", "Notification", "Timer", "LinkClosed"}
  /\ info \in {<<>>} \cup {<<i>> : i \in Infos}
  /\ deadline \in Timers \cup {None}
  /\ expired \in BOOLEAN
  /\ \A i \in DOMAIN phases : phases[i] \in {PhaseOrder[k] : k \in 1..4}
  /\ link \in {"up", "down"}
  /\ subscribed \in BOOLEAN
  /\ sent \in 0..MaxPackets
  /\ writes \in Nat

\* The observer is told the phases in order and each at most once; Finished
\* comes before the teardown unless a write failed after the session had
\* already decided to finish (see FinishedOnEveryPath).
PhasesInOrder ==
  /\ \A i, j \in DOMAIN phases : i < j => Rank(phases[i]) < Rank(phases[j])
  /\ pc \in {"disconnect", "returned"} =>
       \/ phases[Len(phases)] = "Finished"
       \/ result = Err("Transport") /\ finished /\ todo # <<>>

\* The comment on run_session: Finished is reported just before the teardown,
\* failures included.
FinishedOnEveryPath ==
  pc \in {"disconnect", "returned"} => phases[Len(phases)] = "Finished"

\* The pump keeps its side of the contract: it never feeds an event the state
\* rules out, and the session never leaves it with nothing to wait for.
ContractKept ==
  result # None => result.err \notin {"Unexpected", "AskedForNothing", "Cancelled"}

\* What run_session returns for a v0200 lock is the first final result that
\* the lock recorded, or no result when it recorded none; a v0100 result is
\* believed only after the identity and the signed nonce were written.
ResultIsVerdict ==
  result # None /\ result.err = None =>
    IF result.outcome.version = 2
    THEN result.outcome.op = finalOpResult /\ LatchedIsFirstFinal
    ELSE writes = 2 /\ step = "AwaitingResult"

\* Every notification taken from the queue has been answered before the pump
\* waits again or reports success, the CLOSE that ends the attempt included.
AnsweredBeforeWaiting ==
  /\ state = "V0200"
  /\ pc = "wait" \/ (result # None /\ result.err = None)
  => writes = sent - Len(rx)

\* In the v0100 flow a deadline that has passed is replaced only by the timer
\* of the next step: noise never pushes it out.
NoiseKeepsDeadline ==
  [][state = "V0100" /\ expired /\ ~expired' => deadline = "FirstPacket" /\ deadline' = "Packet"]_vars

\* The README: errors are for not getting an answer at all.
ErrorMeansNoAnswer ==
  result # None /\ result.err # None => finalOpResult = None

\* Every attempt ends: whatever the lock does with a finite number of
\* notifications, run_session returns.
AttemptReturns == <>(pc = "returned")

\* The pump implements one opening attempt as its caller sees it.
Abstract ==
  INSTANCE Attempt WITH
    phase   <- IF phases = <<>> THEN "NotStarted" ELSE phases[Len(phases)],
    verdict <- finalOpResult,
    outcome <- result,
    over    <- pc = "returned"

AttemptSpec == Abstract!Spec

-----------------------------------------------------------------------------
(* Why it is: the inductive invariant *)

\* What is left of the list being applied.
Ahead == {todo[i] : i \in DOMAIN todo}

AheadOf(kind) == {a \in Ahead : a.kind = kind}

\* Every list of the session keeps to one order, no action twice; only the
\* place of Exchanging depends on the flow.
Place(a, flow) ==
  CASE a.kind = "Phase" /\ a.arg = "DetectingVersion" -> 1
    [] a.kind = "AnnounceAppProtocol"                 -> 2
    [] a.kind = "ReadProtocolInfo"                    -> 3
    [] a.kind = "Subscribe"                           -> 4
    [] a.kind = "Phase" /\ a.arg = "Authenticating"   -> 5
    [] a.kind = "Note"                                -> 6
    [] a.kind = "Phase" /\ a.arg = "Exchanging"       -> IF flow = "V0100" THEN 7 ELSE 9
    [] a.kind = "Write"                               -> 8
    [] a.kind = "Pause"                               -> 10
    [] a.kind = "SetTimer"                            -> 11
    [] a.kind = "Phase" /\ a.arg = "Finished"         -> 12
    [] OTHER                                          -> 13

InOrder(list, flow) ==
  \A i, j \in DOMAIN list : i < j => Place(list[i], flow) < Place(list[j], flow)

IsQueue(q) == q \in Seq({q[i] : i \in DOMAIN q})

Begun == state \in {"V0200", "V0100"}

\* How far the phases may have got.
Reached ==
  IF finished \/ pc \in {"disconnect", "returned"} THEN 4
  ELSE IF exchanging \/ step = "AwaitingResult" THEN 3
  ELSE IF Begun THEN 2 ELSE IF state = "Detecting" THEN 1 ELSE 0

\* What the session may finish with: the verdict, or the error that ended it.
Finishes(r) ==
  \/ state = "V0200" /\ r = Ok(OutcomeOf(2, finalOpResult))
  \/ /\ state = "V0100" /\ step = "AwaitingResult"
     /\ \E op \in Byte : r = Ok(OutcomeOf(1, op))
  \/ \E e \in {"Timeout", "Disconnected", "InvalidData", "InvalidState", "InvalidCrc",
              "AuthenticationFailed", "InvalidProtocolVersion"} :
       /\ r = Err(e)
       /\ finalOpResult # None => e \notin {"Timeout", "Disconnected"}

\* An action of the session, where the pump can have got it.
ActionFits(a) ==
  /\ a = Action(a.kind, a.arg)
  /\ \/ a.kind = "Phase" /\ a.arg \in {PhaseOrder[k] : k \in 1..4} /\ Rank(a.arg) <= Reached
     \/ a.kind \in {"AnnounceAppProtocol", "ReadProtocolInfo"} /\ state = "Detecting"
     \/ a.kind \in {"Subscribe", "Note", "Write", "Pause"} /\ Begun
     \/ a.kind = "SetTimer" /\ a.arg \in Timers /\ Begun
     \/ a.kind = "Done" /\ finished /\ Finishes(a.arg)

ListFits ==
  /\ IsQueue(todo) /\ InOrder(todo, state)
  /\ \A a \in Ahead : ActionFits(a)
  /\ finished => AheadOf("Done") # {} \/ (todo = <<>> /\ result # None)

PhasesFit ==
  /\ IsQueue(phases)
  /\ \A i \in DOMAIN phases :
       phases[i] \in {PhaseOrder[k] : k \in 1..4} /\ Rank(phases[i]) <= Reached
  /\ \A i, j \in DOMAIN phases : i < j => Rank(phases[i]) < Rank(phases[j])
  /\ pc = "apply" =>
       \A i \in DOMAIN phases : \A a \in AheadOf("Phase") : Rank(phases[i]) < Rank(a.arg)
  /\ finished =>
       Phase("Finished") \in Ahead \/ \E i \in DOMAIN phases : phases[i] = "Finished"
  /\ ~finished /\ pc \in {"disconnect", "returned"} =>
       \E i \in DOMAIN phases : phases[i] = "Finished"

\* Where the pump is, and what it was given there.
PlaceFits ==
  /\ pc \in {"poll", "apply", "wait", "finish", "disconnect", "returned"}
  /\ pc \in {"poll", "wait"} => todo = <<>> /\ ~finished
  /\ pc \in {"poll", "apply", "wait"} <=> result = None
  /\ result # None => result = Err("Transport") \/ (Finishes(result) /\ finished /\ todo = <<>>)
  /\ state = "Idle" => pc = "poll"
  /\ state # "V0100" => step = "AwaitingNonce"
  /\ pc = "poll" => \/ state = "Idle" /\ pending = Event("Started", None)
                    \/ state = "Detecting" /\ \E i \in Infos : pending = Event("ProtocolInfo", i)
                    \/ Begun /\ pending.kind \in {"Notification", "Timer", "LinkClosed"}
  /\ pc = "wait" => Begun /\ info = <<>>
  /\ info \in {<<>>} \cup {<<i>> : i \in Infos}
  /\ info # <<>> => state = "Detecting"
  /\ pc = "apply" /\ state = "Detecting" /\ ~finished =>
       AheadOf("ReadProtocolInfo") # {} \/ info # <<>>

\* There is a deadline wherever one is needed, and in the v0100 flow the
\* timers are those of its two steps.
TimersFit ==
  /\ deadline \in Timers \cup {None} /\ expired \in BOOLEAN
  /\ deadline = None => ~expired
  /\ ~Begun => deadline = None
  /\ Begun /\ result = None /\ ~finished => AheadOf("SetTimer") # {} \/ deadline # None
  /\ state = "V0100" =>
       \/ /\ step = "AwaitingNonce" /\ deadline = None
          /\ AheadOf("SetTimer") = {SetTimer("FirstPacket")}
       \/ /\ step = "AwaitingNonce" /\ deadline = "FirstPacket"
          /\ AheadOf("SetTimer") = {}
       \/ /\ step = "AwaitingResult" /\ deadline = "FirstPacket"
          /\ AheadOf("SetTimer") = {SetTimer("Packet")}
       \/ /\ step = "AwaitingResult" /\ deadline = "Packet"
          /\ AheadOf("SetTimer") = {}

\* A notification of the flow that will see it.
PacketFits(p) == /\ state = "V0200" => PacketOK(p)
                 /\ state = "V0100" => p \in Packets0100

\* The transport, before and after the subscription.
TransportFits ==
  /\ link \in {"up", "down"} /\ subscribed \in BOOLEAN
  /\ IsQueue(rx) /\ sent \in 0..MaxPackets /\ writes \in Nat
  /\ pending.kind \in {"Started", "ProtocolInfo", "Notification", "Timer", "LinkClosed"}
  /\ \A i \in DOMAIN rx : PacketFits(rx[i])
  /\ pc = "poll" /\ pending.kind = "Notification" => PacketFits(pending.arg)
  /\ ~Begun => ~subscribed /\ sent = 0 /\ rx = <<>> /\ writes = 0

\* Nothing has failed so far.
Sound ==
  /\ \A a \in AheadOf("Done") : a.arg.err = None
  /\ result # None => result.err = None

Due == IF AheadOf("Write") # {} THEN 1 ELSE 0

Unanswered == IF pc = "poll" /\ pending.kind = "Notification" THEN 1 ELSE 0

\* Every notification taken from the queue is answered by one write: made, in
\* the list, or still to be asked for.  The v0100 flow writes once per step.
WritesFit ==
  /\ state = "V0200" /\ Sound => writes + Due + Unanswered = sent - Len(rx)
  /\ state = "V0100" /\ Sound => writes + Due = IF step = "AwaitingNonce" THEN 1 ELSE 2

PumpInv ==
  /\ SessionInv /\ ListFits /\ PhasesFit /\ PlaceFits
  /\ TimersFit /\ TransportFits /\ WritesFit
=============================================================================
