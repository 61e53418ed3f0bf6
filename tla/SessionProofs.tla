--------------------------- MODULE SessionProofs ---------------------------
(***************************************************************************)
(* The session is correct for every key, every option, every random and    *)
(* every sequence of events: SessionInv is inductive, and the verdict and  *)
(* handshake properties follow from it.                                    *)
(***************************************************************************)
EXTENDS Session, CoreProofs

\* The stack conjuncts of SessionInv are those of StackOK.
LEMMA InvStack == ASSUME SessionInv PROVE StackOK(stack)
  BY DEF SessionInv, TypeOK, ExchangingIsAuthenticated, StackOK, SspInv

\* The flow starts with a stack that is well formed and has heard nothing.
LEMMA NewStackGood ==
  ASSUME NEW key
  PROVE  /\ StackOK(NewStack(key))
         /\ NewStack(key).justin.audit = None
         /\ NewStack(key).ssp.state = "Ready"
<1> DEFINE s == NewSsp(Kn(key))
           j == NewJustinWithKey(key)
<1>1. SspInv(s) /\ s.state = "Ready"
  BY DEF NewSsp, SspInv, SspTypeOK
<1>2. JustinTypeOK(j) /\ j.audit = None
  BY DEF NewJustinWithKey, NewJustin, JustinTypeOK
<1>3. NewStack(key) = [ssp |-> s, justin |-> j]
  BY DEF NewStack
<1> HIDE DEF s, j
<1> QED BY <1>1, <1>2, <1>3 DEF StackOK

\* Every notification the lock can send in the v0200 flow is a proper packet.
LEMMA PacketsAreOK == \A p \in Packets0200 : PacketOK(p)
<1> SUFFICES ASSUME NEW p \in Packets0200 PROVE PacketOK(p)
  OBVIOUS
<1>1. Bodies \subseteq ControlType /\ Commands \subseteq CommandType
  BY SessionAssumption
<1>2. CASE p = Malformed("short", FALSE)
  BY <1>2 DEF Malformed, PacketOK
<1>3. CASE \E control \in BOOLEAN : p = Malformed("misaligned", control)
  BY <1>3 DEF Malformed, PacketOK
<1>4. CASE \E b \in Bodies : p = Plain(TRUE, b)
  BY <1>1, <1>4 DEF Plain, PacketOK
<1>5. CASE \E c \in Commands : p = Plain(FALSE, c)
  BY <1>1, <1>5 DEF Plain, PacketOK
<1>6. CASE \E b \in Bodies : p = Sealed(TRUE, b, CurrentKey(stack.ssp), stack.ssp.iv)
  BY <1>1, <1>6 DEF Sealed, PacketOK
<1>7. CASE \E c \in Commands, k \in {None, CurrentKey(stack.ssp)} :
             p = Sealed(FALSE, c, k, stack.ssp.iv)
  BY <1>1, <1>7 DEF Sealed, PacketOK
<1> QED BY <1>2, <1>3, <1>4, <1>5, <1>6, <1>7 DEF Packets0200

\* An event whose notification, if any, is a proper v0200 packet.
EventOK(e) == state = "V0200" /\ e.kind = "Notification" => PacketOK(e.arg)

LEMMA EventsAreOK == \A e \in Events : EventOK(e)
  BY PacketsAreOK DEF Events, EventOK, Packets, Event

\* Actions that leave the v0200 variables alone keep the invariant, as long
\* as they do not leave the v0200 flow.
LEMMA V0200Untouched ==
  ASSUME SessionInv, UNCHANGED <<options, v0200Vars>>,
         state' \in {"Idle", "Detecting", "V0200", "V0100"},
         finished' \in BOOLEAN, step' \in {"AwaitingNonce", "AwaitingResult"},
         state = "V0200" => state' = "V0200"
  PROVE  SessionInv'
  BY DEF SessionInv, TypeOK, ExchangingIsAuthenticated, AuditIsLastReported,
         LatchedIsFirstFinal, NothingBeforeV0200, v0200Vars

\* The common case: the state is kept as well.
LEMMA StateKept ==
  ASSUME SessionInv, UNCHANGED <<options, v0200Vars, state>>,
         finished' \in BOOLEAN, step' \in {"AwaitingNonce", "AwaitingResult"}
  PROVE  SessionInv'
  BY V0200Untouched DEF SessionInv, TypeOK

\* Starting the v0200 flow: a fresh stack, and nothing reported yet.
LEMMA BeginV0200KeepsInv ==
  ASSUME SessionInv, state # "V0200", NEW before, BeginV0200(before), UNCHANGED options
  PROVE  SessionInv'
<1>1. reported = <<>> /\ reported' = <<>>
  BY DEF SessionInv, NothingBeforeV0200, BeginV0200
<1>2. StackOK(stack') /\ stack'.justin.audit = None /\ stack'.ssp.state = "Ready"
  BY NewStackGood DEF BeginV0200
<1>3. TypeOK'
  BY <1>1, <1>2 DEF SessionInv, TypeOK, BeginV0200, StackOK, SspInv
<1>4. ExchangingIsAuthenticated'
  BY <1>2 DEF ExchangingIsAuthenticated, BeginV0200, StackOK, SspInv
<1>5. AuditIsLastReported' /\ LatchedIsFirstFinal' /\ NothingBeforeV0200'
  BY <1>1, <1>2 DEF AuditIsLastReported, LatchedIsFirstFinal, NothingBeforeV0200, BeginV0200
<1> QED BY <1>3, <1>4, <1>5 DEF SessionInv

\* Either flow, or neither when the version is unknown.
LEMMA BeginKeepsInv ==
  ASSUME SessionInv, state # "V0200", NEW before, NEW major, Begin(before, major),
         UNCHANGED options
  PROVE  SessionInv'
<1> DEFINE subscribed == before \o <<Action("Subscribe", None), Phase("Authenticating")>>
<1>1. CASE Finish(before, Err("InvalidProtocolVersion")) /\ UNCHANGED <<state, v0200Vars, step>>
  BY <1>1, StateKept DEF Finish, SessionInv, TypeOK
<1>2. CASE BeginV0100(subscribed)
  BY <1>2, V0200Untouched DEF BeginV0100, SessionInv, TypeOK
<1>3. CASE BeginV0200(subscribed)
  BY <1>3, BeginV0200KeepsInv
<1> QED BY <1>1, <1>2, <1>3 DEF Begin

-----------------------------------------------------------------------------
(* A packet of the v0200 flow *)

\* The verdict after one more result: a first final one is latched, anything
\* else leaves the latch alone.
LEMMA LatchFollows ==
  ASSUME SessionInv, NEW op \in Byte,
         reported' = Append(reported, op), finalOpResult' = Latch(op)
  PROVE  LatchedIsFirstFinal'
<1>1. /\ reported \in Seq(Byte) /\ op # None /\ LatchedIsFirstFinal
      /\ \A i \in DOMAIN reported : reported[i] # None
  BY NoneAssumption DEF SessionInv, TypeOK
<1>2. /\ DOMAIN reported = 1..Len(reported) /\ Len(reported) \in Nat
      /\ DOMAIN reported' = 1..(Len(reported) + 1)
      /\ \A i \in DOMAIN reported : reported'[i] = reported[i]
      /\ reported'[Len(reported) + 1] = op
  BY <1>1
<1>3. CASE finalOpResult # None
  <2>1. PICK i \in DOMAIN reported :
          /\ reported[i] = finalOpResult /\ IsFinal(reported[i])
          /\ \A j \in 1..(i - 1) : ~IsFinal(reported[j])
    BY <1>1, <1>3 DEF LatchedIsFirstFinal
  <2>2. finalOpResult' = finalOpResult
    BY <1>3 DEF Latch
  <2>3. i \in DOMAIN reported' /\ \A j \in 1..i : reported'[j] = reported[j]
    BY <1>2
  <2> QED BY <1>2, <1>3, <2>1, <2>2, <2>3 DEF LatchedIsFirstFinal
<1>4. CASE finalOpResult = None /\ IsFinal(op)
  <2>1. finalOpResult' = op
    BY <1>1, <1>4 DEF Latch
  <2>2. \A j \in 1..Len(reported) : ~IsFinal(reported'[j])
    BY <1>1, <1>2, <1>4 DEF LatchedIsFirstFinal
  <2> QED BY <1>1, <1>2, <1>4, <2>1, <2>2 DEF LatchedIsFirstFinal
<1>5. CASE finalOpResult = None /\ ~IsFinal(op)
  <2>1. finalOpResult' = None
    BY <1>1, <1>5 DEF Latch
  <2> QED BY <1>1, <1>2, <1>5, <2>1 DEF LatchedIsFirstFinal
<1> QED BY <1>3, <1>4, <1>5

\* Without a new result there is nothing new to latch: the result Justin
\* remembers was reported before, and was latched then if it was final and
\* the first.
LEMMA LatchIdle ==
  ASSUME SessionInv
  PROVE  Latch(stack.justin.audit) = finalOpResult
<1>1. CASE reported = <<>>
  BY <1>1 DEF SessionInv, AuditIsLastReported, Latch
<1>2. CASE reported # <<>>
  <2>1. reported \in Seq(Byte) /\ Len(reported) \in DOMAIN reported
        /\ stack.justin.audit = reported[Len(reported)]
    BY <1>2 DEF SessionInv, TypeOK, AuditIsLastReported
  <2> QED BY <2>1 DEF SessionInv, LatchedIsFirstFinal, Latch
<1> QED BY <1>1, <1>2

\* The history appends exactly the result the stack recorded.
LEMMA RecordedIsWritten ==
  ASSUME NEW p, NEW r, r.err = None
  PROVE  Recorded(p, r) = IF Wrote(p, r) THEN <<p.body.data[1]>> ELSE <<>>
  BY DEF Recorded, Wrote

\* What a packet leaves in the stack is well formed.
LEMMA PacketStep ==
  ASSUME SessionInv, NEW p, PacketOK(p), NEW randomB \in Randoms
  PROVE  GoodStep(stack, p, HandlePacket(stack, p, randomB))
<1>1. StackOK(stack) /\ randomB \in Block
  BY InvStack, SessionAssumption
<1> QED BY <1>1, HandlePacketGood

\* A packet the stack refuses ends the attempt and records nothing.
LEMMA RejectKeepsInv ==
  ASSUME SessionInv, NEW p, NEW r, GoodStep(stack, p, r), RejectPacket(r),
         state = "V0200", UNCHANGED options
  PROVE  SessionInv'
<1>1. /\ StackOK(stack') /\ StaysOpen(stack.ssp, stack'.ssp)
      /\ stack'.justin.audit = stack.justin.audit
  BY DEF GoodStep, RejectPacket, AuditMoves, Wrote
<1>2. /\ UNCHANGED <<state, firstPacket, finalOpResult, exchanging, traced, reported, step>>
      /\ finished' = TRUE
  BY DEF RejectPacket, Finish
<1>3. TypeOK'
  BY <1>1, <1>2 DEF SessionInv, TypeOK, StackOK, SspInv
<1>4. ExchangingIsAuthenticated'
  BY <1>1, <1>2 DEF SessionInv, ExchangingIsAuthenticated, StackOK, SspInv, StaysOpen
<1>5. AuditIsLastReported' /\ LatchedIsFirstFinal' /\ NothingBeforeV0200'
  BY <1>1, <1>2 DEF SessionInv, AuditIsLastReported, LatchedIsFirstFinal, NothingBeforeV0200
<1> QED BY <1>3, <1>4, <1>5 DEF SessionInv

\* A packet the stack answers.
LEMMA AnswerKeepsInv ==
  ASSUME SessionInv, NEW p, NEW r, GoodStep(stack, p, r), AnswerPacket(p, r),
         state = "V0200", UNCHANGED options
  PROVE  SessionInv'
<1>1. /\ r.err = None /\ stack' = r.st
      /\ StackOK(stack') /\ StaysOpen(stack.ssp, stack'.ssp)
  BY DEF GoodStep, AnswerPacket
<1>2. /\ UNCHANGED <<state, step>>
      /\ exchanging' = (exchanging \/ (~exchanging /\ stack'.ssp.state = "InSession"))
      /\ finalOpResult' = Latch(stack'.justin.audit)
      /\ reported' = reported \o Recorded(p, r)
      /\ traced' \in {traced, stack'.justin.refusals}
      /\ finished' \in {finished, TRUE} /\ firstPacket' \in {firstPacket, FALSE}
  BY <1>1 DEF AnswerPacket, Finish
<1>3. exchanging' \in BOOLEAN /\ (exchanging' => stack'.ssp.state = "InSession")
  BY <1>1, <1>2 DEF SessionInv, TypeOK, ExchangingIsAuthenticated, StaysOpen
<1>4. ExchangingIsAuthenticated'
  BY <1>1, <1>3 DEF ExchangingIsAuthenticated, StackOK, SspInv
<1>5. reported \in Seq(Byte) /\ finalOpResult \in Byte \cup {None}
  BY DEF SessionInv, TypeOK
<1>6. /\ reported' \in Seq(Byte)
      /\ AuditIsLastReported' /\ LatchedIsFirstFinal'
      /\ finalOpResult' \in Byte \cup {None}
  <2>1. CASE Wrote(p, r)
    <3> DEFINE op == p.body.data[1]
    <3>1. op \in Byte /\ stack'.justin.audit = op
      BY <1>1, <2>1 DEF GoodStep, AuditMoves
    <3> HIDE DEF op
    <3>2. reported' = reported \o <<op>>
      BY <1>1, <1>2, <2>1, RecordedIsWritten DEF op
    <3>3. reported' = Append(reported, op)
      BY <1>5, <3>1, <3>2
    <3>4. LatchedIsFirstFinal'
      BY <1>2, <3>1, <3>3, LatchFollows
    <3>5. /\ reported' \in Seq(Byte) /\ reported' # <<>>
          /\ reported'[Len(reported')] = op
      BY <1>5, <3>1, <3>3
    <3>6. finalOpResult' \in Byte \cup {None}
      BY <1>2, <1>5, <3>1 DEF Latch
    <3> QED BY <3>1, <3>4, <3>5, <3>6 DEF AuditIsLastReported
  <2>2. CASE ~Wrote(p, r)
    <3>1. stack'.justin.audit = stack.justin.audit
      BY <1>1, <2>2 DEF GoodStep, AuditMoves
    <3>2. reported' = reported
      BY <1>1, <1>2, <1>5, <2>2, RecordedIsWritten
    <3>3. finalOpResult' = finalOpResult
      BY <1>2, <3>1, LatchIdle
    <3> QED BY <1>5, <3>1, <3>2, <3>3
            DEF SessionInv, AuditIsLastReported, LatchedIsFirstFinal
  <2> QED BY <2>1, <2>2
<1>7. TypeOK'
  BY <1>1, <1>2, <1>3, <1>6 DEF SessionInv, TypeOK, StackOK, SspInv, JustinTypeOK
<1>8. NothingBeforeV0200'
  BY <1>2 DEF NothingBeforeV0200
<1> QED BY <1>4, <1>6, <1>7, <1>8 DEF SessionInv

-----------------------------------------------------------------------------
(* Every event *)

\* The v0200 flow: a packet, a deadline, the link going down, or an event the
\* contract rules out.
LEMMA PollV0200KeepsInv ==
  ASSUME SessionInv, state = "V0200", NEW e, EventOK(e), PollV0200(e), UNCHANGED options
  PROVE  SessionInv'
<1>1. CASE e.kind = "Notification"
  <2>1. PICK randomB \in Randoms :
          \/ RejectPacket(HandlePacket(stack, e.arg, randomB))
          \/ AnswerPacket(e.arg, HandlePacket(stack, e.arg, randomB))
    BY <1>1 DEF PollV0200
  <2>2. GoodStep(stack, e.arg, HandlePacket(stack, e.arg, randomB))
    BY <1>1, PacketStep DEF EventOK
  <2> QED BY <2>1, <2>2, RejectKeepsInv, AnswerKeepsInv
<1>2. CASE Expire0200 \/ Close0200 \/ Unexpected
  BY <1>2, StateKept DEF Expire0200, Close0200, Unexpected, Finish, SessionInv, TypeOK
<1> QED BY <1>1, <1>2 DEF PollV0200

\* The v0100 flow touches nothing of the v0200 one.
LEMMA PollV0100KeepsInv ==
  ASSUME SessionInv, state = "V0100", NEW e, PollV0100(e), UNCHANGED options
  PROVE  SessionInv'
<1>1. /\ UNCHANGED <<state, v0200Vars>>
      /\ finished' \in {finished, TRUE} /\ step' \in {step, "AwaitingResult"}
  BY DEF PollV0100, IgnoreNoise, SignNonce, TakeResult, Disconnected, Unexpected, Finish
<1> QED BY <1>1, StateKept DEF SessionInv, TypeOK

\* Before either flow has begun.
LEMMA PollStartKeepsInv ==
  ASSUME SessionInv, state \in {"Idle", "Detecting"}, NEW e,
         PollIdle(e) \/ PollDetecting(e), UNCHANGED options
  PROVE  SessionInv'
<1>1. CASE \E before, major : Begin(before, major)
  BY <1>1, BeginKeepsInv
<1>2. CASE state' = "Detecting" /\ UNCHANGED <<finished, v0200Vars, step>>
  BY <1>2, V0200Untouched DEF SessionInv, TypeOK
<1>3. CASE Disconnected \/ Unexpected
  BY <1>3, StateKept DEF Disconnected, Unexpected, Finish, SessionInv, TypeOK
<1> QED BY <1>1, <1>2, <1>3 DEF PollIdle, PollDetecting

\* One poll, whatever the event.
LEMMA PollKeepsInv ==
  ASSUME SessionInv, NEW e, EventOK(e), Poll(e)
  PROVE  SessionInv'
<1>1. CASE PollFinished
  BY <1>1, StateKept DEF Poll, PollFinished, SessionInv, TypeOK
<1>2. CASE Abort(e)
  BY <1>2, StateKept DEF Poll, Abort, Finish, SessionInv, TypeOK
<1>3. CASE Dispatch(e)
  BY <1>3, PollStartKeepsInv, PollV0200KeepsInv, PollV0100KeepsInv DEF Poll, Dispatch
<1> QED BY <1>1, <1>2, <1>3 DEF Poll

LEMMA InitInv == ASSUME Init PROVE SessionInv
<1>1. StackOK(stack) /\ stack.justin.audit = None /\ stack.ssp.state = "Ready"
  BY NewStackGood DEF Init
<1>2. TypeOK
  <2>1. <<>> \in Seq(Byte)
    OBVIOUS
  <2>2. /\ options \in Options /\ state = "Idle" /\ finished = FALSE /\ firstPacket = TRUE
        /\ finalOpResult = None /\ exchanging = FALSE /\ traced = 0
        /\ step = "AwaitingNonce" /\ reported = <<>>
    BY DEF Init
  <2> QED BY <1>1, <2>1, <2>2 DEF TypeOK, StackOK, SspInv
<1>3. ExchangingIsAuthenticated
  BY <1>1 DEF Init, ExchangingIsAuthenticated, StackOK, SspInv
<1>4. AuditIsLastReported /\ LatchedIsFirstFinal /\ NothingBeforeV0200
  BY <1>1 DEF Init, AuditIsLastReported, LatchedIsFirstFinal, NothingBeforeV0200
<1> QED BY <1>2, <1>3, <1>4 DEF SessionInv

LEMMA StutterKeepsInv == ASSUME SessionInv, UNCHANGED sessionVars PROVE SessionInv'
  BY StateKept DEF sessionVars, SessionInv, TypeOK

-----------------------------------------------------------------------------
(* The theorems *)

\* The inductive invariant holds in every state of every attempt, for every
\* key, option, random and sequence of events (Session::poll).
THEOREM SessionInvariant == Spec => []SessionInv
<1>1. Init => SessionInv
  BY InitInv
<1>2. SessionInv /\ [Next]_sessionVars => SessionInv'
  <2> SUFFICES ASSUME SessionInv, [Next]_sessionVars PROVE SessionInv'
    OBVIOUS
  <2>1. CASE Next
    BY <2>1, EventsAreOK, PollKeepsInv DEF Next
  <2>2. CASE UNCHANGED sessionVars
    BY <2>2, StutterKeepsInv
  <2> QED BY <2>1, <2>2
<1> QED BY <1>1, <1>2, PTL DEF Spec

\* Every field of the session keeps the type of its Rust declaration.
THEOREM TypeCorrect == Spec => []TypeOK
<1>1. SessionInv => TypeOK
  BY DEF SessionInv
<1> QED BY <1>1, SessionInvariant, PTL

\* final_op_result is the first accepted or rejected result the lock wrote to
\* the audit tag, however many results it wrote and in whichever packets.
THEOREM VerdictLatched == Spec => []LatchedIsFirstFinal
<1>1. SessionInv => LatchedIsFirstFinal
  BY DEF SessionInv
<1> QED BY <1>1, SessionInvariant, PTL

\* The phase Exchanging and a session key exist only after a completed
\* handshake.
THEOREM HandshakeFirst == Spec => []ExchangingIsAuthenticated
<1>1. SessionInv => ExchangingIsAuthenticated
  BY DEF SessionInv
<1> QED BY <1>1, SessionInvariant, PTL

\* Once Done was emitted, no event produces an action or changes a field.
THEOREM SilentAfterDone == Spec => SilentOnceDone
<1>1. [Next]_sessionVars =>
        [finished => /\ actions' = <<>>
                     /\ UNCHANGED <<options, state, finished, v0200Vars, step>>]_sessionVars
  BY DEF Next, Poll, PollFinished, Abort, Dispatch
<1> QED BY <1>1, PTL DEF Spec, SilentOnceDone

\* A poll never takes an established session apart.
LEMMA PollKeepsSession ==
  ASSUME SessionInv, NEW e, EventOK(e), Poll(e), stack.ssp.state = "InSession"
  PROVE  stack'.ssp.state = "InSession"
<1>1. state = "V0200"
  BY DEF SessionInv, NothingBeforeV0200
<1>2. CASE UNCHANGED stack
  BY <1>2
<1>3. CASE \E randomB \in Randoms :
             LET r == HandlePacket(stack, e.arg, randomB)
             IN  e.kind = "Notification" /\ stack' = r.st
  <2>1. PICK randomB \in Randoms :
          e.kind = "Notification" /\ stack' = HandlePacket(stack, e.arg, randomB).st
    BY <1>3
  <2>2. GoodStep(stack, e.arg, HandlePacket(stack, e.arg, randomB))
    BY <1>1, <2>1, PacketStep DEF EventOK
  <2> QED BY <2>1, <2>2 DEF GoodStep, StaysOpen
<1>4. PollV0200(e) => UNCHANGED stack \/ \E randomB \in Randoms :
        e.kind = "Notification" /\ stack' = HandlePacket(stack, e.arg, randomB).st
  BY DEF PollV0200, RejectPacket, AnswerPacket, Expire0200, Close0200, Unexpected, v0200Vars
<1>5. UNCHANGED stack \/ PollV0200(e)
  BY <1>1 DEF Poll, PollFinished, Abort, Dispatch, v0200Vars
<1> QED BY <1>2, <1>3, <1>4, <1>5

\* Neither a second handshake, a packet that fails to open, nor a plain
\* command takes the phone out of an established session, so it never encrypts
\* under kN again.
THEOREM SessionIsKept == Spec => NeverBackToKn
<1> DEFINE Kept == stack.ssp.state = "InSession" =>
                     /\ stack'.ssp.state = "InSession"
                     /\ CurrentKey(stack'.ssp) = stack'.ssp.sessionKey
<1>1. SessionInv /\ SessionInv' /\ [Next]_sessionVars => [Kept]_sessionVars
  <2> SUFFICES ASSUME SessionInv, SessionInv', Next, stack.ssp.state = "InSession"
               PROVE  /\ stack'.ssp.state = "InSession"
                      /\ CurrentKey(stack'.ssp) = stack'.ssp.sessionKey
    OBVIOUS
  <2>1. stack'.ssp.state = "InSession"
    BY EventsAreOK, PollKeepsSession DEF Next
  <2>2. stack'.ssp.sessionKey # None
    BY <2>1 DEF SessionInv, ExchangingIsAuthenticated
  <2> QED BY <2>1, <2>2 DEF CurrentKey
<1> QED BY <1>1, SessionInvariant, PTL DEF Spec, NeverBackToKn
-----------------------------------------------------------------------------
(* What Done hands over *)

\* Two sequences, one after the other.
LEMMA Joined ==
  ASSUME NEW T, NEW a \in Seq(T), NEW b \in Seq(T)
  PROVE  /\ a \o b \in Seq(T) /\ Len(a \o b) = Len(a) + Len(b)
         /\ \A i \in 1..Len(a) : (a \o b)[i] = a[i]
         /\ \A i \in 1..Len(b) : (a \o b)[Len(a) + i] = b[i]
  OBVIOUS

\* Short sequences of the elements of a set.
LEMMA Listed ==
  ASSUME NEW T, NEW a \in T, NEW b \in T, NEW c \in T
  PROVE  <<>> \in Seq(T) /\ <<a>> \in Seq(T) /\ <<a, b>> \in Seq(T) /\ <<a, b, c>> \in Seq(T)
  OBVIOUS

\* finish hands over its result and nothing else, whatever actions without a
\* Done went before it.
LEMMA FinishDelivers ==
  ASSUME NEW S, \A a \in S : a.kind # "Done", NEW before \in Seq(S), NEW result,
         Finish(before, result)
  PROVE  Delivered' = {result}
<1> DEFINE tail == <<Phase("Finished"), Action("Done", result)>>
           n == Len(before)
<1>1. n \in Nat /\ \A i \in 1..n : before[i].kind # "Done"
  OBVIOUS
<1>2. /\ tail \in Seq({tail[1], tail[2]}) /\ Len(tail) = 2
      /\ tail[1].kind = "Phase" /\ tail[2].kind = "Done" /\ tail[2].arg = result
  BY DEF Phase, Action
<1> DEFINE T == S \cup {tail[1], tail[2]}
<1>3. before \in Seq(T) /\ tail \in Seq(T)
  BY <1>2
<1>4. actions' = before \o tail
  BY DEF Finish
<1> HIDE DEF tail, T
<1>5. /\ actions' \in Seq(T) /\ Len(actions') = n + Len(tail)
      /\ \A i \in 1..n : actions'[i] = before[i]
      /\ \A i \in 1..Len(tail) : actions'[n + i] = tail[i]
  BY <1>3, <1>4, Joined
<1>6. /\ DOMAIN actions' = 1..(n + 2)
      /\ \A i \in 1..n : actions'[i] = before[i]
      /\ actions'[n + 1] = tail[1] /\ actions'[n + 2] = tail[2]
  BY <1>1, <1>2, <1>5
<1>7. \A i \in 1..(n + 2) : actions'[i].kind = "Done" <=> i = n + 2
  BY <1>1, <1>2, <1>6
<1> QED BY <1>1, <1>2, <1>6, <1>7 DEF Delivered

\* A poll that does not finish the session hands over nothing.
LEMMA NothingDelivered ==
  ASSUME NEW S, \A a \in S : a.kind # "Done", actions' \in Seq(S)
  PROVE  Delivered' = {}
<1>1. \A i \in DOMAIN actions' : actions'[i] \in S
  OBVIOUS
<1> QED BY <1>1 DEF Delivered

\* Outside the v0200 flow there is no verdict to lose.
LEMMA NoVerdictYet ==
  ASSUME SessionInv, state # "V0200"
  PROVE  finalOpResult = None
  BY DEF SessionInv, NothingBeforeV0200, LatchedIsFirstFinal

\* The four results that do not come from a verdict never hide one.
LEMMA HarmlessDelivery ==
  ASSUME NEW r, Delivered' \subseteq {r},
         \/ r.err # None /\ r.err \notin {"Timeout", "Disconnected"}
         \/ finalOpResult' = None /\ (r.err # None \/ r.outcome.version # 2)
         \/ r.err = None /\ r.outcome.op = finalOpResult'
  PROVE  VerdictDelivered'
<1>1. "Timeout" # None /\ "Disconnected" # None
  BY NoneAssumption DEF ErrorCode
<1> QED BY <1>1 DEF VerdictDelivered

\* The actions of a poll other than Done.  out is the packet to write, if any.
QuietActions(out) ==
  [kind : {"Phase", "SetTimer", "Write", "Subscribe", "Pause", "AnnounceAppProtocol",
           "ReadProtocolInfo", "Note"},
   arg  : {None, "DetectingVersion", "Authenticating", "Exchanging", "Identify", "SignedNonce",
           "KnRefused", "FirstPacket", "Packet", "AfterFinalResult", out}]

LEMMA FinishBare ==
  ASSUME NEW result, Finish(<<>>, result)
  PROVE  Delivered' = {result}
<1>1. <<>> \in Seq({}) /\ \A a \in {} : a.kind # "Done"
  OBVIOUS
<1> QED BY <1>1, FinishDelivers

\* The errors of the session itself that may come at any time.
LEMMA LoudEnd ==
  ASSUME NEW before, NEW out, before \in Seq(QuietActions(out)),
         NEW err \in {"Cancelled", "Unexpected", "InvalidProtocolVersion", "InvalidData"}
                       \cup PacketErrors,
         Finish(before, Err(err))
  PROVE  VerdictDelivered'
<1>1. \A a \in QuietActions(out) : a.kind # "Done"
  BY DEF QuietActions
<1>2. Delivered' = {Err(err)}
  BY <1>1, FinishDelivers
<1>3. err # None /\ err \notin {"Timeout", "Disconnected"}
  BY NoneAssumption DEF ErrorCode, PacketErrors
<1> QED BY <1>2, <1>3, HarmlessDelivery DEF Err

LEMMA LoudBareEnd ==
  ASSUME NEW err \in {"Cancelled", "Unexpected", "InvalidProtocolVersion", "InvalidData"}
                       \cup PacketErrors,
         Finish(<<>>, Err(err))
  PROVE  VerdictDelivered'
<1>1. <<>> \in Seq(QuietActions(None))
  OBVIOUS
<1> QED BY <1>1, LoudEnd

\* Silence and a dropped link are errors only where no verdict can be.
LEMMA LostEnd ==
  ASSUME finalOpResult' = None, NEW err \in {"Timeout", "Disconnected"},
         Finish(<<>>, Err(err))
  PROVE  VerdictDelivered'
<1>1. Delivered' = {Err(err)}
  BY FinishBare
<1>2. err # None
  BY NoneAssumption DEF ErrorCode
<1> QED BY <1>1, <1>2, HarmlessDelivery DEF Err

LEMMA QuietEnd ==
  ASSUME NEW out, actions' \in Seq(QuietActions(out))
  PROVE  VerdictDelivered'
<1>1. \A a \in QuietActions(out) : a.kind # "Done"
  BY DEF QuietActions
<1>2. Delivered' = {}
  BY <1>1, NothingDelivered
<1> QED BY <1>2 DEF VerdictDelivered

\* Before either flow has begun.
LEMMA StartDelivers ==
  ASSUME SessionInv, state \in {"Idle", "Detecting"}, NEW e, PollIdle(e) \/ PollDetecting(e)
  PROVE  VerdictDelivered'
<1>1. finalOpResult = None
  BY NoVerdictYet
<1> DEFINE Q == QuietActions(None)
<1>2. /\ Action("Subscribe", None) \in Q /\ Action("Pause", None) \in Q
      /\ Action("AnnounceAppProtocol", None) \in Q /\ Action("ReadProtocolInfo", None) \in Q
      /\ Phase("Authenticating") \in Q /\ Phase("DetectingVersion") \in Q
      /\ Write("Identify") \in Q /\ SetTimer("FirstPacket") \in Q
  BY DEF QuietActions, Phase, SetTimer, Write, Action
<1>3. ASSUME NEW before \in Seq(Q), NEW major, Begin(before, major)
      PROVE  VerdictDelivered'
  <2> DEFINE subscribed == before \o <<Action("Subscribe", None), Phase("Authenticating")>>
  <2>1. <<Action("Subscribe", None), Phase("Authenticating")>> \in Seq(Q)
    BY <1>2, Listed
  <2>5. subscribed \in Seq(Q)
    BY <2>1, Joined
  <2> HIDE DEF subscribed
  <2>2. CASE Finish(before, Err("InvalidProtocolVersion"))
    BY <2>2, LoudEnd
  <2>3. CASE BeginV0100(subscribed)
    <3>1. <<Write("Identify"), Action("Pause", None), SetTimer("FirstPacket")>>
            \in Seq(Q)
      BY <1>2, Listed
    <3>2. actions' \in Seq(Q)
      BY <2>5, <2>3, <3>1, Joined DEF BeginV0100
    <3> QED BY <3>2, QuietEnd
  <2>4. CASE BeginV0200(subscribed)
    <3>1. <<SetTimer("FirstPacket")>> \in Seq(Q)
      BY <1>2, Listed
    <3>2. actions' \in Seq(Q)
      BY <2>5, <2>4, <3>1, Joined DEF BeginV0200
    <3> QED BY <3>2, QuietEnd
  <2> QED BY <1>3, <2>2, <2>3, <2>4 DEF Begin, subscribed
<1> DEFINE detecting == <<Phase("DetectingVersion")>>
           announce == IF options.detection = "AppProtocol"
                       THEN <<Action("AnnounceAppProtocol", None)>> ELSE <<>>
           read == <<Action("ReadProtocolInfo", None)>>
<1>4. /\ detecting \in Seq(Q) /\ announce \in Seq(Q)
      /\ read \in Seq(Q) /\ <<>> \in Seq(Q)
  BY <1>2, Listed
<1> HIDE DEF detecting, announce, read
<1>5. CASE \E major : Begin(detecting, major) \/ Begin(<<>>, major)
  BY <1>3, <1>4, <1>5
<1>6. CASE actions' = detecting \o announce \o read
  <2>1. actions' \in Seq(Q)
    BY <1>4, <1>6, Joined
  <2> QED BY <2>1, QuietEnd
<1>7. CASE Disconnected
  BY <1>1, <1>7, LostEnd DEF Disconnected, v0200Vars
<1>8. CASE Unexpected
  BY <1>8, LoudBareEnd DEF Unexpected
<1>9. CASE PollIdle(e)
  BY <1>5, <1>6, <1>7, <1>8, <1>9 DEF PollIdle, detecting, announce, read
<1>10. CASE PollDetecting(e)
  BY <1>5, <1>7, <1>8, <1>10 DEF PollDetecting
<1> QED BY <1>9, <1>10

\* The v0100 flow keeps no verdict: its result is the outcome itself.
LEMMA V0100Delivers ==
  ASSUME SessionInv, state = "V0100", NEW e, PollV0100(e)
  PROVE  VerdictDelivered'
<1>1. finalOpResult = None
  BY NoVerdictYet
<1>2. CASE IgnoreNoise(e.arg)
  <2>1. actions' \in Seq(QuietActions(None))
    BY <1>2 DEF IgnoreNoise
  <2> QED BY <2>1, QuietEnd
<1>3. CASE SignNonce(e.arg)
  <2>1. /\ Phase("Exchanging") \in QuietActions(None)
        /\ Write("SignedNonce") \in QuietActions(None)
        /\ SetTimer("Packet") \in QuietActions(None)
    BY DEF QuietActions, Phase, Write, SetTimer, Action
  <2>2. CASE actions' = <<Phase("Exchanging"), Write("SignedNonce"), SetTimer("Packet")>>
    <3>1. actions' \in Seq(QuietActions(None))
      BY <2>1, <2>2, Listed
    <3> QED BY <3>1, QuietEnd
  <2>3. CASE Finish(<<>>, Err("InvalidData"))
    BY <2>3, LoudBareEnd
  <2> QED BY <1>3, <2>2, <2>3 DEF SignNonce
<1>4. CASE TakeResult(e.arg)
  <2>1. CASE Finish(<<>>, Err("InvalidData"))
    BY <2>1, LoudBareEnd
  <2>2. CASE Finish(<<>>, Ok(OutcomeOf(1, e.arg.op)))
    <3>1. Delivered' = {Ok(OutcomeOf(1, e.arg.op))}
      BY <2>2, FinishBare
    <3>2. Ok(OutcomeOf(1, e.arg.op)).outcome.version # 2
      BY DEF Ok, OutcomeOf
    <3>3. finalOpResult' = None
      BY <1>1, <1>4 DEF TakeResult, v0200Vars
    <3> QED BY <3>1, <3>2, <3>3, HarmlessDelivery
  <2> QED BY <1>4, <2>1, <2>2 DEF TakeResult
<1>5. CASE Finish(<<>>, Err("Timeout")) /\ UNCHANGED <<state, v0200Vars, step>>
  BY <1>1, <1>5, LostEnd DEF v0200Vars
<1>6. CASE Disconnected
  BY <1>1, <1>6, LostEnd DEF Disconnected, v0200Vars
<1>7. CASE Unexpected
  BY <1>7, LoudBareEnd DEF Unexpected
<1> QED BY <1>2, <1>3, <1>4, <1>5, <1>6, <1>7 DEF PollV0100

\* The actions before the timer, or before Done, when a packet is answered.
AnswerActions(r) ==
  (IF r.st.justin.refusals > traced THEN <<Action("Note", "KnRefused")>> ELSE <<>>)
    \o <<Write(r.out)>>
    \o (IF ~exchanging /\ r.st.ssp.state = "InSession" THEN <<Phase("Exchanging")>> ELSE <<>>)

LEMMA AnswerListed ==
  ASSUME NEW r, NEW T, Action("Note", "KnRefused") \in T, Write(r.out) \in T,
         Phase("Exchanging") \in T
  PROVE  AnswerActions(r) \in Seq(T)
<1> DEFINE note == IF r.st.justin.refusals > traced
                   THEN <<Action("Note", "KnRefused")>> ELSE <<>>
           phase == IF ~exchanging /\ r.st.ssp.state = "InSession"
                    THEN <<Phase("Exchanging")>> ELSE <<>>
<1>1. note \in Seq(T) /\ <<Write(r.out)>> \in Seq(T) /\ phase \in Seq(T)
  BY Listed
<1>2. AnswerActions(r) = note \o <<Write(r.out)>> \o phase
  BY DEF AnswerActions
<1> HIDE DEF note, phase
<1> QED BY <1>1, <1>2, Joined

LEMMA AnswerIsQuiet ==
  ASSUME NEW r
  PROVE  AnswerActions(r) \in Seq(QuietActions(r.out))
<1> DEFINE Q == QuietActions(r.out)
<1>1. Action("Note", "KnRefused") \in Q /\ Write(r.out) \in Q /\ Phase("Exchanging") \in Q
  BY DEF QuietActions, Phase, Write, Action
<1> QED BY <1>1, AnswerListed

\* An answered packet hands over the verdict when Justin closed the key.
LEMMA AnswerDelivers ==
  ASSUME NEW p, NEW r, AnswerPacket(p, r)
  PROVE  VerdictDelivered'
<1> DEFINE final == Latch(r.st.justin.audit)
<1>1. AnswerActions(r) \in Seq(QuietActions(r.out))
  BY AnswerIsQuiet
<1>2. finalOpResult' = final
  BY DEF AnswerPacket
<1>3. CASE Finish(AnswerActions(r), Ok(OutcomeOf(2, final)))
  <2>1. \A a \in QuietActions(r.out) : a.kind # "Done"
    BY DEF QuietActions
  <2>2. Delivered' = {Ok(OutcomeOf(2, final))}
    BY <1>1, <1>3, <2>1, FinishDelivers
  <2>3. Ok(OutcomeOf(2, final)).err = None /\ Ok(OutcomeOf(2, final)).outcome.op = final
    BY DEF Ok, OutcomeOf
  <2> QED BY <1>2, <2>2, <2>3, HarmlessDelivery
<1>4. CASE actions' = AnswerActions(r) \o <<SetTimer(NextWait(final, FALSE))>>
  <2>1. SetTimer(NextWait(final, FALSE)) \in QuietActions(r.out)
    BY DEF SetTimer, NextWait, QuietActions, Action
  <2>2. <<SetTimer(NextWait(final, FALSE))>> \in Seq(QuietActions(r.out))
    BY <2>1, Listed
  <2>3. actions' \in Seq(QuietActions(r.out))
    BY <1>1, <1>4, <2>2, Joined
  <2> QED BY <2>3, QuietEnd
<1> QED BY <1>3, <1>4 DEF AnswerPacket, AnswerActions

\* The v0200 flow ends with the verdict unless the lock broke the protocol.
LEMMA V0200Delivers ==
  ASSUME SessionInv, state = "V0200", NEW e, PollV0200(e)
  PROVE  VerdictDelivered'
<1>1. CASE \E randomB \in Randoms : RejectPacket(HandlePacket(stack, e.arg, randomB))
  <2>1. PICK randomB \in Randoms : RejectPacket(HandlePacket(stack, e.arg, randomB))
    BY <1>1
  <2> DEFINE err == HandlePacket(stack, e.arg, randomB).err
  <2>2. err \in PacketErrors /\ Finish(<<>>, Err(err))
    BY <2>1, HandlePacketErrors DEF RejectPacket
  <2> QED BY <2>2, LoudBareEnd
<1>2. CASE \E randomB \in Randoms : AnswerPacket(e.arg, HandlePacket(stack, e.arg, randomB))
  BY <1>2, AnswerDelivers
<1>3. CASE Finish(<<>>, Ok(OutcomeOf(2, finalOpResult))) /\ UNCHANGED v0200Vars
  <2>1. Delivered' = {Ok(OutcomeOf(2, finalOpResult))}
    BY <1>3, FinishBare
  <2>2. /\ Ok(OutcomeOf(2, finalOpResult)).err = None
        /\ Ok(OutcomeOf(2, finalOpResult)).outcome.op = finalOpResult'
    BY <1>3 DEF Ok, OutcomeOf, v0200Vars
  <2> QED BY <2>1, <2>2, HarmlessDelivery
<1>4. CASE Finish(<<>>, Err("Timeout")) /\ finalOpResult = None /\ UNCHANGED v0200Vars
  BY <1>4, LostEnd DEF v0200Vars
<1>5. CASE Unexpected
  BY <1>5, LoudBareEnd DEF Unexpected
<1> QED BY <1>1, <1>2, <1>3, <1>4, <1>5 DEF PollV0200, Expire0200, Close0200

\* Every poll, whatever the event.
LEMMA PollDelivers ==
  ASSUME SessionInv, NEW e, Poll(e)
  PROVE  VerdictDelivered'
<1>1. CASE actions' = <<>>
  <2>1. actions' \in Seq(QuietActions(None))
    BY <1>1
  <2> QED BY <2>1, QuietEnd
<1>2. CASE Finish(<<>>, Err("Cancelled"))
  BY <1>2, LoudBareEnd
<1>3. CASE Dispatch(e)
  BY <1>3, StartDelivers, V0100Delivers, V0200Delivers DEF Dispatch
<1> QED BY <1>1, <1>2, <1>3 DEF Poll, PollFinished, Abort

\* However a v0200 attempt ends, on CLOSE, by silence or with the link, the
\* verdict the lock reported first is what Done hands over, and silence or a
\* dropped link never hides it (Session::poll).
THEOREM VerdictReachesCaller == Spec => []VerdictDelivered
<1>1. Init => VerdictDelivered
  BY DEF Init, VerdictDelivered, Delivered
<1>2. VerdictDelivered /\ SessionInv /\ [Next]_sessionVars => VerdictDelivered'
  <2> SUFFICES ASSUME VerdictDelivered, SessionInv, [Next]_sessionVars
               PROVE  VerdictDelivered'
    OBVIOUS
  <2>1. CASE Next
    BY <2>1, PollDelivers DEF Next
  <2>2. CASE UNCHANGED sessionVars
    BY <2>2 DEF sessionVars, v0200Vars, VerdictDelivered, Delivered
  <2> QED BY <2>1, <2>2
<1> QED BY <1>1, <1>2, SessionInvariant, PTL DEF Spec

-----------------------------------------------------------------------------
(* Where kN goes *)

\* The copy of the key the stack works on still holds it in that place alone.
KnInPlace == Hides(stack.justin.key, TheKey.fixed, Kn(TheKey))

KnInv == SessionInv /\ KnInPlace

\* A block is neither empty nor one byte long.
LEMMA KnIsLong == Kn(TheKey) # <<>> /\ Kn(TheKey) # <<1>>
<1>1. DOMAIN Kn(TheKey) = 1..16 /\ 2 \in 1..16
  BY SessionAssumption DEF Block
<1>2. DOMAIN <<>> = {} /\ DOMAIN <<1>> = 1..1
  OBVIOUS
<1>3. 2 \notin 1..1
  OBVIOUS
<1> QED BY <1>1, <1>2, <1>3

\* The opening mode is no copy of it.
LEMMA NewStackHides ==
  ASSUME KnIsUnique, NEW opts
  PROVE  Hides(NewStack(SessionKey(opts)).justin.key, TheKey.fixed, Kn(TheKey))
<1> DEFINE key == SessionKey(opts)
           mode == Tag({"READABLE", "READ_WITHOUT_SECURITY"}, <<1>>)
<1>1. Hides(TheKey, TheKey.fixed, Kn(TheKey))
  BY SessionAssumption DEF KnIsUnique, IsMobileKey, Hides, Kn
<1>2. mode.data # Kn(TheKey)
  BY KnIsLong DEF Tag
<1> HIDE DEF mode
<1>3. Hides(InsertTag(TheKey, TAG_OPENING_MODE, mode), TheKey.fixed, Kn(TheKey))
  BY <1>1, <1>2, InsertHides
<1>4. Hides(key, TheKey.fixed, Kn(TheKey))
  BY <1>1, <1>3 DEF SessionKey, mode
<1> HIDE DEF key
<1>5. NewStack(key).justin.key = key
  BY DEF NewStack, NewJustinWithKey, NewJustin
<1> QED BY <1>4, <1>5 DEF key

\* No notification carries kN.
LEMMA PacketsHide == ASSUME KnIsUnique PROVE \A p \in Packets0200 : PacketHides(p, Kn(TheKey))
<1> SUFFICES ASSUME NEW p \in Packets0200 PROVE PacketHides(p, Kn(TheKey))
  OBVIOUS
<1>1. CASE p = Malformed("short", FALSE)
  BY <1>1 DEF Malformed, PacketHides
<1>2. CASE \E control \in BOOLEAN : p = Malformed("misaligned", control)
  BY <1>2 DEF Malformed, PacketHides
<1>3. CASE \E b \in Bodies : p = Plain(TRUE, b)
  BY <1>3 DEF Plain, PacketHides
<1>4. CASE \E c \in Commands : p = Plain(FALSE, c)
  BY <1>4 DEF Plain, PacketHides, KnIsUnique
<1>5. CASE \E b \in Bodies : p = Sealed(TRUE, b, CurrentKey(stack.ssp), stack.ssp.iv)
  BY <1>5 DEF Sealed, PacketHides
<1>6. CASE \E c \in Commands, k \in {None, CurrentKey(stack.ssp)} :
             p = Sealed(FALSE, c, k, stack.ssp.iv)
  BY <1>6 DEF Sealed, PacketHides, KnIsUnique
<1> QED BY <1>1, <1>2, <1>3, <1>4, <1>5, <1>6 DEF Packets0200

\* A poll whose actions write nothing lets nothing out.
LEMMA NothingWritten ==
  ASSUME NEW S, \A a \in S : a.kind # "Write", actions' \in Seq(S)
  PROVE  KnOnlySealed'
<1>1. \A i \in DOMAIN actions' : actions'[i] \in S
  OBVIOUS
<1> QED BY <1>1 DEF KnOnlySealed

\* The actions of a poll that writes nothing.
SilentActions(result) ==
  {Action("Subscribe", None), Action("AnnounceAppProtocol", None),
   Action("ReadProtocolInfo", None), Phase("DetectingVersion"), Phase("Authenticating"),
   Phase("Finished"), SetTimer("FirstPacket"), Action("Done", result)}

LEMMA SilentPoll ==
  ASSUME NEW result, actions' \in Seq(SilentActions(result))
  PROVE  KnOnlySealed'
<1>1. \A a \in SilentActions(result) : a.kind # "Write"
  BY DEF SilentActions, Action, Phase, SetTimer
<1> QED BY <1>1, NothingWritten

LEMMA FinishIsSilent ==
  ASSUME NEW result, NEW before \in Seq(SilentActions(result)), Finish(before, result)
  PROVE  KnOnlySealed'
<1>1. <<Phase("Finished"), Action("Done", result)>> \in Seq(SilentActions(result))
  BY Listed DEF SilentActions
<1>2. actions' \in Seq(SilentActions(result))
  BY <1>1, Joined DEF Finish
<1> QED BY <1>2, SilentPoll

LEMMA FinishBareIsSilent ==
  ASSUME NEW result, Finish(<<>>, result)
  PROVE  KnOnlySealed'
<1>1. <<>> \in Seq(SilentActions(result))
  OBVIOUS
<1> QED BY <1>1, FinishIsSilent

\* Before either flow has begun nothing is written; the v0200 flow then begins
\* with a copy of the key.
LEMMA StartHides ==
  ASSUME KnIsUnique, KnInPlace, NEW e, PollIdle(e) \/ PollDetecting(e)
  PROVE  KnInPlace' /\ KnOnlySealed'
<1> DEFINE result == Err("InvalidProtocolVersion")
           Q == SilentActions(result)
           detecting == <<Phase("DetectingVersion")>>
           announce == IF options.detection = "AppProtocol"
                       THEN <<Action("AnnounceAppProtocol", None)>> ELSE <<>>
           read == <<Action("ReadProtocolInfo", None)>>
<1>1. /\ Action("Subscribe", None) \in Q /\ Action("AnnounceAppProtocol", None) \in Q
      /\ Action("ReadProtocolInfo", None) \in Q /\ SetTimer("FirstPacket") \in Q
      /\ Phase("Authenticating") \in Q /\ Phase("DetectingVersion") \in Q
  BY DEF SilentActions
<1>2. ASSUME NEW before \in Seq(Q), NEW major, Begin(before, major)
      PROVE  KnInPlace' /\ KnOnlySealed'
  <2> DEFINE subscribed == before \o <<Action("Subscribe", None), Phase("Authenticating")>>
  <2>1. <<Action("Subscribe", None), Phase("Authenticating")>> \in Seq(Q)
    BY <1>1, Listed
  <2>2. subscribed \in Seq(Q)
    BY <2>1, Joined
  <2> HIDE DEF subscribed
  <2>3. CASE Finish(before, result) /\ UNCHANGED <<state, v0200Vars, step>>
    BY <2>3, FinishIsSilent DEF KnInPlace, v0200Vars
  <2>4. CASE BeginV0100(subscribed)
    BY <2>4 DEF BeginV0100, KnInPlace, KnOnlySealed, v0200Vars
  <2>5. CASE BeginV0200(subscribed)
    <3>1. <<SetTimer("FirstPacket")>> \in Seq(Q)
      BY <1>1, Listed
    <3>2. actions' \in Seq(Q)
      BY <2>2, <2>5, <3>1, Joined DEF BeginV0200
    <3>3. KnInPlace'
      BY <2>5, NewStackHides DEF BeginV0200, KnInPlace
    <3> QED BY <3>2, <3>3, SilentPoll
  <2> QED BY <1>2, <2>3, <2>4, <2>5 DEF Begin, subscribed
<1>3. /\ detecting \in Seq(Q) /\ announce \in Seq(Q) /\ read \in Seq(Q) /\ <<>> \in Seq(Q)
  BY <1>1, Listed
<1> HIDE DEF detecting, announce, read, Q
<1>4. CASE \E major : Begin(detecting, major) \/ Begin(<<>>, major)
  BY <1>2, <1>3, <1>4
<1>5. CASE actions' = detecting \o announce \o read /\ UNCHANGED v0200Vars
  <2>1. actions' \in Seq(Q)
    BY <1>3, <1>5, Joined
  <2> QED BY <1>5, <2>1, SilentPoll DEF KnInPlace, v0200Vars, Q
<1>6. CASE Disconnected \/ Unexpected
  BY <1>6, FinishBareIsSilent DEF Disconnected, Unexpected, KnInPlace, v0200Vars
<1>7. CASE PollIdle(e)
  BY <1>4, <1>5, <1>6, <1>7 DEF PollIdle, detecting, announce, read
<1>8. CASE PollDetecting(e)
  BY <1>4, <1>6, <1>8 DEF PollDetecting
<1> QED BY <1>7, <1>8

\* What is written in answer to a packet is what the stack returned.
LEMMA AnswerHides ==
  ASSUME NEW p, NEW r, AnswerPacket(p, r), HidingStep(TheKey.fixed, Kn(TheKey), r)
  PROVE  KnInPlace' /\ KnOnlySealed'
<1> DEFINE final == Latch(r.st.justin.audit)
           T == {Action("Note", "KnRefused"), Write(r.out), Phase("Exchanging"),
                 Phase("Finished"), Action("Done", Ok(OutcomeOf(2, final))),
                 SetTimer(NextWait(final, FALSE))}
<1>1. \A a \in T : a.kind = "Write" => a.arg = r.out
  <2> DEFINE done == Ok(OutcomeOf(2, final))
             wait == NextWait(final, FALSE)
  <2> HIDE DEF done, wait
  <2>1. /\ Action("Note", "KnRefused").kind # "Write" /\ Phase("Exchanging").kind # "Write"
        /\ Phase("Finished").kind # "Write" /\ Action("Done", done).kind # "Write"
        /\ SetTimer(wait).kind # "Write" /\ Write(r.out).arg = r.out
    BY DEF Action, Write, Phase, SetTimer
  <2> QED BY <2>1 DEF done, wait
<1>2. /\ Action("Note", "KnRefused") \in T /\ Write(r.out) \in T /\ Phase("Exchanging") \in T
      /\ Phase("Finished") \in T /\ Action("Done", Ok(OutcomeOf(2, final))) \in T
      /\ SetTimer(NextWait(final, FALSE)) \in T
  OBVIOUS
<1> HIDE DEF T
<1>3. /\ AnswerActions(r) \in Seq(T)
      /\ <<Phase("Finished"), Action("Done", Ok(OutcomeOf(2, final)))>> \in Seq(T)
      /\ <<SetTimer(NextWait(final, FALSE))>> \in Seq(T)
  BY <1>2, AnswerListed, Listed
<1>4. actions' \in Seq(T)
  <2>1. \/ actions' = AnswerActions(r)
                      \o <<Phase("Finished"), Action("Done", Ok(OutcomeOf(2, final)))>>
        \/ actions' = AnswerActions(r) \o <<SetTimer(NextWait(final, FALSE))>>
    BY DEF AnswerPacket, AnswerActions, Finish
  <2> QED BY <1>3, <2>1, Joined
<1>5. \A i \in DOMAIN actions' : actions'[i].kind = "Write" => actions'[i].arg = r.out
  BY <1>1, <1>4
<1>6. stack' = r.st /\ r.err = None
  BY DEF AnswerPacket
<1> QED BY <1>5, <1>6 DEF HidingStep, KnInPlace, KnOnlySealed

\* One poll.
LEMMA PollHides ==
  ASSUME KnIsUnique, KnInv, NEW e \in Events, Poll(e)
  PROVE  KnInPlace' /\ KnOnlySealed'
<1>1. CASE \E result : Finish(<<>>, result) /\ UNCHANGED v0200Vars
  BY <1>1, FinishBareIsSilent DEF KnInv, KnInPlace, v0200Vars
<1>2. CASE actions' = <<>> /\ UNCHANGED v0200Vars
  BY <1>2 DEF KnInv, KnInPlace, KnOnlySealed, v0200Vars
<1>3. CASE state \in {"Idle", "Detecting"} /\ (PollIdle(e) \/ PollDetecting(e))
  BY <1>3, StartHides DEF KnInv
<1>4. CASE state = "V0200" /\ PollV0200(e)
  <2>1. CASE e.kind = "Notification"
    <3>1. PICK randomB \in Randoms :
            \/ RejectPacket(HandlePacket(stack, e.arg, randomB))
            \/ AnswerPacket(e.arg, HandlePacket(stack, e.arg, randomB))
      BY <1>4, <2>1 DEF PollV0200
    <3> DEFINE r == HandlePacket(stack, e.arg, randomB)
    <3>2. e.arg \in Packets0200
      BY <1>4, <2>1 DEF Events, Event, Packets
    <3>3. /\ StackOK(stack) /\ PacketOK(e.arg) /\ PacketHides(e.arg, Kn(TheKey))
          /\ randomB \in Block /\ Kn(TheKey) # <<>>
      BY <3>2, InvStack, PacketsAreOK, PacketsHide, KnIsLong, SessionAssumption DEF KnInv
    <3>4. HidingStep(TheKey.fixed, Kn(TheKey), r)
      BY <3>3, HandlePacketHides DEF KnInv, KnInPlace
    <3> HIDE DEF r
    <3>5. CASE RejectPacket(r)
      BY <3>4, <3>5, FinishBareIsSilent DEF RejectPacket, HidingStep, KnInPlace
    <3>6. CASE AnswerPacket(e.arg, r)
      BY <3>4, <3>6, AnswerHides
    <3> QED BY <3>1, <3>5, <3>6 DEF r
  <2>2. CASE e.kind # "Notification"
    BY <1>1, <1>4, <2>2 DEF PollV0200, Expire0200, Close0200, Unexpected
  <2> QED BY <2>1, <2>2
<1>5. CASE state = "V0100" /\ PollV0100(e)
  <2>1. state' # "V0200" /\ UNCHANGED v0200Vars
    BY <1>5 DEF PollV0100, IgnoreNoise, SignNonce, TakeResult, Disconnected, Unexpected
  <2> QED BY <2>1 DEF KnInv, KnInPlace, KnOnlySealed, v0200Vars
<1> QED BY <1>1, <1>2, <1>3, <1>4, <1>5 DEF Poll, PollFinished, Abort, Dispatch

\* kN leaves the phone only sealed under the session key: unless its bytes are
\* in another tag too, or the lock copies them into one, no plain packet and
\* none sealed under kN itself ever carries them (handle_read_tag, wrap_data).
THEOREM KnLeavesSealed == ASSUME KnIsUnique PROVE Spec => []KnOnlySealed
<1>1. Init => KnInPlace /\ KnOnlySealed
  BY NewStackHides DEF Init, KnInPlace, KnOnlySealed
<1>2. /\ KnInPlace /\ KnOnlySealed /\ SessionInv /\ [Next]_sessionVars
      => KnInPlace' /\ KnOnlySealed'
  <2> SUFFICES ASSUME KnInPlace, KnOnlySealed, SessionInv, [Next]_sessionVars
               PROVE  KnInPlace' /\ KnOnlySealed'
    OBVIOUS
  <2>1. CASE Next
    BY <2>1, PollHides DEF Next, KnInv
  <2>2. CASE UNCHANGED sessionVars
    BY <2>2 DEF sessionVars, v0200Vars, KnInPlace, KnOnlySealed
  <2> QED BY <2>1, <2>2
<1> QED BY <1>1, <1>2, SessionInvariant, PTL DEF Spec
=============================================================================
