----------------------------- MODULE WasmProofs -----------------------------
(***************************************************************************)
(* Proofs about WasmShell, for every key, every page and every lock.       *)
(***************************************************************************)
EXTENDS WasmShell, SessionProofs

-----------------------------------------------------------------------------
(* The challenge of the handshake *)

\* A first step that is answered was answered from Ready, and leaves it.
LEMMA Step1Advances ==
  ASSUME NEW s, SspTypeOK(s), NEW sealed, NEW randomB,
         HandleOpenSessionStep1(s, sealed, randomB).err = None
  PROVE  /\ s.state = "Ready"
         /\ HandleOpenSessionStep1(s, sealed, randomB).st.state = "AuthStep1"
<1> DEFINE drawn == [s EXCEPT !.randomB = randomB]
           body  == Control("OpenSessionStep1", randomB, None)
           moved == [drawn EXCEPT !.iv = LastBlock(CurrentKey(drawn), drawn.iv, body)]
           r     == HandleOpenSessionStep1(s, sealed, randomB)
           sent  == Seal(drawn, TRUE, body)
<1>1. ~sealed /\ s.state = "Ready"
  BY ErrorsAreNotNone DEF HandleOpenSessionStep1, Fail, ErrorCode
<1>2. r = [sent EXCEPT !.st.state = "AuthStep1"]
  BY <1>1 DEF HandleOpenSessionStep1
<1>3. sent = [st |-> moved, err |-> None, out |-> Sealed(TRUE, body, CurrentKey(drawn), drawn.iv)]
  BY DEF Seal, Succeed
<1>4. moved \in [state : {s.state}, iv : {moved.iv}, kn : {s.kn}, sessionKey : {s.sessionKey},
                 randomB : {randomB}, randomA : {s.randomA}]
  BY DEF SspTypeOK
<1> HIDE DEF moved, sent
<1>5. r.st.state = "AuthStep1"
  BY <1>2, <1>3, <1>4
<1> QED
  BY <1>1, <1>5

\* Any other control packet that is answered is no challenge, and does not go
\* back to Ready: the one handler that does fails.
LEMMA OthersStayPut ==
  ASSUME NEW s, SspTypeOK(s), NEW c, c.op # "OpenSessionStep1", NEW sealed, NEW randomB,
         ProcessControlPacket(s, c, sealed, randomB).err = None
  PROVE  LET r == ProcessControlPacket(s, c, sealed, randomB)
         IN  /\ r.out.body.op # "OpenSessionStep1"
             /\ s.state # "Ready" => r.st.state # "Ready"
<1> DEFINE r == ProcessControlPacket(s, c, sealed, randomB)
<1> SUFFICES /\ r.out.body.op # "OpenSessionStep1"
             /\ s.state # "Ready" => r.st.state # "Ready"
  OBVIOUS
<1>0. r.err = None
  OBVIOUS
<1>1. CASE c.op = "OpenSessionStep2"
  <2> DEFINE heard == [s EXCEPT !.randomA = c.a]
             body  == Control("OpenSessionStep2", RotateRight(c.a), None)
             moved == [heard EXCEPT !.iv = LastBlock(CurrentKey(heard), heard.iv, body)]
             sent  == Seal(heard, TRUE, body)
             key   == DeriveSessionKey(c.a, s.randomB)
  <2>1. r = HandleOpenSessionStep2(s, c, sealed)
    BY <1>1 DEF ProcessControlPacket
  <2> HIDE DEF r
  <2>2. /\ sealed /\ s.state = "AuthStep1" /\ c.a # None /\ c.b # None
        /\ s.randomB # None /\ c.b = RotateRight(s.randomB)
    <3>1. \A t, e : e \in ErrorCode => Fail(t, e).err # None
      BY ErrorsAreNotNone DEF Fail
    <3> QED
      BY <1>0, <2>1, <3>1 DEF HandleOpenSessionStep2, ErrorCode
  <2>3. r = [sent EXCEPT !.st.sessionKey = key, !.st.state = "InSession"]
    BY <2>1, <2>2 DEF HandleOpenSessionStep2
  <2>4. sent = [st |-> moved, err |-> None, out |-> Sealed(TRUE, body, CurrentKey(heard), heard.iv)]
    BY DEF Seal, Succeed
  <2>5. moved \in [state : {s.state}, iv : {moved.iv}, kn : {s.kn}, sessionKey : {s.sessionKey},
                   randomB : {s.randomB}, randomA : {c.a}]
    BY DEF SspTypeOK
  <2> HIDE DEF moved, sent, key
  <2>6. r.st.state = "InSession"
    BY <2>3, <2>4, <2>5
  <2>7. r.out.body = body
    BY <2>3, <2>4 DEF Sealed
  <2> QED
    BY <2>6, <2>7 DEF Control
<1>2. CASE c.op = "SetKeyValue"
  <2> DEFINE keyed == [s EXCEPT !.sessionKey = c.a]
             body  == Control("SetKeyValue", None, None)
             moved == [keyed EXCEPT !.iv = LastBlock(CurrentKey(keyed), keyed.iv, body)]
  <2>1. r = HandleSetKeyValue(s, c)
    BY <1>2 DEF ProcessControlPacket
  <2> HIDE DEF r
  <2>2. r = Seal(keyed, TRUE, body)
    <3>1. \A t, e : e \in ErrorCode => Fail(t, e).err # None
      BY ErrorsAreNotNone DEF Fail
    <3>2. s.state = "InSession" /\ c.a # None
      BY <1>0, <2>1, <3>1 DEF HandleSetKeyValue, ErrorCode
    <3> QED
      BY <2>1, <3>2 DEF HandleSetKeyValue
  <2>3. r.st = moved /\ r.out.body = body
    BY <2>2 DEF Seal, Succeed, Sealed
  <2>4. moved.state = s.state
    BY DEF SspTypeOK
  <2> HIDE DEF moved
  <2> QED
    BY <2>3, <2>4 DEF Control
<1>3. CASE c.op = "GetVersion"
  BY <1>3 DEF ProcessControlPacket, HandleGetVersion, Succeed, Plain, Control
<1>4. CASE c.op \notin {"OpenSessionStep1", "OpenSessionStep2", "SetKeyValue", "GetVersion"}
  BY <1>4, ErrorsAreNotNone DEF ProcessControlPacket, Fail, ErrorCode
<1> QED
  BY <1>1, <1>2, <1>3, <1>4

\* The two lemmas for a packet: it is a challenge's request or it is not.
LEMMA ControlPacketAnswered ==
  ASSUME NEW k, StackOK(k), NEW p, p.control, NEW randomB,
         HandlePacket(k, p, randomB).err = None
  PROVE  LET r == HandlePacket(k, p, randomB)
         IN  /\ p.body.op = "OpenSessionStep1" =>
                  k.ssp.state = "Ready" /\ r.st.ssp.state = "AuthStep1"
             /\ p.body.op # "OpenSessionStep1" =>
                  /\ r.out.body.op # "OpenSessionStep1"
                  /\ k.ssp.state # "Ready" => r.st.ssp.state # "Ready"
<1> DEFINE r      == HandlePacket(k, p, randomB)
           q      == ProcessPacket(k.ssp, p, randomB)
           opened == IF p.form = "plain" THEN Succeed(k.ssp, p.body) ELSE Unseal(k.ssp, p)
<1>1. p.form # "short"
  BY ErrorsAreNotNone DEF HandlePacket, ErrorCode
<1>2. r.st.ssp = q.st /\ r.err = q.err /\ r.out = q.out
  BY <1>1 DEF HandlePacket, WithSsp, StackOK
<1>3. /\ SspInv(opened.st) /\ opened.st.state = k.ssp.state
      /\ opened.err = None => opened.out = p.body
  BY UnsealKeepsState DEF Succeed, StackOK
<1>4. q = IF opened.err # None THEN opened
          ELSE ProcessControlPacket(opened.st, opened.out, p.form # "plain", randomB)
  BY <1>1 DEF ProcessPacket
<1> HIDE DEF opened, q, r
<1>5. opened.err = None /\ opened.out = p.body
  BY <1>2, <1>3, <1>4 DEF r
<1>6. q = ProcessControlPacket(opened.st, p.body, p.form # "plain", randomB) /\ q.err = None
  BY <1>2, <1>4, <1>5 DEF r
<1>7. ASSUME p.body.op = "OpenSessionStep1"
      PROVE  k.ssp.state = "Ready" /\ q.st.state = "AuthStep1"
  <2>1. q = HandleOpenSessionStep1(opened.st, p.form # "plain", randomB)
    BY <1>6, <1>7 DEF ProcessControlPacket
  <2> QED
    BY <1>3, <1>6, <2>1, Step1Advances DEF SspInv
<1>8. ASSUME p.body.op # "OpenSessionStep1"
      PROVE  q.out.body.op # "OpenSessionStep1" /\ (k.ssp.state # "Ready" => q.st.state # "Ready")
  BY <1>3, <1>6, <1>8, OthersStayPut DEF SspInv
<1> QED
  BY <1>2, <1>7, <1>8 DEF r

\* Application data never moves the handshake.
LEMMA DataPacketStaysPut ==
  ASSUME NEW k, StackOK(k), NEW p, PacketOK(p), ~p.control, NEW randomB,
         HandlePacket(k, p, randomB).err = None
  PROVE  k.ssp.state # "Ready" => HandlePacket(k, p, randomB).st.ssp.state # "Ready"
<1> DEFINE r == HandlePacket(k, p, randomB)
<1>1. p.form # "short"
  BY ErrorsAreNotNone DEF HandlePacket, ErrorCode
<1>2. CASE p.form = "plain"
  <2> DEFINE q == ProcessJustin(k, p.body, FALSE)
  <2>1. p.body \in CommandType
    BY <1>2 DEF PacketOK
  <2>2. q.st.ssp = k.ssp
    BY <2>1, JustinStep
  <2>3. q = [st |-> q.st, err |-> q.err, out |-> q.out]
    BY DEF ProcessJustin
  <2>4. r = IF q.err # None THEN q ELSE [q EXCEPT !.out = Plain(FALSE, q.out)]
    BY <1>2 DEF HandlePacket, HandlePlainData
  <2> HIDE DEF q, r
  <2>5. r.st = q.st
    BY <2>3, <2>4
  <2> QED
    BY <2>2, <2>5 DEF r
<1>3. CASE p.form # "plain"
  <2> DEFINE q       == ProcessPacket(k.ssp, p, None)
             opened  == WithSsp(k, q)
             handled == ProcessJustin(opened.st, opened.out, TRUE)
             w       == WrapData(handled.st.ssp, handled.out)
  <2>1. /\ SspInv(q.st) /\ StaysOpen(k.ssp, q.st)
        /\ q.err = None => q.st.state = "InSession" /\ q.out = p.body
    BY DataKeepsInv DEF StackOK
  <2>2. /\ StackOK(opened.st) /\ opened.st.ssp = q.st
        /\ opened.err = q.err /\ opened.out = q.out
    BY <2>1, SspStep
  <2>3. r = IF opened.err # None THEN opened
            ELSE IF handled.err # None THEN handled ELSE WithSsp(handled.st, w)
    BY <1>1, <1>3 DEF HandlePacket, HandleEncryptedData
  <2>4. q.err = None => p.form \notin {"short", "misaligned"}
    BY <1>1, ErrorsAreNotNone DEF ProcessPacket, Unseal, Fail, ErrorCode
  <2>5. r.err = None
    OBVIOUS
  <2> HIDE DEF q, opened, r
  <2>6. opened.err = None /\ q.st.state = "InSession" /\ opened.out = p.body
        /\ p.body \in CommandType
    BY <2>1, <2>2, <2>3, <2>4, <2>5 DEF PacketOK
  <2>7. StackOK(handled.st) /\ handled.st.ssp = q.st
    BY <2>2, <2>6, JustinStep
  <2> HIDE DEF handled
  <2>8. r = IF handled.err # None THEN handled ELSE WithSsp(handled.st, w)
    BY <2>3, <2>6
  <2>9. SspInv(w.st) /\ w.st.state = "InSession"
    BY <2>6, <2>7, WrapNeverFails DEF StackOK, StaysOpen
  <2> HIDE DEF w
  <2>10. WithSsp(handled.st, w).st.ssp = w.st
    BY <2>7, <2>9, SspStep DEF StaysOpen
  <2> QED
    BY <2>6, <2>7, <2>8, <2>9, <2>10 DEF r
<1> QED
  BY <1>2, <1>3

-----------------------------------------------------------------------------
(* One call of the page *)

\* A draw is a request for the challenge that finds SSP Ready.
LEMMA DrawIsFirst ==
  ASSUME SessionInv, NEW e, EventOK(e), Draws(e)
  PROVE  /\ ~finished /\ state = "V0200" /\ e.kind = "Notification" /\ e.arg.control
         /\ stack.ssp.state = "Ready"
         /\ e.arg.body.op = "OpenSessionStep1"
<1> DEFINE r == HandlePacket(stack, e.arg, None)
<1>1. /\ ~finished /\ state = "V0200" /\ e.kind = "Notification"
      /\ r.err = None /\ e.arg.control /\ r.out.body.op = "OpenSessionStep1"
  BY DEF Draws
<1>2. e.arg.body.op = "OpenSessionStep1" /\ stack.ssp.state = "Ready"
  BY <1>1, InvStack, ControlPacketAnswered
<1> QED
  BY <1>1, <1>2

\* No event takes back a challenge that has been sent, and the event that draws
\* one sends it, or ends the session.
LEMMA PollSendsOnce ==
  ASSUME SessionInv, NEW e, EventOK(e), Poll(e), ChallengeSent \/ Draws(e)
  PROVE  ChallengeSent'
<1>1. CASE PollFinished \/ Abort(e)
  BY <1>1 DEF PollFinished, Abort, Finish, ChallengeSent
<1>2. CASE Dispatch(e) /\ state = "V0200"
  <2>1. CASE e.kind = "Notification"
    <3>1. PICK randomB \in Randoms :
            \/ RejectPacket(HandlePacket(stack, e.arg, randomB))
            \/ AnswerPacket(e.arg, HandlePacket(stack, e.arg, randomB))
      BY <1>2, <2>1 DEF Dispatch, PollV0200
    <3> DEFINE r == HandlePacket(stack, e.arg, randomB)
    <3>2. CASE RejectPacket(r)
      BY <3>2 DEF RejectPacket, Finish, ChallengeSent
    <3>3. CASE AnswerPacket(e.arg, r)
      <4>1. r.err = None /\ stack' = r.st /\ state' = state
        BY <3>3 DEF AnswerPacket
      <4>2. StackOK(stack) /\ PacketOK(e.arg)
        BY <1>2, <2>1, InvStack DEF EventOK
      <4>3. r.st.ssp.state # "Ready"
        <5>1. CASE Draws(e)
          BY <4>1, <4>2, <5>1, DrawIsFirst, ControlPacketAnswered
        <5>2. CASE ChallengeSent /\ e.arg.control
          <6>1. stack.ssp.state # "Ready"
            BY <1>2, <5>2 DEF ChallengeSent, Dispatch
          <6> QED
            BY <4>1, <4>2, <5>2, <6>1, ControlPacketAnswered
        <5>3. CASE ChallengeSent /\ ~e.arg.control
          <6>1. stack.ssp.state # "Ready"
            BY <1>2, <5>3 DEF ChallengeSent, Dispatch
          <6> QED
            BY <4>1, <4>2, <5>3, <6>1, DataPacketStaysPut
        <5> QED
          BY <5>1, <5>2, <5>3
      <4> QED
        BY <1>2, <4>1, <4>3 DEF ChallengeSent
    <3> QED
      BY <3>1, <3>2, <3>3
  <2>2. CASE e.kind # "Notification"
    BY <1>2, <2>2 DEF Dispatch, PollV0200, Expire0200, Close0200, Unexpected, Finish, ChallengeSent
  <2> QED
    BY <2>1, <2>2
<1>3. CASE Dispatch(e) /\ state = "V0100"
  BY <1>3 DEF Dispatch, PollV0100, IgnoreNoise, SignNonce, TakeResult, Disconnected, Unexpected,
              Finish, ChallengeSent
<1>4. CASE Dispatch(e) /\ state \notin {"V0100", "V0200"}
  BY <1>4 DEF Dispatch, ChallengeSent, Draws
<1> QED
  BY <1>1, <1>2, <1>3, <1>4 DEF Poll

\* The constructor: a refusal changes nothing, and a session starts afresh.
LEMMA NewKeepsInv ==
  ASSUME ShellInv, NEW isKey, NEW js \in JsOptions, New(isKey, js)
  PROVE  ShellInv'
<1>1. CASE Refuses(isKey, js) # None
  <2>1. UNCHANGED <<sessionVars, handle, random>>
    BY <1>1 DEF New, Throw
  <2>2. SessionInv'
    BY <2>1, StutterKeepsInv DEF ShellInv
  <2> QED
    BY <2>1, <2>2 DEF ShellInv, ChallengeSent, sessionVars, v0200Vars
<1>2. CASE Refuses(isKey, js) = None
  <2>1. /\ handle = "absent" /\ handle' = "session"
        /\ options' = IntoOptions(js)
        /\ stack' = NewStack(SessionKey(options'))
        /\ random' = IF js.random = None THEN None ELSE [values |-> js.random, next |-> 1]
        /\ UNCHANGED <<state, finished, firstPacket, finalOpResult, exchanging, traced,
                       reported, step>>
    BY <1>2 DEF New
  <2>2. state = "Idle"
    BY <2>1 DEF ShellInv
  <2>3. options' \in Options
    BY <1>2, <2>1, WasmAssumption DEF Refuses, Refusals
  <2>4. /\ StackOK(stack') /\ stack'.justin.audit = None /\ stack'.ssp.state = "Ready"
    BY <2>1, NewStackGood
  <2>5. reported = <<>> /\ ~exchanging
    BY <2>2 DEF ShellInv, SessionInv, NothingBeforeV0200, ExchangingIsAuthenticated, TypeOK
  <2>6. SessionInv'
    <3>1. TypeOK'
      BY <2>1, <2>3, <2>4 DEF ShellInv, SessionInv, TypeOK, StackOK, SspInv
    <3>2. ExchangingIsAuthenticated'
      BY <2>1, <2>4, <2>5 DEF ExchangingIsAuthenticated, StackOK, SspInv
    <3>3. AuditIsLastReported' /\ NothingBeforeV0200'
      BY <2>1, <2>4, <2>5 DEF AuditIsLastReported, NothingBeforeV0200
    <3>4. LatchedIsFirstFinal'
      BY <2>1 DEF ShellInv, SessionInv, LatchedIsFirstFinal
    <3> QED
      BY <3>1, <3>2, <3>3, <3>4 DEF SessionInv
  <2>7. random' # None => random' \in [values : Seq(Seq(Byte)), next : {1, 2}] /\ random'.next = 1
    BY <2>1, WasmAssumption
  <2> QED
    BY <2>1, <2>6, <2>7 DEF ShellInv
<1> QED
  BY <1>1, <1>2

\* A call that reaches the session. It can only trap before the challenge was
\* sent, so only when there was no value to begin with.
LEMMA PollWithKeepsInv ==
  ASSUME ShellInv, NEW e, EventOK(e), PollWith(e)
  PROVE  ShellInv'
<1>1. SessionInv /\ handle = "session"
  BY DEF ShellInv, PollWith
<1>2. CASE Poll(e) /\ UNCHANGED handle /\ random # None /\ Draws(e) /\ Replays
  <2>1. SessionInv' /\ ChallengeSent'
    BY <1>1, <1>2, PollKeepsInv, PollSendsOnce
  <2>2. stack.ssp.state = "Ready" /\ ~finished /\ state = "V0200"
    BY <1>1, <1>2, DrawIsFirst
  <2>3. random.next = 1 /\ random \in [values : Seq(Seq(Byte)), next : {1, 2}]
    BY <1>2, <2>2 DEF ShellInv, ChallengeSent
  <2>4. random' \in [values : Seq(Seq(Byte)), next : {1, 2}]
    <3> DEFINE Values == Seq(Seq(Byte))
    <3>1. random \in [values : Values, next : {1, 2}] /\ random' = [random EXCEPT !.next = @ + 1]
      BY <1>2, <2>3 DEF Replays
    <3> HIDE DEF Values
    <3>2. random' \in [values : Values, next : {1, 2}]
      BY <2>3, <3>1
    <3> QED
      BY <3>2 DEF Values
  <2> QED
    BY <1>1, <1>2, <2>1, <2>4 DEF ShellInv
<1>3. CASE Poll(e) /\ UNCHANGED <<handle, random>>
  <2>1. SessionInv' /\ (ChallengeSent => ChallengeSent')
    BY <1>1, <1>3, PollKeepsInv, PollSendsOnce
  <2> QED
    BY <1>1, <1>3, <2>1 DEF ShellInv
<1>4. CASE /\ random # None /\ Draws(e) /\ random.next > Len(random.values)
           /\ handle' = "trapped" /\ UNCHANGED <<sessionVars, random>>
  <2>1. random.next = 1 /\ random \in [values : Seq(Seq(Byte)), next : {1, 2}]
    BY <1>1, <1>4, DrawIsFirst DEF ShellInv, ChallengeSent
  <2>2. random.values = <<>>
    BY <1>4, <2>1
  <2>3. SessionInv' /\ (ChallengeSent => ChallengeSent')
    BY <1>1, <1>4, StutterKeepsInv DEF sessionVars, v0200Vars, ChallengeSent
  <2> QED
    BY <1>4, <2>1, <2>2, <2>3 DEF ShellInv
<1> QED
  BY <1>2, <1>3, <1>4 DEF PollWith

\* One value is enough to replay an attempt, for every key, page and lock
\* (FixedRandom under the constructor and poll of mkey-wasm).
THEOREM ReplayNeedsOneValue == ShellSpec => []OneValueIsEnough
<1>1. ShellInit => ShellInv
  <2> SUFFICES ASSUME ShellInit PROVE ShellInv
    OBVIOUS
  <2>1. SessionInv /\ state = "Idle" /\ random = None /\ handle = "absent"
    BY InitInv DEF ShellInit, Init
  <2> QED
    BY <2>1 DEF ShellInv
<1>2. ShellInv /\ [ShellNext]_shellVars => ShellInv'
  <2> SUFFICES ASSUME ShellInv, [ShellNext]_shellVars PROVE ShellInv'
    OBVIOUS
  <2>1. CASE \E isKey \in BOOLEAN, js \in JsOptions : New(isKey, js)
    BY <2>1, NewKeepsInv
  <2>2. CASE \E e \in Events : PollWith(e)
    BY <2>2, EventsAreOK, PollWithKeepsInv
  <2>3. CASE \E id \in TimerIds : PollWith(Event("Timer", ParseTimerId(id)))
    <3>1. \A id : EventOK(Event("Timer", ParseTimerId(id)))
      BY DEF EventOK, Event
    <3> QED
      BY <2>3, <3>1, PollWithKeepsInv
  <2>4. CASE UNCHANGED <<sessionVars, handle, random>>
    <3>1. SessionInv'
      BY <2>4, StutterKeepsInv DEF ShellInv
    <3> QED
      BY <2>4, <3>1 DEF ShellInv, ChallengeSent, sessionVars, v0200Vars
  <2> QED
    BY <2>1, <2>2, <2>3, <2>4 DEF ShellNext, Timer, CallTrapped, Throw, shellVars
<1>3. ShellInv => OneValueIsEnough
  BY DEF ShellInv, OneValueIsEnough
<1> QED
  BY <1>1, <1>2, <1>3, PTL DEF ShellSpec
=============================================================================
