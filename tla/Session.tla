------------------------------ MODULE Session ------------------------------
(***************************************************************************)
(* One opening attempt as the pure state machine of                        *)
(* mkey-session/src/session.rs: the shell feeds it events, poll returns    *)
(* the actions the shell must apply in order.  Spec lets the shell feed    *)
(* any event at any time, as the browser shell can; Pump composes the      *)
(* session with the native shell.                                          *)
(*                                                                         *)
(* Log traces are left out, except the note that a kN read was refused.    *)
(*                                                                         *)
(* A notification is a byte string that either flow reads its own way.  It *)
(* stands here as the reading of the flow that will see it: for v0200 a    *)
(* packet of Ssp, for v0100 [prefix, size, op], where op is the byte after *)
(* the prefix.                                                             *)
(***************************************************************************)
EXTENDS Stack, OpResult

CONSTANTS TheKey,      \* the mobile key of the attempt
          Options,     \* the Options the shell may pass
          Randoms,     \* what the random source of RandomB can draw
          Packets0100, \* v0100 notifications the lock may send
          Bodies,      \* v0200 control payloads it may send
          Commands     \* v0200 commands it may send

OptionsType == [mode : {"Standard", "Office"},
                detection : {"AppProtocol", "ReadOnly", "None"},
                notifyReadable : BOOLEAN]

ASSUME SessionAssumption ==
  /\ Options \subseteq OptionsType
  /\ IsMobileKey(TheKey)
  /\ Kn(TheKey) \in Block
  /\ Randoms \subseteq Block
  /\ Packets0100 \subseteq [prefix : Byte \cup {None}, size : Nat, op : Byte]
  /\ Bodies \subseteq ControlType
  /\ Commands \subseteq CommandType

VARIABLES options,       \* Options: mode, detection, notifyReadable
          state,         \* State
          finished,      \* Done has been emitted
          stack,         \* V0200.stack
          firstPacket,   \* V0200.first_packet
          finalOpResult, \* V0200.final_op_result
          exchanging,    \* V0200.exchanging
          traced,        \* V0200.traced_kn_refusals
          step,          \* V0100.step
          actions,       \* what the last poll returned
          reported       \* history: every audit result the lock recorded

v0200Vars   == <<stack, firstPacket, finalOpResult, exchanging, traced, reported>>
sessionVars == <<options, state, finished, v0200Vars, step, actions>>

-----------------------------------------------------------------------------
(* Events and actions *)

Event(kind, arg) == [kind |-> kind, arg |-> arg]
Action(kind, arg) == [kind |-> kind, arg |-> arg]

\* The protocol info as read: its major version, or None when the bytes do
\* not have the expected shape.
ProtocolInfo(major) == [major |-> major]

Phase(p)    == Action("Phase", p)
SetTimer(t) == Action("SetTimer", t)
Write(p)    == Action("Write", p)

\* finish: the last phase, then Done.  The state is kept.
Finish(before, result) ==
  /\ finished' = TRUE
  /\ actions' = before \o <<Phase("Finished"), Action("Done", result)>>

\* unexpected: an event the contract rules out ends the session loudly.
Unexpected == Finish(<<>>, Err("Unexpected")) /\ UNCHANGED <<state, v0200Vars, step>>

Disconnected == Finish(<<>>, Err("Disconnected")) /\ UNCHANGED <<state, v0200Vars, step>>

-----------------------------------------------------------------------------
(* Starting one of the two flows *)

\* The copy of the key the v0200 flow works on carries the opening mode.
SessionKey(opts) ==
  IF opts.mode = "Office"
  THEN InsertTag(TheKey, TAG_OPENING_MODE,
                 Tag({"READABLE", "READ_WITHOUT_SECURITY"}, <<1>>))
  ELSE TheKey

BeginV0200(before) ==
  /\ state' = "V0200"
  /\ stack' = NewStack(SessionKey(options))
  /\ firstPacket' = TRUE
  /\ finalOpResult' = None
  /\ exchanging' = FALSE
  /\ traced' = 0
  /\ actions' = before \o <<SetTimer("FirstPacket")>>
  /\ UNCHANGED <<finished, step, reported>>

BeginV0100(before) ==
  /\ state' = "V0100"
  /\ step' = "AwaitingNonce"
  /\ actions' = before \o <<Write("Identify"), Action("Pause", None), SetTimer("FirstPacket")>>
  /\ UNCHANGED <<finished, v0200Vars>>

\* begin: an unknown version runs the v0200 flow.
Begin(before, major) ==
  LET subscribed == before \o <<Action("Subscribe", None), Phase("Authenticating")>>
  IN  \/ /\ major \notin {None, 1, 2}
         /\ Finish(before, Err("InvalidProtocolVersion"))
         /\ UNCHANGED <<state, v0200Vars, step>>
      \/ major = 1 /\ BeginV0100(subscribed)
      \/ major \in {None, 2} /\ BeginV0200(subscribed)

PollIdle(e) ==
  LET detecting == <<Phase("DetectingVersion")>>
      announce  == IF options.detection = "AppProtocol"
                   THEN <<Action("AnnounceAppProtocol", None)>> ELSE <<>>
      blind     == options.detection = "None" \/ ~options.notifyReadable
  IN  \/ e.kind = "Started" /\ blind /\ Begin(detecting, None)
      \/ /\ e.kind = "Started" /\ ~blind
         /\ state' = "Detecting"
         /\ actions' = detecting \o announce \o <<Action("ReadProtocolInfo", None)>>
         /\ UNCHANGED <<finished, v0200Vars, step>>
      \/ e.kind = "LinkClosed" /\ Disconnected
      \/ e.kind \notin {"Started", "LinkClosed"} /\ Unexpected

PollDetecting(e) ==
  \/ e.kind = "ProtocolInfo" /\ Begin(<<>>, IF e.arg = None THEN None ELSE e.arg.major)
  \/ e.kind = "LinkClosed" /\ Disconnected
  \/ e.kind \notin {"ProtocolInfo", "LinkClosed"} /\ Unexpected

-----------------------------------------------------------------------------
(* The v0200 flow *)

\* next_wait
NextWait(final, first) ==
  IF final # None THEN "AfterFinalResult"
  ELSE IF first THEN "FirstPacket" ELSE "Packet"

\* Mutant: a later final result replaces the first.
LatchLast(audit) == IF audit # None /\ IsFinal(audit) THEN audit ELSE finalOpResult

\* The first audit result whose group is accepted or rejected is kept.
Latch(audit) ==
  IF finalOpResult = None /\ audit # None /\ IsFinal(audit) THEN audit ELSE finalOpResult

\* The audit result this packet made Justin record, as a sequence of at most one.
Recorded(p, r) ==
  LET written == /\ r.err = None
                 /\ ~p.control
                 /\ p.body.op = "WriteTag"
                 /\ p.body.tag = TAG_AUDIT
                 /\ r.out.body.status = "Success"
  IN  IF written THEN <<p.body.data[1]>> ELSE <<>>

RejectPacket(r) ==
  /\ r.err # None
  /\ stack' = r.st
  /\ Finish(<<>>, Err(r.err))
  /\ UNCHANGED <<state, firstPacket, finalOpResult, exchanging, traced, reported, step>>

AnswerPacket(p, r) ==
  LET refusals == r.st.justin.refusals
      enters   == ~exchanging /\ r.st.ssp.state = "InSession"
      final    == Latch(r.st.justin.audit)
      answer   == (IF refusals > traced THEN <<Action("Note", "KnRefused")>> ELSE <<>>)
                  \o <<Write(r.out)>>
                  \o (IF enters THEN <<Phase("Exchanging")>> ELSE <<>>)
  IN  /\ r.err = None
      /\ stack' = r.st
      /\ traced' = IF refusals > traced THEN refusals ELSE traced
      /\ exchanging' = (exchanging \/ enters)
      /\ finalOpResult' = final
      /\ reported' = reported \o Recorded(p, r)
      /\ \/ /\ r.st.justin.state = "Ready"
            /\ Finish(answer, Ok(OutcomeOf(2, final)))
            /\ UNCHANGED firstPacket
         \/ /\ r.st.justin.state # "Ready"
            /\ firstPacket' = FALSE
            /\ actions' = answer \o <<SetTimer(NextWait(final, FALSE))>>
            /\ UNCHANGED finished
      /\ UNCHANGED <<state, step>>

\* Mutant: silence is an error whatever the lock has reported.
ExpireLoudly ==
  /\ Finish(<<>>, Err("Timeout"))
  /\ UNCHANGED <<state, v0200Vars, step>>

\* Mutant: the timer of a session past its handshake is ignored.
ExpireIgnored ==
  /\ actions' = <<>>
  /\ UNCHANGED <<state, finished, v0200Vars, step>>

\* A silent lock is an error only before it has reported a verdict.
Expire0200 ==
  /\ Finish(<<>>, IF finalOpResult # None THEN Ok(OutcomeOf(2, finalOpResult))
                                          ELSE Err("Timeout"))
  /\ UNCHANGED <<state, v0200Vars, step>>

\* Mutant: a dropped link reports the last result, not the latched one.
CloseWithLast ==
  /\ Finish(<<>>, Ok(OutcomeOf(2, stack.justin.audit)))
  /\ UNCHANGED <<state, v0200Vars, step>>

Close0200 ==
  /\ Finish(<<>>, Ok(OutcomeOf(2, finalOpResult)))
  /\ UNCHANGED <<state, v0200Vars, step>>

PollV0200(e) ==
  \/ /\ e.kind = "Notification"
     /\ \E randomB \in Randoms :
          LET r == HandlePacket(stack, e.arg, randomB)
          IN  RejectPacket(r) \/ AnswerPacket(e.arg, r)
  \/ e.kind = "Timer" /\ Expire0200
  \/ e.kind = "LinkClosed" /\ Close0200
  \/ e.kind \notin {"Notification", "Timer", "LinkClosed"} /\ Unexpected

-----------------------------------------------------------------------------
(* The v0100 flow *)

ExpectedPrefix == IF step = "AwaitingNonce" THEN 3 ELSE 5

\* Mutant: noise restarts the timer.
NoiseRearms(p) ==
  /\ p.prefix # ExpectedPrefix
  /\ actions' = <<SetTimer(IF step = "AwaitingNonce" THEN "FirstPacket" ELSE "Packet")>>
  /\ UNCHANGED <<state, finished, v0200Vars, step>>

\* Anything else is noise; the deadline keeps running.
IgnoreNoise(p) ==
  /\ p.prefix # ExpectedPrefix
  /\ actions' = <<>>
  /\ UNCHANGED <<state, finished, v0200Vars, step>>

SignNonce(p) ==
  /\ p.prefix = ExpectedPrefix /\ step = "AwaitingNonce"
  /\ \/ /\ p.size < 17
        /\ Finish(<<>>, Err("InvalidData"))
        /\ UNCHANGED step
     \/ /\ p.size >= 17
        /\ step' = "AwaitingResult"
        /\ actions' = <<Phase("Exchanging"), Write("SignedNonce"), SetTimer("Packet")>>
        /\ UNCHANGED finished
  /\ UNCHANGED <<state, v0200Vars>>

TakeResult(p) ==
  /\ p.prefix = ExpectedPrefix /\ step = "AwaitingResult"
  /\ Finish(<<>>, IF p.size < 2 THEN Err("InvalidData") ELSE Ok(OutcomeOf(1, p.op)))
  /\ UNCHANGED <<state, v0200Vars, step>>

PollV0100(e) ==
  \/ e.kind = "Notification" /\ (IgnoreNoise(e.arg) \/ SignNonce(e.arg) \/ TakeResult(e.arg))
  \/ /\ e.kind = "Timer"
     /\ Finish(<<>>, Err("Timeout"))
     /\ UNCHANGED <<state, v0200Vars, step>>
  \/ e.kind = "LinkClosed" /\ Disconnected
  \/ e.kind \notin {"Notification", "Timer", "LinkClosed"} /\ Unexpected

-----------------------------------------------------------------------------
(* poll *)

PollFinished == finished /\ actions' = <<>> /\ UNCHANGED <<state, finished, v0200Vars, step>>

Abort(e) ==
  /\ ~finished /\ e.kind = "Aborted"
  /\ Finish(<<>>, Err("Cancelled"))
  /\ UNCHANGED <<state, v0200Vars, step>>

\* Mutant: a finished session still handles what arrives.
DispatchAlways(e) ==
  /\ e.kind # "Aborted"
  /\ \/ state = "Idle" /\ PollIdle(e)
     \/ state = "Detecting" /\ PollDetecting(e)
     \/ state = "V0200" /\ PollV0200(e)
     \/ state = "V0100" /\ PollV0100(e)

Dispatch(e) ==
  /\ ~finished /\ e.kind # "Aborted"
  /\ \/ state = "Idle" /\ PollIdle(e)
     \/ state = "Detecting" /\ PollDetecting(e)
     \/ state = "V0200" /\ PollV0200(e)
     \/ state = "V0100" /\ PollV0100(e)

Poll(e) == (PollFinished \/ Abort(e) \/ Dispatch(e)) /\ UNCHANGED options

-----------------------------------------------------------------------------
(* The lock, as far as the session can tell.  A sealed packet either opens  *)
(* under the phone's current key and IV or it does not; which wrong key or  *)
(* IV it was sealed with makes no difference to the phone.                  *)

Packets0200 ==
  LET Opening(control, body) == Sealed(control, body, CurrentKey(stack.ssp), stack.ssp.iv)
  IN  {Malformed("short", FALSE)}
      \cup {Malformed("misaligned", control) : control \in BOOLEAN}
      \cup {Plain(TRUE, b) : b \in Bodies}   \cup {Plain(FALSE, c) : c \in Commands}
      \cup {Opening(TRUE, b) : b \in Bodies} \cup {Opening(FALSE, c) : c \in Commands}
      \cup {Sealed(FALSE, c, None, stack.ssp.iv) : c \in Commands}

Packets == IF state = "V0100" THEN Packets0100 ELSE Packets0200

\* What a read of the protocol info can bring: nothing, bytes of another
\* shape, or a major version.
Infos == {None, ProtocolInfo(None)} \cup {ProtocolInfo(m) : m \in 0..3}

Timers == {"FirstPacket", "Packet", "AfterFinalResult"}

Events == {Event(k, None) : k \in {"Started", "LinkClosed", "Aborted"}}
          \cup {Event("ProtocolInfo", i) : i \in Infos}
          \cup {Event("Notification", p) : p \in Packets}
          \cup {Event("Timer", t) : t \in Timers}

\* Session::new.  The V0200 and V0100 fields do not exist yet; they hold what
\* the flow that needs them will write first.
Init ==
  /\ options \in Options
  /\ state = "Idle"
  /\ finished = FALSE
  /\ stack = NewStack(SessionKey(options))
  /\ firstPacket = TRUE
  /\ finalOpResult = None
  /\ exchanging = FALSE
  /\ traced = 0
  /\ step = "AwaitingNonce"
  /\ actions = <<>>
  /\ reported = <<>>

Next == \E e \in Events : Poll(e)

Spec == Init /\ [][Next]_sessionVars

-----------------------------------------------------------------------------
(* What makes the session correct *)

\* Every variable has the type of its Rust field.
TypeOK ==
  /\ options \in Options
  /\ state \in {"Idle", "Detecting", "V0200", "V0100"}
  /\ finished \in BOOLEAN
  /\ stack \in [ssp : {stack.ssp}, justin : {stack.justin}]
  /\ SspTypeOK(stack.ssp)
  /\ JustinTypeOK(stack.justin)
  /\ firstPacket \in BOOLEAN
  /\ finalOpResult \in Byte \cup {None}
  /\ exchanging \in BOOLEAN
  /\ traced \in Nat
  /\ step \in {"AwaitingNonce", "AwaitingResult"}
  /\ reported \in Seq(Byte)

\* The results Done has just handed over.
Delivered == {actions[i].arg : i \in {j \in DOMAIN actions : actions[j].kind = "Done"}}

\* The latched result is the first final one the lock recorded in the audit
\* tag: later audit writes never replace it, earlier non-final ones never
\* take its place, and it is not missed whichever packet carried it.
LatchedIsFirstFinal ==
  IF finalOpResult = None
  THEN \A i \in DOMAIN reported : ~IsFinal(reported[i])
  ELSE \E i \in DOMAIN reported :
         /\ reported[i] = finalOpResult
         /\ IsFinal(reported[i])
         /\ \A j \in 1..(i - 1) : ~IsFinal(reported[j])

\* A v0200 attempt that ends without an error reports the latched verdict,
\* however it ended (CLOSE, silence, a dropped link), and a verdict once
\* latched is never answered with a timeout or a disconnect error.
VerdictDelivered ==
  \A r \in Delivered :
    /\ r.err = None /\ r.outcome.version = 2 => r.outcome.op = finalOpResult
    /\ finalOpResult # None => r.err \notin {"Timeout", "Disconnected"}

\* Phase Exchanging, and a session key, exist only after the handshake is
\* complete, and the challenge that was checked is still at hand.
ExchangingIsAuthenticated ==
  /\ exchanging => stack.ssp.state = "InSession"
  /\ (stack.ssp.state = "InSession") <=> (stack.ssp.sessionKey # None)
  /\ stack.ssp.state # "Ready" => stack.ssp.randomB # None

\* The audit result Justin remembers is the last one recorded.
AuditIsLastReported ==
  IF reported = <<>> THEN stack.justin.audit = None
                     ELSE stack.justin.audit = reported[Len(reported)]

\* Only the v0200 flow opens a secure session or records results.
NothingBeforeV0200 ==
  state # "V0200" => reported = <<>> /\ stack.ssp.state = "Ready"

\* The inductive invariant: the types, the handshake, and the verdict with
\* what makes it inductive.
SessionInv ==
  /\ TypeOK
  /\ ExchangingIsAuthenticated
  /\ AuditIsLastReported
  /\ LatchedIsFirstFinal
  /\ NothingBeforeV0200

\* What the next property takes for granted of the instance: the sixteen bytes
\* of kN are in no other tag of the key, and the lock writes them into none.
KnIsUnique ==
  /\ \A id \in {0, 1} : TheKey.fixed[id] # Kn(TheKey)
  /\ \A id \in DOMAIN TheKey.tags : TheKey.tags[id].data # Kn(TheKey)
  /\ \A c \in Commands : c.data # Kn(TheKey)

\* The pre-shared key leaves the phone only as the reply to a sealed request,
\* sealed itself under the session key.
KnOnlySealed ==
  \A i \in DOMAIN actions :
    LET p == actions[i].arg IN
    /\ actions[i].kind = "Write" /\ state = "V0200"
    /\ ~p.control /\ p.body.data = Kn(TheKey)
    => p.form = "sealed" /\ p.key = stack.ssp.sessionKey

\* Once Done has been emitted, a late event (a timer that was already due, a
\* queued notification, the link going down) is answered with nothing and
\* changes nothing.
SilentOnceDone ==
  [][finished => /\ actions' = <<>>
                 /\ UNCHANGED <<options, state, finished, v0200Vars, step>>]_sessionVars

\* An established session is never torn down or re-keyed back to kN within
\* an attempt: a second handshake, a failed packet or a plain command leaves
\* the phone in session.
NeverBackToKn ==
  [][stack.ssp.state = "InSession" => /\ stack'.ssp.state = "InSession"
                                      /\ CurrentKey(stack'.ssp) = stack'.ssp.sessionKey]_sessionVars
=============================================================================
