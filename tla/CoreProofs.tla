----------------------------- MODULE CoreProofs -----------------------------
(***************************************************************************)
(* Lemmas about mkey-core's operators, which keep no state of their own:   *)
(* what one notification can do to the phone's stack, for every key, every *)
(* packet and every random; induction over numbers and over a fold; the    *)
(* padding; and the fields a key is stored as.                             *)
(***************************************************************************)
EXTENDS Stack, Padding, Tlv, SequencesExt, SequenceTheorems, FiniteSetTheorems,
        WellFoundedInduction, TLAPS

\* The handshake invariant of the SSP layer on its own.
SspInv(s) ==
  /\ SspTypeOK(s)
  /\ (s.state = "InSession") <=> (s.sessionKey # None)
  /\ s.state # "Ready" => s.randomB # None

\* A session, once open, stays open.
StaysOpen(s, t) == s.state = "InSession" => t.state = "InSession"

\* Ok and Err are told apart: no error is None.
LEMMA ErrorsAreNotNone == \A e \in ErrorCode : e # None
  BY NoneAssumption

\* The derived session key is a block: derive_session_key fills all 16 bytes.
LEMMA DerivedKeyIsBlock ==
  ASSUME NEW a \in Block, NEW b \in Block
  PROVE  DeriveSessionKey(a, b) \in Block
<1> SUFFICES ASSUME NEW i \in 1..16 PROVE DeriveSessionKey(a, b)[i] \in Byte
  BY DEF DeriveSessionKey, Block
<1>1. CASE i \in 1..4   BY <1>1 DEF DeriveSessionKey, Block
<1>2. CASE i \in 5..8   BY <1>2 DEF DeriveSessionKey, Block
<1>3. CASE i \in 9..12  BY <1>3 DEF DeriveSessionKey, Block
<1>4. CASE i \in 13..16 BY <1>4 DEF DeriveSessionKey, Block
<1> QED BY <1>1, <1>2, <1>3, <1>4

\* The rotated challenge is a block again.
LEMMA RotatedIsBlock ==
  ASSUME NEW b \in Block
  PROVE  RotateRight(b) \in Block
  BY DEF RotateRight, Block

\* Moving the IV touches nothing the invariant looks at.
LEMMA MovedIv ==
  ASSUME NEW s, SspTypeOK(s), NEW v
  PROVE  LET t == [s EXCEPT !.iv = v] IN
         /\ SspTypeOK(t)
         /\ t.state = s.state /\ t.sessionKey = s.sessionKey /\ t.randomB = s.randomB
<1> DEFINE t == [s EXCEPT !.iv = v]
<1>1. SspTypeOK(t)
  BY DEF SspTypeOK
<1>2. t.state = s.state /\ t.sessionKey = s.sessionKey /\ t.randomB = s.randomB
  BY DEF SspTypeOK
<1> QED BY <1>1, <1>2

\* Opening a sealed packet moves the IV at most, whether or not it succeeds.
LEMMA UnsealKeepsState ==
  ASSUME NEW s, SspInv(s), NEW p
  PROVE  /\ SspInv(Unseal(s, p).st)
         /\ Unseal(s, p).st.state = s.state
         /\ Unseal(s, p).err = None => Unseal(s, p).out = p.body
<1> DEFINE moved == [s EXCEPT !.iv = LastBlock(p.key, p.iv, p.body)]
<1>1. SspInv(moved) /\ moved.state = s.state
  BY MovedIv DEF SspInv
<1> HIDE DEF moved
<1>2. Unseal(s, p) \in {Fail(s, "InvalidData"), Succeed(moved, p.body), Fail(moved, "InvalidCrc")}
  BY DEF Unseal, moved
<1> QED BY <1>1, <1>2, ErrorsAreNotNone DEF Succeed, Fail, ErrorCode

\* A first step is answered once, from Ready, and never inside a session.
LEMMA Step1KeepsInv ==
  ASSUME NEW s, SspInv(s), NEW sealed, NEW randomB \in Block
  PROVE  LET r == HandleOpenSessionStep1(s, sealed, randomB)
         IN  SspInv(r.st) /\ StaysOpen(s, r.st)
<1> DEFINE r == HandleOpenSessionStep1(s, sealed, randomB)
           drawn == [s EXCEPT !.randomB = randomB]
           body == Control("OpenSessionStep1", randomB, None)
           moved == [drawn EXCEPT !.iv = LastBlock(CurrentKey(drawn), drawn.iv, body)]
           done == [moved EXCEPT !.state = "AuthStep1"]
<1>1. CASE sealed \/ s.state # "Ready"
  BY <1>1 DEF HandleOpenSessionStep1, Fail, StaysOpen
<1>2. CASE ~sealed /\ s.state = "Ready"
  <2>1. SspTypeOK(drawn) /\ drawn.sessionKey = None /\ drawn.randomB = randomB
    BY <1>2 DEF SspInv, SspTypeOK
  <2>2. SspTypeOK(moved) /\ moved.sessionKey = None /\ moved.randomB = randomB
    BY <2>1, MovedIv
  <2>3. SspTypeOK(done)
    BY <2>2 DEF SspTypeOK
  <2>4. done.state = "AuthStep1" /\ done.sessionKey = None /\ done.randomB = randomB
    BY <2>2 DEF SspTypeOK
  <2>5. SspInv(done)
    BY <2>3, <2>4, NoneAssumption DEF SspInv
  <2>6. r.st = done
    BY <1>2 DEF HandleOpenSessionStep1, Seal, Succeed
  <2> QED BY <1>2, <2>5, <2>6 DEF StaysOpen
<1> QED BY <1>1, <1>2

\* A second step opens the session under a key derived from both randoms, or
\* fails and leaves the session closed.
LEMMA Step2KeepsInv ==
  ASSUME NEW s, SspInv(s), NEW c \in ControlType, NEW sealed
  PROVE  LET r == HandleOpenSessionStep2(s, c, sealed)
         IN  SspInv(r.st) /\ StaysOpen(s, r.st)
<1> DEFINE r == HandleOpenSessionStep2(s, c, sealed)
           heard == [s EXCEPT !.randomA = c.a]
           body == Control("OpenSessionStep2", RotateRight(c.a), None)
           moved == [heard EXCEPT !.iv = LastBlock(CurrentKey(heard), heard.iv, body)]
           key == DeriveSessionKey(c.a, s.randomB)
           keyed == [moved EXCEPT !.sessionKey = key]
           done == [keyed EXCEPT !.state = "InSession"]
           closed == [s EXCEPT !.state = "Ready"]
<1>1. CASE ~sealed \/ s.state # "AuthStep1" \/ c.a = None \/ c.b = None
  BY <1>1 DEF HandleOpenSessionStep2, Fail, StaysOpen
<1>2. CASE sealed /\ s.state = "AuthStep1" /\ c.a # None /\ c.b # None
  <2>1. s.randomB # None /\ s.randomB \in Block /\ c.a \in Block /\ s.sessionKey = None
    BY <1>2 DEF SspInv, SspTypeOK, ControlType
  <2>2. CASE c.b # RotateRight(s.randomB)
    <3>1. SspInv(closed)
      BY <1>2, <2>1 DEF SspInv, SspTypeOK
    <3>2. r.st = closed
      BY <1>2, <2>1, <2>2 DEF HandleOpenSessionStep2, Fail
    <3> QED BY <1>2, <3>1, <3>2 DEF StaysOpen
  <2>3. CASE c.b = RotateRight(s.randomB)
    <3>1. key \in Block /\ key # None
      BY <2>1, DerivedKeyIsBlock, NoneAssumption
    <3>2. SspTypeOK(heard) /\ heard.randomB = s.randomB
      BY DEF SspInv, SspTypeOK
    <3>3. SspTypeOK(moved) /\ moved.randomB = s.randomB
      BY <3>2, MovedIv
    <3> HIDE DEF moved, key
    <3>4. SspTypeOK(keyed) /\ keyed.randomB = s.randomB /\ keyed.sessionKey = key
      BY <3>1, <3>3 DEF SspTypeOK
    <3>5. SspTypeOK(done) /\ done.randomB = s.randomB
          /\ done.sessionKey = key /\ done.state = "InSession"
      BY <3>4 DEF SspTypeOK
    <3>6. SspInv(done)
      BY <2>1, <3>1, <3>5 DEF SspInv
    <3>7. r.st = done
      BY <1>2, <2>1, <2>3 DEF HandleOpenSessionStep2, Seal, Succeed, moved, key
    <3> QED BY <3>5, <3>6, <3>7 DEF StaysOpen
  <2> QED BY <2>2, <2>3
<1> QED BY <1>1, <1>2

\* Installing a key needs an open session and keeps it open.
LEMMA SetKeyKeepsInv ==
  ASSUME NEW s, SspInv(s), NEW c \in ControlType
  PROVE  LET r == HandleSetKeyValue(s, c)
         IN  SspInv(r.st) /\ StaysOpen(s, r.st)
<1> DEFINE r == HandleSetKeyValue(s, c)
           keyed == [s EXCEPT !.sessionKey = c.a]
           body == Control("SetKeyValue", None, None)
           moved == [keyed EXCEPT !.iv = LastBlock(CurrentKey(keyed), keyed.iv, body)]
<1>1. CASE s.state # "InSession" \/ c.a = None
  BY <1>1 DEF HandleSetKeyValue, Fail, StaysOpen
<1>2. CASE s.state = "InSession" /\ c.a # None
  <2>1. SspTypeOK(keyed) /\ keyed.state = "InSession"
        /\ keyed.sessionKey # None /\ keyed.randomB # None
    BY <1>2 DEF SspInv, SspTypeOK, ControlType
  <2>2. SspInv(moved) /\ moved.state = "InSession"
    BY <2>1, MovedIv DEF SspInv
  <2>3. r.st = moved
    BY <1>2 DEF HandleSetKeyValue, Seal, Succeed
  <2> QED BY <2>2, <2>3 DEF StaysOpen
<1> QED BY <1>1, <1>2

\* Every control packet keeps the handshake invariant.
LEMMA ControlKeepsInv ==
  ASSUME NEW s, SspInv(s), NEW c \in ControlType, NEW sealed, NEW randomB \in Block
  PROVE  LET r == ProcessControlPacket(s, c, sealed, randomB)
         IN  SspInv(r.st) /\ StaysOpen(s, r.st)
<1> DEFINE r == ProcessControlPacket(s, c, sealed, randomB)
<1>1. CASE c.op = "OpenSessionStep1"
  BY <1>1, Step1KeepsInv DEF ProcessControlPacket
<1>2. CASE c.op = "OpenSessionStep2"
  BY <1>2, Step2KeepsInv DEF ProcessControlPacket
<1>3. CASE c.op = "SetKeyValue"
  BY <1>3, SetKeyKeepsInv DEF ProcessControlPacket
<1>4. CASE c.op = "GetVersion"
  BY <1>4 DEF ProcessControlPacket, HandleGetVersion, Succeed, StaysOpen
<1>5. CASE c.op \notin {"OpenSessionStep1", "OpenSessionStep2", "SetKeyValue", "GetVersion"}
  BY <1>5 DEF ProcessControlPacket, Fail, StaysOpen
<1> QED BY <1>1, <1>2, <1>3, <1>4, <1>5

\* Every packet keeps the handshake invariant, and application data is
\* handed on only inside an open session, as it was sealed.
LEMMA PacketKeepsInv ==
  ASSUME NEW s, SspInv(s), NEW p, PacketOK(p), NEW randomB \in Block
  PROVE  LET r == ProcessPacket(s, p, randomB)
         IN  /\ SspInv(r.st) /\ StaysOpen(s, r.st)
             /\ ~p.control /\ r.err = None => r.st.state = "InSession" /\ r.out = p.body
<1> DEFINE r == ProcessPacket(s, p, randomB)
           opened == IF p.form = "plain" THEN Succeed(s, p.body) ELSE Unseal(s, p)
<1> SUFFICES /\ SspInv(r.st) /\ StaysOpen(s, r.st)
             /\ ~p.control /\ r.err = None => r.st.state = "InSession" /\ r.out = p.body
  OBVIOUS
<1>1. SspInv(opened.st) /\ opened.st.state = s.state
      /\ (opened.err = None => opened.out = p.body)
  BY UnsealKeepsState DEF Succeed
<1>2. opened.err = None /\ p.form # "short" => p.form \notin {"short", "misaligned"}
  BY ErrorsAreNotNone DEF Unseal, Fail, ErrorCode
<1>3. CASE p.form = "short" \/ opened.err # None
  BY <1>1, <1>3, ErrorsAreNotNone DEF ProcessPacket, Fail, StaysOpen, ErrorCode
<1>4. CASE p.form # "short" /\ opened.err = None /\ p.control
  <2>1. opened.out \in ControlType
    BY <1>1, <1>2, <1>4 DEF PacketOK
  <2>2. r = ProcessControlPacket(opened.st, opened.out, p.form # "plain", randomB)
    BY <1>4 DEF ProcessPacket
  <2> HIDE DEF opened, r
  <2> QED BY <1>1, <1>4, <2>1, <2>2, ControlKeepsInv DEF StaysOpen
<1>5. CASE p.form # "short" /\ opened.err = None /\ ~p.control
  <2>1. r = ProcessDataPacket(opened.st, opened.out)
    BY <1>5 DEF ProcessPacket
  <2> HIDE DEF opened, r
  <2> QED BY <1>1, <1>5, <2>1, ErrorsAreNotNone
          DEF ProcessDataPacket, Succeed, Fail, StaysOpen, ErrorCode
<1> QED BY <1>3, <1>4, <1>5

\* Application data draws no random.
LEMMA DataKeepsInv ==
  ASSUME NEW s, SspInv(s), NEW p, PacketOK(p), ~p.control
  PROVE  LET r == ProcessPacket(s, p, None)
         IN  /\ SspInv(r.st) /\ StaysOpen(s, r.st)
             /\ r.err = None => r.st.state = "InSession" /\ r.out = p.body
<1> DEFINE zero == [i \in 1..16 |-> 0]
<1>1. zero \in Block
  BY DEF Block, Byte
<1>2. ProcessPacket(s, p, None) = ProcessPacket(s, p, zero)
  BY DEF ProcessPacket
<1> HIDE DEF zero
<1> QED BY <1>1, <1>2, PacketKeepsInv

\* Inside an open session a reply can always be sealed.
LEMMA WrapNeverFails ==
  ASSUME NEW s, SspInv(s), s.state = "InSession", NEW body
  PROVE  LET r == WrapData(s, body)
         IN  /\ SspInv(r.st) /\ StaysOpen(s, r.st) /\ r.err = None
             /\ r.out.body = body
<1> DEFINE moved == [s EXCEPT !.iv = LastBlock(CurrentKey(s), s.iv, body)]
<1>1. WrapData(s, body) = Succeed(moved, Sealed(FALSE, body, CurrentKey(s), s.iv))
  BY DEF WrapData, Seal
<1>2. SspInv(moved) /\ moved.state = "InSession"
  BY MovedIv DEF SspInv
<1> HIDE DEF moved
<1> QED BY <1>1, <1>2 DEF Succeed, Sealed, StaysOpen

-----------------------------------------------------------------------------
(* Justin *)

\* A command that recorded a result: the audit tag was written.
WroteAudit(c, r) ==
  /\ c.op = "WriteTag" /\ c.tag = TAG_AUDIT
  /\ r.err = None /\ r.out.status = "Success"

\* The audit result is the byte just written, or what it was.
AuditMoves(wrote, new, old, audit) ==
  IF wrote THEN audit = new /\ new \in Byte ELSE audit = old

AuditFollows(j, c, r) == AuditMoves(WroteAudit(c, r), c.data[1], j.audit, r.st.audit)

\* A refusal, and a success without a write, change nothing.
LEMMA RespondKeepsAudit ==
  ASSUME NEW j, JustinTypeOK(j), NEW c, c.op # "WriteTag", NEW status, NEW data
  PROVE  LET r == Respond(j, status, data)
         IN  JustinTypeOK(r.st) /\ AuditFollows(j, c, r)
  BY DEF Respond, AuditFollows, AuditMoves, WroteAudit

\* OPEN with the session's empty key store, and CLOSE.
LEMMA OpenCloseKeepAudit ==
  ASSUME NEW j, JustinTypeOK(j), NEW c, c.op # "WriteTag"
  PROVE  /\ LET r == HandleOpen(j, NoopKeyStore, c)
            IN  JustinTypeOK(r.st) /\ AuditFollows(j, c, r)
         /\ LET r == HandleClose(j)
            IN  JustinTypeOK(r.st) /\ AuditFollows(j, c, r)
<1>1. LET r == HandleOpen(j, NoopKeyStore, c)
      IN  JustinTypeOK(r.st) /\ AuditFollows(j, c, r)
  BY RespondKeepsAudit DEF HandleOpen, Refuse, NoopKeyStore
<1>2. LET r == HandleClose(j)
      IN  JustinTypeOK(r.st) /\ AuditFollows(j, c, r)
  <2> DEFINE closed == [j EXCEPT !.state = "Ready"]
  <2>1. JustinTypeOK(closed) /\ closed.audit = j.audit
    BY DEF JustinTypeOK
  <2>2. HandleClose(j) \in {Refuse(j, "GenericError"), Refuse(closed, "Success")}
    BY DEF HandleClose
  <2> HIDE DEF closed
  <2> QED BY <2>1, <2>2 DEF Refuse, Respond, AuditFollows, AuditMoves, WroteAudit
<1> QED BY <1>1, <1>2

\* READ_TAG counts a refused read of kN and changes nothing else.
LEMMA ReadKeepsAudit ==
  ASSUME NEW j, JustinTypeOK(j), NEW c, c.op # "WriteTag"
  PROVE  LET r == HandleReadTag(j, c)
         IN  JustinTypeOK(r.st) /\ AuditFollows(j, c, r)
<1> DEFINE counted == [j EXCEPT !.refusals = @ + 1]
           r == HandleReadTag(j, c)
<1>1. JustinTypeOK(counted) /\ counted.audit = j.audit
  BY DEF JustinTypeOK
<1>2. r.st \in {j, counted}
  BY DEF HandleReadTag, Refuse, Respond
<1> HIDE DEF counted
<1> QED BY <1>1, <1>2 DEF AuditFollows, AuditMoves, WroteAudit

\* WRITE_TAG records the first byte of a result exactly when it answers with
\* success to a write of the audit tag.
LEMMA WriteRecordsAudit ==
  ASSUME NEW j, JustinTypeOK(j), NEW c \in CommandType, c.op = "WriteTag"
  PROVE  LET r == HandleWriteTag(j, c)
         IN  JustinTypeOK(r.st) /\ AuditFollows(j, c, r)
<1> DEFINE r == HandleWriteTag(j, c)
           op == IF c.tag = TAG_AUDIT THEN c.data[1] ELSE j.audit
           written == [j EXCEPT !.key = SetTagData(@, c.tag, c.data), !.audit = op]
<1>1. CASE c.data = None
  BY <1>1 DEF HandleWriteTag, Refuse, Respond, AuditFollows, AuditMoves, WroteAudit
<1>2. CASE c.data # None
  <2>1. c.data[1] \in Byte
    BY <1>2 DEF CommandType
  <2>2. JustinTypeOK(written) /\ written.audit = op
    BY <2>1 DEF JustinTypeOK
  <2>3. \/ r = Refuse(j, "GenericError") \/ r = Refuse(j, "NotFound")
        \/ r = Refuse(written, "Success")
    BY DEF HandleWriteTag, JustinTypeOK
  <2> HIDE DEF written
  <2> QED BY <1>2, <2>1, <2>2, <2>3 DEF Refuse, Respond, AuditFollows, AuditMoves, WroteAudit
<1> QED BY <1>1, <1>2

\* Every command keeps the types, answers with a status unless it is an
\* error, and records a result as WRITE_TAG does.
LEMMA CommandKeepsAudit ==
  ASSUME NEW j, JustinTypeOK(j), NEW c \in CommandType
  PROVE  LET r == ProcessCommand(j, NoopKeyStore, c)
         IN  JustinTypeOK(r.st) /\ AuditFollows(j, c, r)
<1>1. CASE c.op = "Open"
  BY <1>1, OpenCloseKeepAudit DEF ProcessCommand
<1>2. CASE c.op = "Close"
  BY <1>2, OpenCloseKeepAudit DEF ProcessCommand
<1>3. CASE c.op = "ReadTag"
  BY <1>3, ReadKeepsAudit DEF ProcessCommand
<1>4. CASE c.op = "WriteTag"
  BY <1>4, WriteRecordsAudit DEF ProcessCommand
<1>5. CASE c.op \notin {"Open", "Close", "ReadTag", "WriteTag"}
  BY <1>5 DEF ProcessCommand, AuditFollows, AuditMoves, WroteAudit
<1> QED BY <1>1, <1>2, <1>3, <1>4, <1>5

-----------------------------------------------------------------------------
(* The stack *)

StackOK(k) ==
  /\ k \in [ssp : {k.ssp}, justin : {k.justin}]
  /\ SspInv(k.ssp)
  /\ JustinTypeOK(k.justin)

\* The packet made Justin record a result.
Wrote(p, r) ==
  /\ r.err = None /\ ~p.control
  /\ p.body.op = "WriteTag" /\ p.body.tag = TAG_AUDIT
  /\ r.out.body.status = "Success"

\* What any packet leaves behind: a well-formed stack, an open session still
\* open, and the audit result moved exactly by a successful audit write.
GoodStep(k, p, r) ==
  /\ StackOK(r.st)
  /\ StaysOpen(k.ssp, r.st.ssp)
  /\ AuditMoves(Wrote(p, r), p.body.data[1], k.justin.audit, r.st.justin.audit)

\* The per-packet secure flag is set for the command and put back after it.
LEMMA JustinStep ==
  ASSUME NEW k, StackOK(k), NEW c \in CommandType, NEW secure \in BOOLEAN
  PROVE  LET r == ProcessJustin(k, c, secure)
         IN  /\ StackOK(r.st)
             /\ r.st.ssp = k.ssp
             /\ AuditMoves(WroteAudit(c, r), c.data[1], k.justin.audit, r.st.justin.audit)
<1> DEFINE flagged == [k.justin EXCEPT !.secure = secure]
           q == ProcessCommand(flagged, NoopKeyStore, c)
           back == [q.st EXCEPT !.secure = k.justin.secure]
           st == [k EXCEPT !.justin = back]
           r == ProcessJustin(k, c, secure)
<1>1. JustinTypeOK(flagged) /\ flagged.audit = k.justin.audit
  BY DEF StackOK, JustinTypeOK
<1> HIDE DEF flagged
<1>2. JustinTypeOK(q.st) /\ AuditFollows(flagged, c, q)
  BY <1>1, CommandKeepsAudit
<1>3. r = [st |-> st, err |-> q.err, out |-> q.out]
  BY DEF ProcessJustin, flagged
<1> HIDE DEF q
<1>4. JustinTypeOK(back) /\ back.audit = q.st.audit
  BY <1>2 DEF StackOK, JustinTypeOK
<1> HIDE DEF back
<1>5. StackOK(st) /\ st.ssp = k.ssp /\ st.justin = back
  BY <1>4 DEF StackOK
<1>6. r.st = st /\ r.err = q.err /\ r.out = q.out
  BY <1>3
<1> HIDE DEF st, r
<1>7. AuditMoves(WroteAudit(c, r), c.data[1], k.justin.audit, st.justin.audit)
  BY <1>1, <1>2, <1>4, <1>5, <1>6 DEF AuditFollows, AuditMoves, WroteAudit
<1> QED BY <1>5, <1>6, <1>7 DEF r

\* An SSP call on its own touches nothing of Justin.
LEMMA SspStep ==
  ASSUME NEW k, StackOK(k), NEW r, SspInv(r.st), StaysOpen(k.ssp, r.st)
  PROVE  LET t == WithSsp(k, r)
         IN  /\ StackOK(t.st) /\ StaysOpen(k.ssp, t.st.ssp) /\ t.st.ssp = r.st
             /\ t.st.justin = k.justin /\ t.err = r.err /\ t.out = r.out
  BY DEF WithSsp, StackOK

\* A control packet is SSP's alone.
LEMMA ControlStep ==
  ASSUME NEW k, StackOK(k), NEW p, PacketOK(p), p.control, NEW randomB \in Block
  PROVE  GoodStep(k, p, WithSsp(k, ProcessPacket(k.ssp, p, randomB)))
<1> DEFINE q == ProcessPacket(k.ssp, p, randomB)
           t == WithSsp(k, q)
<1>1. SspInv(q.st) /\ StaysOpen(k.ssp, q.st)
  BY PacketKeepsInv DEF StackOK
<1>2. StackOK(t.st) /\ StaysOpen(k.ssp, t.st.ssp) /\ t.st.justin = k.justin
  BY <1>1, SspStep
<1> QED BY <1>2 DEF GoodStep, AuditMoves, Wrote

\* A plain command never reaches SSP, so it leaves the session as it was.
LEMMA PlainStep ==
  ASSUME NEW k, StackOK(k), NEW p, PacketOK(p), ~p.control, p.form = "plain"
  PROVE  GoodStep(k, p, HandlePlainData(k, p))
<1> DEFINE q == ProcessJustin(k, p.body, FALSE)
<1>1. p.body \in CommandType
  BY DEF PacketOK
<1>2. /\ StackOK(q.st) /\ q.st.ssp = k.ssp
      /\ AuditMoves(WroteAudit(p.body, q), p.body.data[1], k.justin.audit, q.st.justin.audit)
  BY <1>1, JustinStep
<1>3. HandlePlainData(k, p) = IF q.err # None THEN q ELSE [q EXCEPT !.out = Plain(FALSE, q.out)]
  BY DEF HandlePlainData
<1>4. q = [st |-> q.st, err |-> q.err, out |-> q.out]
  BY DEF ProcessJustin
<1> HIDE DEF q
<1>5. CASE q.err # None
  BY <1>2, <1>3, <1>5 DEF GoodStep, AuditMoves, Wrote, WroteAudit, StaysOpen
<1>6. CASE q.err = None
  <2> DEFINE t == [q EXCEPT !.out = Plain(FALSE, q.out)]
  <2>1. t.st = q.st /\ t.err = q.err /\ t.out.body = q.out
    BY <1>4 DEF Plain
  <2>2. HandlePlainData(k, p) = t
    BY <1>3, <1>6
  <2> HIDE DEF t
  <2> QED BY <1>2, <1>6, <2>1, <2>2 DEF GoodStep, AuditMoves, Wrote, WroteAudit, StaysOpen
<1> QED BY <1>5, <1>6

\* A sealed command is opened, handled and answered sealed.  Once a command
\* was handled the reply cannot fail, so no recorded result is lost here.
LEMMA EncryptedStep ==
  ASSUME NEW k, StackOK(k), NEW p, PacketOK(p), ~p.control, p.form # "short"
  PROVE  GoodStep(k, p, HandleEncryptedData(k, p))
<1> DEFINE q == ProcessPacket(k.ssp, p, None)
           opened == WithSsp(k, q)
           handled == ProcessJustin(opened.st, opened.out, TRUE)
           w == WrapData(handled.st.ssp, handled.out)
           r == HandleEncryptedData(k, p)
<1> SUFFICES GoodStep(k, p, r)
  OBVIOUS
<1>1. /\ SspInv(q.st) /\ StaysOpen(k.ssp, q.st)
      /\ q.err = None => q.st.state = "InSession" /\ q.out = p.body
  BY DataKeepsInv DEF StackOK
<1>2. /\ StackOK(opened.st) /\ StaysOpen(k.ssp, opened.st.ssp) /\ opened.st.ssp = q.st
      /\ opened.st.justin = k.justin /\ opened.err = q.err /\ opened.out = q.out
  BY <1>1, SspStep
<1>3. r = IF opened.err # None THEN opened
          ELSE IF handled.err # None THEN handled ELSE WithSsp(handled.st, w)
  BY DEF HandleEncryptedData
<1>4. opened.err = None => p.form \notin {"short", "misaligned"}
  BY ErrorsAreNotNone DEF WithSsp, ProcessPacket, Unseal, Fail, ErrorCode
<1> HIDE DEF opened, q, r
<1>5. CASE opened.err # None
  BY <1>2, <1>3, <1>5 DEF GoodStep, AuditMoves, Wrote
<1>6. CASE opened.err = None
  <2>1. opened.out = p.body /\ p.body \in CommandType /\ opened.st.ssp.state = "InSession"
    BY <1>1, <1>2, <1>4, <1>6 DEF PacketOK
  <2>2. /\ StackOK(handled.st) /\ handled.st.ssp = opened.st.ssp
        /\ AuditMoves(WroteAudit(p.body, handled), p.body.data[1],
                      k.justin.audit, handled.st.justin.audit)
    <3>1. opened.out \in CommandType /\ StackOK(opened.st)
      BY <1>2, <2>1
    <3>2. /\ StackOK(handled.st) /\ handled.st.ssp = opened.st.ssp
          /\ AuditMoves(WroteAudit(opened.out, handled), opened.out.data[1],
                        opened.st.justin.audit, handled.st.justin.audit)
      BY <3>1, JustinStep
    <3> QED BY <1>2, <2>1, <3>2
  <2> HIDE DEF handled
  <2>3. CASE handled.err # None
    BY <1>2, <1>3, <1>6, <2>2, <2>3 DEF GoodStep, AuditMoves, Wrote, WroteAudit, StaysOpen
  <2>4. CASE handled.err = None
    <3>1. SspInv(w.st) /\ StaysOpen(handled.st.ssp, w.st) /\ w.err = None
          /\ w.out.body = handled.out
      BY <2>1, <2>2, WrapNeverFails DEF StackOK
    <3> HIDE DEF w
    <3>2. /\ StackOK(r.st) /\ StaysOpen(handled.st.ssp, r.st.ssp)
          /\ r.st.justin = handled.st.justin /\ r.err = None /\ r.out.body = handled.out
      BY <1>3, <1>6, <2>2, <2>4, <3>1, SspStep
    <3> QED BY <1>2, <2>2, <2>4, <3>2 DEF GoodStep, AuditMoves, Wrote, WroteAudit, StaysOpen
  <2> QED BY <2>3, <2>4
<1> QED BY <1>5, <1>6

\* handle_packet: any packet at all leaves a good stack.
LEMMA HandlePacketGood ==
  ASSUME NEW k, StackOK(k), NEW p, PacketOK(p), NEW randomB \in Block
  PROVE  GoodStep(k, p, HandlePacket(k, p, randomB))
<1>1. CASE p.form = "short"
  <2> DEFINE t == [st |-> k, err |-> "InvalidData", out |-> None]
  <2>1. HandlePacket(k, p, randomB) = t
    BY <1>1 DEF HandlePacket
  <2>2. t.st = k /\ t.err # None
    BY ErrorsAreNotNone DEF ErrorCode
  <2> HIDE DEF t
  <2> QED BY <2>1, <2>2 DEF GoodStep, AuditMoves, Wrote, StaysOpen
<1>2. CASE p.form # "short" /\ p.control
  BY <1>2, ControlStep DEF HandlePacket
<1>3. CASE p.form # "short" /\ ~p.control /\ p.form # "plain"
  BY <1>3, EncryptedStep DEF HandlePacket
<1>4. CASE ~p.control /\ p.form = "plain"
  BY <1>4, PlainStep DEF HandlePacket
<1> QED BY <1>1, <1>2, <1>3, <1>4

-----------------------------------------------------------------------------
(* How a packet can fail *)

\* Silence and a dropped link are not among the errors of the stack: those two
\* belong to the session.
PacketErrors == {"InvalidData", "InvalidState", "InvalidCrc", "AuthenticationFailed"}

\* The SSP layer fails in these ways only.
LEMMA SspErrors ==
  ASSUME NEW s, NEW p, NEW randomB
  PROVE  ProcessPacket(s, p, randomB).err \in PacketErrors \cup {None}
<1>1. Unseal(s, p).err \in PacketErrors \cup {None}
  BY DEF Unseal, Fail, Succeed, PacketErrors
<1>2. ASSUME NEW body PROVE Seal(s, TRUE, body).err = None
  BY DEF Seal, Succeed
<1>3. ASSUME NEW t, NEW c, NEW sealed
      PROVE  ProcessControlPacket(t, c, sealed, randomB).err \in PacketErrors \cup {None}
  <2>1. HandleOpenSessionStep1(t, sealed, randomB).err \in PacketErrors \cup {None}
    BY DEF HandleOpenSessionStep1, Fail, Seal, Succeed, PacketErrors
  <2>2. HandleOpenSessionStep2(t, c, sealed).err \in PacketErrors \cup {None}
    BY DEF HandleOpenSessionStep2, Fail, Seal, Succeed, PacketErrors
  <2>3. HandleSetKeyValue(t, c).err \in PacketErrors \cup {None}
    BY DEF HandleSetKeyValue, Fail, Seal, Succeed, PacketErrors
  <2>4. HandleGetVersion(t).err = None /\ Fail(t, "InvalidData").err \in PacketErrors
    BY DEF HandleGetVersion, Fail, Succeed, PacketErrors
  <2> QED BY <2>1, <2>2, <2>3, <2>4 DEF ProcessControlPacket
<1>4. ASSUME NEW t, NEW body
      PROVE  ProcessDataPacket(t, body).err \in PacketErrors \cup {None}
  BY DEF ProcessDataPacket, Fail, Succeed, PacketErrors
<1> DEFINE opened == IF p.form = "plain" THEN Succeed(s, p.body) ELSE Unseal(s, p)
<1>5. opened.err \in PacketErrors \cup {None}
  BY <1>1 DEF Succeed
<1>6. Fail(s, "InvalidData").err \in PacketErrors
  BY DEF Fail, PacketErrors
<1>7. ProcessPacket(s, p, randomB) \in
        {Fail(s, "InvalidData"), opened,
         ProcessControlPacket(opened.st, opened.out, p.form # "plain", randomB),
         ProcessDataPacket(opened.st, opened.out)}
  BY DEF ProcessPacket
<1> HIDE DEF opened
<1> QED BY <1>3, <1>4, <1>5, <1>6, <1>7

\* A command that is no command is the one error of the Justin layer: whatever
\* is refused is answered.
LEMMA JustinErrors ==
  ASSUME NEW k, NEW c, NEW secure
  PROVE  ProcessJustin(k, c, secure).err \in {"InvalidData", None}
<1> DEFINE flagged == [k.justin EXCEPT !.secure = secure]
           q == ProcessCommand(flagged, NoopKeyStore, c)
<1>1. ASSUME NEW j PROVE ProcessCommand(j, NoopKeyStore, c).err \in {"InvalidData", None}
  <2>1. HandleOpen(j, NoopKeyStore, c).err = None /\ HandleClose(j).err = None
    BY DEF HandleOpen, HandleClose, Refuse, Respond
  <2>2. HandleReadTag(j, c).err = None
    BY DEF HandleReadTag, Refuse, Respond
  <2>3. HandleWriteTag(j, c).err = None
    BY DEF HandleWriteTag, Refuse, Respond
  <2> QED BY <2>1, <2>2, <2>3 DEF ProcessCommand
<1>2. q.err \in {"InvalidData", None}
  BY <1>1
<1>3. ProcessJustin(k, c, secure).err = q.err
  BY DEF ProcessJustin
<1> QED BY <1>2, <1>3

\* handle_packet: a packet ends in an answer or in one of the four errors.
LEMMA HandlePacketErrors ==
  ASSUME NEW k, NEW p, NEW randomB
  PROVE  HandlePacket(k, p, randomB).err \in PacketErrors \cup {None}
<1>1. \A c, secure : ProcessJustin(k, c, secure).err \in PacketErrors \cup {None}
  BY JustinErrors DEF PacketErrors
<1>2. ASSUME NEW t, NEW r, r.err \in PacketErrors \cup {None}
      PROVE  WithSsp(t, r).err \in PacketErrors \cup {None}
  BY <1>2 DEF WithSsp
<1>3. \A s, body : WrapData(s, body).err \in PacketErrors \cup {None}
  BY DEF WrapData, Seal, Succeed, Fail, PacketErrors
<1>4. HandleEncryptedData(k, p).err \in PacketErrors \cup {None}
  <2> DEFINE opened == WithSsp(k, ProcessPacket(k.ssp, p, None))
             handled == ProcessJustin(opened.st, opened.out, TRUE)
             wrapped == WithSsp(handled.st, WrapData(handled.st.ssp, handled.out))
  <2>1. opened.err \in PacketErrors \cup {None}
    BY <1>2, SspErrors
  <2>2. handled.err \in PacketErrors \cup {None}
    BY JustinErrors DEF PacketErrors
  <2>3. wrapped.err \in PacketErrors \cup {None}
    BY <1>2, <1>3
  <2>4. HandleEncryptedData(k, p) \in {opened, handled, wrapped}
    BY DEF HandleEncryptedData
  <2> HIDE DEF opened, handled, wrapped
  <2> QED BY <2>1, <2>2, <2>3, <2>4
<1>5. HandlePlainData(k, p).err \in PacketErrors \cup {None}
  <2> DEFINE handled == ProcessJustin(k, p.body, FALSE)
  <2>1. handled = [st |-> handled.st, err |-> handled.err, out |-> handled.out]
    BY DEF ProcessJustin
  <2>2. HandlePlainData(k, p) \in {handled, [handled EXCEPT !.out = Plain(FALSE, handled.out)]}
    BY DEF HandlePlainData
  <2>3. handled.err \in PacketErrors \cup {None}
    BY <1>1
  <2> HIDE DEF handled
  <2> QED BY <2>1, <2>2, <2>3
<1>6. WithSsp(k, ProcessPacket(k.ssp, p, randomB)).err \in PacketErrors \cup {None}
  BY <1>2, SspErrors
<1>7. [st |-> k, err |-> "InvalidData", out |-> None].err \in PacketErrors
  BY DEF PacketErrors
<1> QED BY <1>4, <1>5, <1>6, <1>7 DEF HandlePacket

-----------------------------------------------------------------------------
(* Where the pre-shared key can go *)

\* kN is in its own field of the key and nowhere else.
Hides(key, fixed, kn) ==
  /\ key = [fixed |-> fixed, tags |-> key.tags]
  /\ fixed[TAG_KN_KEY] = kn
  /\ \A id \in {0, 1} : fixed[id] # kn
  /\ \A id \in DOMAIN key.tags : key.tags[id].data # kn

\* A tag that is given another value than kN hides it as well.
LEMMA InsertHides ==
  ASSUME NEW key, NEW fixed, NEW kn, Hides(key, fixed, kn),
         NEW id, NEW tag, tag.data # kn
  PROVE  Hides(InsertTag(key, id, tag), fixed, kn)
<1> DEFINE tags == [i \in DOMAIN key.tags \cup {id} |-> IF i = id THEN tag ELSE key.tags[i]]
<1>1. \A i \in DOMAIN tags : tags[i].data # kn
  BY DEF Hides
<1>2. InsertTag(key, id, tag) = [key EXCEPT !.tags = tags]
  BY DEF InsertTag
<1> HIDE DEF tags
<1>3. [key EXCEPT !.tags = tags] = [fixed |-> fixed, tags |-> tags]
  BY DEF Hides
<1> QED BY <1>1, <1>2, <1>3 DEF Hides

\* Only a command served in secure mode is answered with the bytes of kN.
LEMMA CommandHides ==
  ASSUME NEW j, JustinTypeOK(j), NEW fixed, NEW kn, kn # <<>>, Hides(j.key, fixed, kn),
         NEW c \in CommandType, c.data # kn
  PROVE  LET r == ProcessCommand(j, NoopKeyStore, c)
         IN  /\ Hides(r.st.key, fixed, kn)
             /\ r.err = None /\ r.out.data = kn => j.secure
<1> DEFINE Good(r) == /\ Hides(r.st.key, fixed, kn)
                      /\ r.err = None /\ r.out.data = kn => j.secure
<1>1. ASSUME NEW t, Hides(t.key, fixed, kn), NEW status PROVE Good(Refuse(t, status))
  BY <1>1 DEF Refuse, Respond
<1>2. Good(HandleOpen(j, NoopKeyStore, c))
  <2>1. \E status : HandleOpen(j, NoopKeyStore, c) = Refuse(j, status)
    BY DEF HandleOpen, NoopKeyStore
  <2> QED BY <1>1, <2>1
<1>3. Good(HandleClose(j))
  <2> DEFINE closed == [j EXCEPT !.state = "Ready"]
  <2>1. closed.key = j.key
    BY DEF JustinTypeOK
  <2>2. HandleClose(j) \in {Refuse(j, "GenericError"), Refuse(closed, "Success")}
    BY DEF HandleClose
  <2> HIDE DEF closed, Good
  <2> QED BY <1>1, <2>1, <2>2
<1>4. Good(HandleReadTag(j, c))
  <2> DEFINE counted == [j EXCEPT !.refusals = @ + 1]
             value == GetTag(j.key, c.tag).data
  <2>1. counted.key = j.key
    BY DEF JustinTypeOK
  <2>2. \/ \E status : HandleReadTag(j, c) \in {Refuse(j, status), Refuse(counted, status)}
        \/ /\ HandleReadTag(j, c) = Respond(j, "Success", value)
           /\ ~RefusesKnKey(j, c.tag) /\ HasTag(j.key, c.tag)
    BY DEF HandleReadTag
  <2>3. ASSUME HasTag(j.key, c.tag), value = kn PROVE c.tag = TAG_KN_KEY
    BY <2>3 DEF HasTag, GetTag, Hides, Tag, TAG_KN_KEY
  <2>4. Respond(j, "Success", value).st = j /\ Respond(j, "Success", value).out.data = value
    BY DEF Respond
  <2>5. ASSUME ~RefusesKnKey(j, c.tag), HasTag(j.key, c.tag)
        PROVE  Good(Respond(j, "Success", value))
    BY <2>3, <2>4, <2>5 DEF RefusesKnKey
  <2> HIDE DEF counted, value, Good
  <2> QED BY <1>1, <2>1, <2>2, <2>5
<1>5. Good(HandleWriteTag(j, c))
  <2> DEFINE key == SetTagData(j.key, c.tag, c.data)
             written == [j EXCEPT !.key = key,
                                  !.audit = IF c.tag = TAG_AUDIT THEN c.data[1] ELSE @]
  <2>1. ASSUME NEW permissions PROVE Tag(permissions, c.data).data # kn
    BY DEF Tag
  <2>2. Hides(key, fixed, kn)
    BY <2>1, InsertHides DEF SetTagData
  <2>3. written.key = key
    BY DEF JustinTypeOK
  <2>4. \E status : HandleWriteTag(j, c) \in {Refuse(j, status), Refuse(written, status)}
    BY DEF HandleWriteTag
  <2> HIDE DEF key, written, Good
  <2> QED BY <1>1, <2>2, <2>3, <2>4
<1>6. Good([st |-> j, err |-> "InvalidData", out |-> None])
  BY ErrorsAreNotNone DEF ErrorCode
<1> HIDE DEF Good
<1>7. Good(ProcessCommand(j, NoopKeyStore, c))
  BY <1>2, <1>3, <1>4, <1>5, <1>6 DEF ProcessCommand
<1> QED BY <1>7 DEF Good

\* The same of a command served for a packet: the secure flag is the packet's.
LEMMA ServedHides ==
  ASSUME NEW k, StackOK(k), NEW fixed, NEW kn, kn # <<>>, Hides(k.justin.key, fixed, kn),
         NEW c \in CommandType, c.data # kn, NEW secure \in BOOLEAN
  PROVE  LET r == ProcessJustin(k, c, secure)
         IN  /\ Hides(r.st.justin.key, fixed, kn)
             /\ r.err = None /\ r.out.data = kn => secure
<1> DEFINE flagged == [k.justin EXCEPT !.secure = secure]
           q == ProcessCommand(flagged, NoopKeyStore, c)
           back == [q.st EXCEPT !.secure = k.justin.secure]
           st == [k EXCEPT !.justin = back]
<1>1. JustinTypeOK(flagged) /\ flagged.secure = secure /\ flagged.key = k.justin.key
  BY DEF StackOK, JustinTypeOK
<1> HIDE DEF flagged
<1>2. /\ JustinTypeOK(q.st) /\ Hides(q.st.key, fixed, kn)
      /\ q.err = None /\ q.out.data = kn => secure
  BY <1>1, CommandHides, CommandKeepsAudit
<1>3. ProcessJustin(k, c, secure) = [st |-> st, err |-> q.err, out |-> q.out]
  BY DEF ProcessJustin, flagged
<1> HIDE DEF q
<1>4. back.key = q.st.key /\ st.justin = back
  BY <1>2 DEF JustinTypeOK, StackOK
<1> HIDE DEF back, st
<1> QED BY <1>2, <1>3, <1>4

\* The packet, if it can be opened, brings no copy of kN.
PacketHides(p, kn) ==
  p.form \notin {"short", "misaligned"} /\ ~p.control => p.body.data # kn

\* What a packet leaves behind, and what it is answered with: kN only sealed,
\* under the session key.
HidingStep(fixed, kn, r) ==
  /\ Hides(r.st.justin.key, fixed, kn)
  /\ r.err = None /\ ~r.out.control /\ r.out.body.data = kn
     => r.out.form = "sealed" /\ r.out.key = r.st.ssp.sessionKey

\* A control packet does not reach the key, and its answer is a control packet.
LEMMA ControlHides ==
  ASSUME NEW k, StackOK(k), NEW fixed, NEW kn, Hides(k.justin.key, fixed, kn),
         NEW p, PacketOK(p), p.control, NEW randomB \in Block
  PROVE  HidingStep(fixed, kn, WithSsp(k, ProcessPacket(k.ssp, p, randomB)))
<1> DEFINE q == ProcessPacket(k.ssp, p, randomB)
           opened == IF p.form = "plain" THEN Succeed(k.ssp, p.body) ELSE Unseal(k.ssp, p)
           t == opened.st
           c == opened.out
           sealed == p.form # "plain"
<1>1. \A s, e : e \in ErrorCode => Fail(s, e).err # None
  BY ErrorsAreNotNone DEF Fail
<1> DEFINE Answers(r) == r.err = None => r.out.control
<1>2. Answers(ProcessControlPacket(t, c, sealed, randomB))
  <2> HIDE DEF opened, t, c, sealed
  <2>1. Answers(HandleOpenSessionStep1(t, sealed, randomB))
    BY ErrorsAreNotNone DEF HandleOpenSessionStep1, Seal, Succeed, Fail, Sealed, ErrorCode
  <2>2. Answers(HandleOpenSessionStep2(t, c, sealed))
    BY ErrorsAreNotNone DEF HandleOpenSessionStep2, Seal, Succeed, Fail, Sealed, ErrorCode
  <2>3. Answers(HandleSetKeyValue(t, c))
    BY ErrorsAreNotNone DEF HandleSetKeyValue, Seal, Succeed, Fail, Sealed, ErrorCode
  <2>4. Answers(HandleGetVersion(t)) /\ Answers(Fail(t, "InvalidData"))
    BY ErrorsAreNotNone DEF HandleGetVersion, Succeed, Plain, Fail, ErrorCode
  <2> QED BY <2>1, <2>2, <2>3, <2>4 DEF ProcessControlPacket
<1>3. q.err = None => q.out.control
  <2>1. CASE p.form = "short" \/ opened.err # None
    BY <2>1, <1>1 DEF ProcessPacket, ErrorCode
  <2>2. CASE p.form # "short" /\ opened.err = None
    BY <1>2, <2>2 DEF ProcessPacket
  <2> QED BY <2>1, <2>2
<1>4. SspInv(q.st) /\ StaysOpen(k.ssp, q.st)
  BY PacketKeepsInv DEF StackOK
<1> HIDE DEF q
<1>5. /\ WithSsp(k, q).st.justin = k.justin
      /\ WithSsp(k, q).err = q.err /\ WithSsp(k, q).out = q.out
  BY <1>4, SspStep
<1> QED BY <1>3, <1>5 DEF HidingStep, q

\* A plain command is served without the secure flag.
LEMMA PlainHides ==
  ASSUME NEW k, StackOK(k), NEW fixed, NEW kn, kn # <<>>, Hides(k.justin.key, fixed, kn),
         NEW p, PacketOK(p), PacketHides(p, kn), ~p.control, p.form = "plain"
  PROVE  HidingStep(fixed, kn, HandlePlainData(k, p))
<1> DEFINE q == ProcessJustin(k, p.body, FALSE)
           t == [q EXCEPT !.out = Plain(FALSE, q.out)]
<1>1. p.body \in CommandType /\ p.body.data # kn
  BY DEF PacketOK, PacketHides
<1>2. Hides(q.st.justin.key, fixed, kn) /\ ~(q.err = None /\ q.out.data = kn)
  BY <1>1, ServedHides
<1>3. q = [st |-> q.st, err |-> q.err, out |-> q.out]
  BY DEF ProcessJustin
<1>4. HandlePlainData(k, p) = IF q.err # None THEN q ELSE t
  BY DEF HandlePlainData
<1> HIDE DEF q
<1>5. t.st = q.st /\ t.err = q.err /\ t.out.body = q.out
  BY <1>3 DEF Plain
<1> HIDE DEF t
<1> QED BY <1>2, <1>4, <1>5 DEF HidingStep

\* A sealed command is answered under the session key.
LEMMA SealedHides ==
  ASSUME NEW k, StackOK(k), NEW fixed, NEW kn, kn # <<>>, Hides(k.justin.key, fixed, kn),
         NEW p, PacketOK(p), PacketHides(p, kn), ~p.control, p.form # "short"
  PROVE  HidingStep(fixed, kn, HandleEncryptedData(k, p))
<1> DEFINE q == ProcessPacket(k.ssp, p, None)
           opened == WithSsp(k, q)
           handled == ProcessJustin(opened.st, opened.out, TRUE)
           s == handled.st.ssp
           moved == [s EXCEPT !.iv = LastBlock(CurrentKey(s), s.iv, handled.out)]
           out == Sealed(FALSE, handled.out, CurrentKey(s), s.iv)
           r == HandleEncryptedData(k, p)
<1> SUFFICES HidingStep(fixed, kn, r)
  OBVIOUS
<1>1. /\ SspInv(q.st) /\ StaysOpen(k.ssp, q.st)
      /\ q.err = None => q.st.state = "InSession" /\ q.out = p.body
  BY DataKeepsInv DEF StackOK
<1>2. /\ StackOK(opened.st) /\ opened.st.ssp = q.st /\ opened.st.justin = k.justin
      /\ opened.err = q.err /\ opened.out = q.out
  BY <1>1, SspStep
<1>3. r = IF opened.err # None THEN opened
          ELSE IF handled.err # None THEN handled ELSE WithSsp(handled.st, WrapData(s, handled.out))
  BY DEF HandleEncryptedData
<1>4. opened.err = None => p.form \notin {"short", "misaligned"}
  BY ErrorsAreNotNone DEF WithSsp, ProcessPacket, Unseal, Fail, ErrorCode
<1> HIDE DEF opened, q, r
<1>5. CASE opened.err # None
  BY <1>2, <1>3, <1>5 DEF HidingStep
<1>6. CASE opened.err = None
  <2>1. /\ opened.out = p.body /\ p.body \in CommandType /\ p.body.data # kn
        /\ opened.st.ssp.state = "InSession"
    BY <1>1, <1>2, <1>4, <1>6 DEF PacketOK, PacketHides
  <2>2. opened.out \in CommandType /\ opened.out.data # kn
    BY <2>1
  <2>3. Hides(opened.st.justin.key, fixed, kn)
    BY <1>2
  <2>4. /\ Hides(handled.st.justin.key, fixed, kn)
        /\ StackOK(handled.st) /\ handled.st.ssp = opened.st.ssp
    BY <1>2, <2>2, <2>3, ServedHides, JustinStep
  <2> HIDE DEF handled, s
  <2>5. SspInv(s) /\ s.state = "InSession" /\ s.sessionKey # None /\ s = handled.st.ssp
    BY <2>1, <2>4 DEF StackOK, SspInv, s
  <2>6. WrapData(s, handled.out) = Succeed(moved, out)
    BY <2>5 DEF WrapData, Seal
  <2>7. moved.sessionKey = s.sessionKey
    BY <2>5, MovedIv DEF SspInv
  <2>8. out.form = "sealed" /\ out.key = s.sessionKey
    BY <2>5 DEF Sealed, CurrentKey
  <2> HIDE DEF moved, out
  <2>9. CASE handled.err # None
    BY <1>3, <1>6, <2>4, <2>9 DEF HidingStep
  <2>10. CASE handled.err = None
    <3>1. r = WithSsp(handled.st, Succeed(moved, out))
      BY <1>3, <1>6, <2>6, <2>10
    <3>2. r.st.justin = handled.st.justin /\ r.st.ssp = moved /\ r.out = out
      BY <2>4, <3>1 DEF WithSsp, Succeed, StackOK
    <3> QED BY <2>4, <2>7, <2>8, <3>2 DEF HidingStep
  <2> QED BY <2>9, <2>10
<1> QED BY <1>5, <1>6

\* handle_packet never lets kN out but sealed.
LEMMA HandlePacketHides ==
  ASSUME NEW k, StackOK(k), NEW fixed, NEW kn, kn # <<>>, Hides(k.justin.key, fixed, kn),
         NEW p, PacketOK(p), PacketHides(p, kn), NEW randomB \in Block
  PROVE  HidingStep(fixed, kn, HandlePacket(k, p, randomB))
<1>1. CASE p.form = "short"
  <2> DEFINE t == [st |-> k, err |-> "InvalidData", out |-> None]
  <2>1. HandlePacket(k, p, randomB) = t
    BY <1>1 DEF HandlePacket
  <2>2. t.st = k /\ t.err # None
    BY ErrorsAreNotNone DEF ErrorCode
  <2> HIDE DEF t
  <2> QED BY <2>1, <2>2 DEF HidingStep
<1>2. CASE p.form # "short" /\ p.control
  BY <1>2, ControlHides DEF HandlePacket
<1>3. CASE p.form # "short" /\ ~p.control /\ p.form # "plain"
  BY <1>3, SealedHides DEF HandlePacket
<1>4. CASE ~p.control /\ p.form = "plain"
  BY <1>4, PlainHides DEF HandlePacket
<1> QED BY <1>1, <1>2, <1>3, <1>4

-----------------------------------------------------------------------------
\* Numbers, folds and bytes.

\* Induction, in the form the provers can use: about a set of numbers.
LEMMA SetInduction ==
  ASSUME NEW S, 0 \in S, \A n \in Nat : n \in S => n + 1 \in S
  PROVE  Nat \subseteq S
<1> DEFINE R == OpToRel(<, Nat)
           T == Nat \ S
<1>1. R = {ss \in Nat \X Nat : ss[1] < ss[2]}
  BY DEF OpToRel
<1>2. IsWellFoundedOn(R, Nat)
  BY ZenonT(60), NatLessThanWellFounded
<1>3. \A x, y \in Nat : y < x => <<y, x>> \in R
  BY ZenonT(60), <1>1
<1> HIDE DEF R
<1>4. SUFFICES ASSUME T # {} PROVE FALSE
  OBVIOUS
<1>5. PICK x \in T : \A y \in T : ~(<<y, x>> \in R)
  BY <1>2, <1>4, WFMin
<1>6. x \in Nat /\ x # 0
  OBVIOUS
<1>7. x - 1 \in Nat /\ x - 1 < x
  BY <1>6
<1>8. x - 1 \in S
  BY <1>3, <1>5, <1>6, <1>7
<1>9. (x - 1) + 1 = x
  BY <1>6
<1> QED
  BY <1>6, <1>7, <1>8, <1>9

\* A byte is a number up to 255.
LEMMA InByte == \A x : x \in Byte <=> x \in Nat /\ x <= 255
<1>1. ASSUME NEW x \in Byte PROVE x \in Nat /\ x <= 255
  BY DEF Byte
<1>2. ASSUME NEW x \in Nat, x <= 255 PROVE x \in Byte
  BY <1>2 DEF Byte
<1> QED
  BY <1>1, <1>2

\* What apply_padding makes of data, index by index.
LEMMA PaddedShape ==
  ASSUME NEW S, NEW d \in Seq(S)
  PROVE  LET p == ApplyPadding(d)
             n == Len(d)
         IN  /\ p \in Seq(S \cup {MARKER, 0})
             /\ Len(p) = n + 1 + FillLength(n)
             /\ \A i \in 1..n : p[i] = d[i]
             /\ p[n + 1] = MARKER
             /\ \A i \in n + 2..Len(p) : p[i] = 0
<1> DEFINE n     == Len(d)
           zeros == [i \in 1..FillLength(n) |-> 0]
           head  == d \o <<MARKER>>
           W     == S \cup {MARKER, 0}
<1>0. n \in Nat /\ d \in Seq(W)
  BY SeqMonotonic
<1> HIDE DEF n
<1>1. FillLength(n) \in Nat
  BY <1>0 DEF FillLength, BLOCK
<1>2. MARKER \in W /\ 0 \in W
  OBVIOUS
<1> HIDE DEF W
<1>3. zeros \in Seq(W) /\ Len(zeros) = FillLength(n)
  BY <1>1, <1>2
<1>4. /\ head \in Seq(W) /\ Len(head) = n + 1
      /\ \A i \in 1..n : head[i] = d[i]
      /\ head[n + 1] = MARKER
  BY <1>0, <1>2 DEF n
<1>5. ApplyPadding(d) = head \o zeros
  BY DEF ApplyPadding, n
<1> HIDE DEF zeros, head
<1>6. /\ ApplyPadding(d) \in Seq(W)
      /\ Len(ApplyPadding(d)) = n + 1 + FillLength(n)
  <2>1. ApplyPadding(d) \in Seq(W)
    BY <1>3, <1>4, <1>5
  <2>2. Len(head \o zeros) = Len(head) + Len(zeros)
    BY SMTT(40), <1>3, <1>4
  <2> QED
    BY <1>3, <1>4, <1>5, <2>1, <2>2
<1>7. \A i \in 1..n + 1 : ApplyPadding(d)[i] = head[i]
  BY <1>0, <1>1, <1>3, <1>4, <1>5
<1>8. \A i \in n + 2..Len(ApplyPadding(d)) : ApplyPadding(d)[i] = 0
  <2> SUFFICES ASSUME NEW i \in n + 2..Len(ApplyPadding(d))
               PROVE  ApplyPadding(d)[i] = 0
    OBVIOUS
  <2>1. ApplyPadding(d)[i] = zeros[i - (n + 1)] /\ i - (n + 1) \in 1..FillLength(n)
    BY SMTT(40), <1>0, <1>1, <1>3, <1>4, <1>5, <1>6
  <2> QED
    BY <2>1 DEF zeros
<1> QED
  BY <1>0, <1>1, <1>4, <1>6, <1>7, <1>8 DEF n, W

\* remove_padding(apply_padding(data)) is data, and what is encrypted is whole
\* blocks, for data of every length and content: trailing zeros and marker
\* bytes of its own included (mkey-core/src/crypto/padding.rs).
THEOREM PaddingComesOff ==
  ASSUME NEW S, NEW d \in Seq(S)
  PROVE  /\ Len(ApplyPadding(d)) % BLOCK = 0
         /\ RemovePadding(ApplyPadding(d)) = d
<1> DEFINE p == ApplyPadding(d)
           n == Len(d)
<1>0. n \in Nat
  OBVIOUS
<1>1. /\ p \in Seq(S \cup {MARKER, 0}) /\ Len(p) = n + 1 + FillLength(n)
      /\ \A i \in 1..n : p[i] = d[i]
      /\ p[n + 1] = MARKER
      /\ \A i \in n + 2..Len(p) : p[i] = 0
  BY PaddedShape
<1>2. FillLength(n) \in Nat /\ (n + 1 + FillLength(n)) % BLOCK = 0
  <2> HIDE DEF n, p
  <2> QED
    BY <1>0 DEF FillLength, BLOCK
<1> HIDE DEF p, n
<1>3. LastNonZero(p) = n + 1
  <2> DEFINE EndsAt(k) == /\ k > 0 => p[k] # 0
                        /\ \A i \in k + 1..Len(p) : p[i] = 0
  <2>1. n + 1 \in 0..Len(p) /\ EndsAt(n + 1)
    BY <1>0, <1>1, <1>2 DEF MARKER
  <2>2. ASSUME NEW k \in 0..Len(p), EndsAt(k)
        PROVE  k = n + 1
    <3>1. CASE k < n + 1
      BY <1>0, <1>1, <1>2, <2>2, <3>1 DEF MARKER
    <3>2. CASE k > n + 1
      BY <1>0, <1>1, <1>2, <2>2, <3>2
    <3> QED
      BY <1>0, <1>1, <3>1, <3>2
  <2>3. LastNonZero(p) = CHOOSE k \in 0..Len(p) : EndsAt(k)
    BY DEF LastNonZero
  <2> HIDE DEF EndsAt
  <2> QED
    BY <2>1, <2>2, <2>3
<1>4. RemovePadding(p) = SubSeq(p, 1, n)
  BY <1>0, <1>1, <1>3 DEF RemovePadding
<1>5. SubSeq(p, 1, n) = d
  BY <1>0, <1>1, <1>2 DEF n
<1> QED
  BY <1>0, <1>1, <1>2, <1>4, <1>5 DEF p

\* A sequence put in front of another keeps its elements at their places.
LEMMA FrontOfConcat ==
  ASSUME NEW a \in Seq(Byte), NEW b \in Seq(Byte)
  PROVE  /\ a \o b \in Seq(Byte)
         /\ Len(a \o b) >= Len(a)
         /\ \A i \in 1..Len(a) : (a \o b)[i] = a[i]
OBVIOUS

\* The length field encode_tlv writes is read back, in each of its four forms
\* and at the boundaries between them, whatever follows it; a value of 16 MiB or
\* more is beyond the three bytes the code writes.
THEOREM LengthReadsBack ==
  ASSUME NEW n \in Nat, n < K * K * K, NEW rest \in Seq(Byte)
  PROVE  LengthAt(EncodeLength(n) \o rest, 1) = [bytes |-> Len(EncodeLength(n)), length |-> n]
<1> DEFINE e    == EncodeLength(n)
           data == e \o rest
<1>1. CASE n < 128
  <2>1. e = <<n>> /\ e \in Seq(Byte)
    <3>1. e = <<n>>
      BY <1>1 DEF EncodeLength
    <3>2. n \in Byte
      BY <1>1 DEF Byte
    <3> QED
      BY <3>1, <3>2
  <2>2. data[1] = n /\ Len(data) \in Nat \ {0}
    BY <2>1, FrontOfConcat
  <2> HIDE DEF data
  <2> QED
    BY <1>1, <2>1, <2>2 DEF LengthAt
<1>2. CASE n \in 128..K - 1
  <2>1. e = <<129, n>> /\ e \in Seq(Byte)
    <3>1. e = <<129, n>>
      BY <1>2 DEF EncodeLength, K
    <3>2. 129 \in Byte /\ n \in Byte
      BY <1>2 DEF Byte, K
    <3> QED
      BY <3>1, <3>2
  <2>2. data[1] = 129 /\ data[2] = n /\ Len(data) \in Nat /\ Len(data) >= 2
    BY <2>1, FrontOfConcat
  <2> HIDE DEF data
  <2> QED
    BY <1>2, <2>1, <2>2 DEF LengthAt
<1>3. CASE K <= n /\ n < K * K
  <2>1. e = <<130, n \div K, n % K>> /\ e \in Seq(Byte)
    <3>1. e = <<130, n \div K, n % K>>
      BY <1>3 DEF EncodeLength, K
    <3>2. 130 \in Byte /\ n \div K \in Byte /\ n % K \in Byte
      BY <1>3 DEF Byte, K
    <3> QED
      BY <3>1, <3>2
  <2>2. /\ data[1] = 130 /\ data[2] = n \div K /\ data[3] = n % K
        /\ Len(data) \in Nat /\ Len(data) >= 3
    BY <2>1, FrontOfConcat
  <2>3. ((n \div K) * K) + (n % K) = n
    BY <1>3 DEF K
  <2> HIDE DEF data
  <2> QED
    BY <1>3, <2>1, <2>2, <2>3 DEF LengthAt
<1>4. CASE n >= K * K
  <2>1. e = <<131, (n \div (K * K)) % K, (n \div K) % K, n % K>> /\ e \in Seq(Byte)
    <3>1. e = <<131, (n \div (K * K)) % K, (n \div K) % K, n % K>>
      BY <1>4 DEF EncodeLength, K
    <3>2. /\ 131 \in Byte /\ (n \div (K * K)) % K \in Byte
          /\ (n \div K) % K \in Byte /\ n % K \in Byte
      BY <1>4 DEF Byte, K
    <3> QED
      BY <3>1, <3>2
  <2>2. /\ data[1] = 131 /\ data[2] = (n \div (K * K)) % K
        /\ data[3] = (n \div K) % K /\ data[4] = n % K
        /\ Len(data) \in Nat /\ Len(data) >= 4
    BY <2>1, FrontOfConcat
  <2>3. (((n \div (K * K)) % K) * K * K) + (((n \div K) % K) * K) + (n % K) = n
    BY <1>4 DEF K
  <2> HIDE DEF data
  <2> QED
    BY <1>4, <2>1, <2>2, <2>3 DEF LengthAt
<1> QED
  BY <1>1, <1>2, <1>3, <1>4 DEF K

\* A fold takes one element c[s] after the other out of a finite set s, and each
\* element x changes the result by g[x].
Foldable(D, W, base, c, g) ==
  /\ IsFiniteSet(D) /\ base \in W /\ g \in [D -> [W -> W]]
  /\ \A s \in SUBSET D : s # {} => c[s] \in s

\* What its recursion says: h[s] is the result for the part s.
FoldIs(h, D, W, base, c, g) ==
  /\ h \in [SUBSET D -> W]
  /\ h[{}] = base
  /\ \A s \in SUBSET D : s # {} => h[s] = g[c[s]][h[s \ {c[s]}]]

\* The recursion of a fold has a solution, whatever the order.
LEMMA FoldExists ==
  ASSUME NEW D, NEW W, NEW base, NEW c, NEW g, Foldable(D, W, base, c, g)
  PROVE  \E h : FoldIs(h, D, W, base, c, g)
<1> USE DEF Foldable
<1> DEFINE Low(k)     == {s \in SUBSET D : Cardinality(s) <= k}
           Next(h, s) == IF s = {} THEN base ELSE g[c[s]][h[s \ {c[s]}]]
           Fits(h, k) == \A s \in Low(k) : h[s] = Next(h, s)
           S          == {k \in Nat : \E h \in [SUBSET D -> W] : Fits(h, k)}
<1>1. \A s \in SUBSET D : IsFiniteSet(s) /\ Cardinality(s) \in Nat
  BY FS_Subset, FS_CardinalityType
<1>2. \A s \in SUBSET D : s # {} =>
        /\ s \ {c[s]} \in SUBSET D /\ c[s] \in D
        /\ Cardinality(s \ {c[s]}) = Cardinality(s) - 1
  BY <1>1, FS_RemoveElement
<1>3. \A h \in [SUBSET D -> W], s \in SUBSET D : Next(h, s) \in W
  BY <1>2
<1>4. 0 \in S
  <2> DEFINE h == [s \in SUBSET D |-> base]
  <2>1. \A s \in Low(0) : s = {}
    <3> SUFFICES ASSUME NEW s \in SUBSET D, Cardinality(s) <= 0 PROVE s = {}
      OBVIOUS
    <3>1. IsFiniteSet(s) /\ Cardinality(s) = 0
      BY <1>1
    <3> QED
      BY <3>1, FS_EmptySet
  <2>2. h \in [SUBSET D -> W] /\ Fits(h, 0)
    BY <2>1
  <2> QED
    BY <2>2
<1>5. ASSUME NEW k \in Nat, k \in S
      PROVE  k + 1 \in S
  <2>1. PICK h \in [SUBSET D -> W] : Fits(h, k)
    BY <1>5
  <2> DEFINE f == [s \in SUBSET D |-> Next(h, s)]
  <2>2. f \in [SUBSET D -> W]
    BY <1>3
  <2>3. ASSUME NEW s \in Low(k)
        PROVE  f[s] = h[s]
    BY <2>1, <2>3
  <2>4. ASSUME NEW s \in Low(k + 1), s # {}
        PROVE  f[s \ {c[s]}] = h[s \ {c[s]}]
    <3>1. s \ {c[s]} \in Low(k)
      <4>1. s \in SUBSET D /\ Cardinality(s) \in Nat /\ Cardinality(s) <= k + 1
        BY <1>1
      <4>2. s \ {c[s]} \in SUBSET D /\ Cardinality(s \ {c[s]}) = Cardinality(s) - 1
        BY <1>2, <2>4, <4>1
      <4>3. Cardinality(s) - 1 <= k
        BY <4>1
      <4> QED
        BY <4>2, <4>3
    <3> HIDE DEF Low, f
    <3> QED
      BY <2>3, <3>1
  <2>5. Fits(f, k + 1)
    <3> SUFFICES ASSUME NEW s \in Low(k + 1) PROVE f[s] = Next(f, s)
      BY ZenonT(60)
    <3>1. f[s] = Next(h, s)
      OBVIOUS
    <3> HIDE DEF f, Low
    <3> QED
      BY <2>4, <3>1
  <2> HIDE DEF Fits, f
  <2>6. k + 1 \in Nat
    OBVIOUS
  <2> QED
    BY <2>2, <2>5, <2>6
<1>6. Cardinality(D) \in S
  <2> HIDE DEF S
  <2> QED
    BY <1>1, <1>4, <1>5, SetInduction
<1>7. PICK h \in [SUBSET D -> W] : Fits(h, Cardinality(D))
  BY <1>6
<1>8. Low(Cardinality(D)) = SUBSET D
  BY FS_Subset
<1>9. \A s \in SUBSET D : h[s] = Next(h, s)
  BY <1>7, <1>8
<1> QED
  BY <1>9 DEF FoldIs

\* The greatest of the first n numbers is n
LEMMA MaxOfInterval ==
  ASSUME NEW n \in Nat \ {0}
  PROVE  Max(1..n) = n
BY DEF Max

\* A part of it has a greatest element.
LEMMA MaxOfNumbers ==
  ASSUME NEW n \in Nat, NEW s \in SUBSET (1..n), s # {}
  PROVE  Max(s) \in s
<1> DEFINE S == {k \in Nat : \A t \in SUBSET (1..k) : t # {} => \E x \in t : \A y \in t : x >= y}
<1>1. 0 \in S
  <2>1. \A t \in SUBSET (1..0) : t = {}
    OBVIOUS
  <2> QED
    BY <2>1
<1>2. ASSUME NEW k \in Nat, k \in S
      PROVE  k + 1 \in S
  <2> SUFFICES ASSUME NEW t \in SUBSET (1..k + 1), t # {}
               PROVE  \E x \in t : \A y \in t : x >= y
    OBVIOUS
  <2>1. CASE k + 1 \in t
    <3>1. \A y \in t : k + 1 >= y
      OBVIOUS
    <3> QED
      BY <2>1, <3>1
  <2>2. CASE k + 1 \notin t
    <3>1. t \in SUBSET (1..k)
      BY <2>2
    <3> QED
      BY <1>2, <3>1
  <2> QED
    BY <2>1, <2>2
<1>3. n \in S
  <2> HIDE DEF S
  <2> QED
    BY <1>1, <1>2, SetInduction
<1>4. \E x \in s : \A y \in s : x >= y
  BY <1>3
<1> QED
  BY <1>4 DEF Max

\* What the recursion of a fold over a sequence says of the prefixes.
LEMMA PrefixSets ==
  ASSUME NEW n \in Nat
  PROVE  /\ 1..0 = {}
         /\ \A k \in 1..n : /\ 1..k \in SUBSET (1..n) /\ 1..k # {} /\ 1..k - 1 \in SUBSET (1..n)
                            /\ Max(1..k) = k
                            /\ (1..k) \ {k} = 1..k - 1
BY MaxOfInterval

\* A fold over a sequence, one step for each place: its recursion has a solution.
StepFold(n, W, base, step) == n \in Nat /\ base \in W /\ step \in [1..n -> [W -> W]]

\* What that recursion says.
FoldRuns(h, n, W, base, step) ==
  /\ h \in [SUBSET (1..n) -> W]
  /\ h[{}] = base
  /\ \A s \in SUBSET (1..n) : s # {} => h[s] = step[Max(s)][h[s \ {Max(s)}]]

\* Such a fold exists.
LEMMA StepsExist ==
  ASSUME NEW n, NEW W, NEW base, NEW step, StepFold(n, W, base, step)
  PROVE  \E h : FoldRuns(h, n, W, base, step)
<1> DEFINE D == 1..n
           c == [s \in SUBSET D |-> Max(s)]
<1>1. Foldable(D, W, base, c, step)
  <2>1. IsFiniteSet(D)
    BY FS_Interval DEF StepFold
  <2>2. \A s \in SUBSET D : s # {} => c[s] \in s
    BY MaxOfNumbers DEF StepFold
  <2> HIDE DEF c
  <2> QED
    BY <2>1, <2>2 DEF StepFold, Foldable
<1>2. \A s \in SUBSET D : c[s] = Max(s)
  OBVIOUS
<1> HIDE DEF c, D
<1>3. PICK h : FoldIs(h, D, W, base, c, step)
  BY <1>1, FoldExists
<1>4. /\ h \in [SUBSET D -> W] /\ h[{}] = base
      /\ \A s \in SUBSET D : s # {} => h[s] = step[Max(s)][h[s \ {Max(s)}]]
  BY <1>2, <1>3 DEF FoldIs
<1> QED
  BY <1>4 DEF FoldRuns, D

\* What the recursion makes of the prefixes is a sequence of states.
FollowsSteps(it, n, W, base, step) ==
  /\ it[{}] = base
  /\ \A s \in SUBSET (1..n) : s # {} /\ it[s \ {Max(s)}] \in W =>
                              it[s] = step[Max(s)][it[s \ {Max(s)}]]

\* F is that sequence: F[i] after i steps.
StatesAre(F, n, W, base, step, result) ==
  /\ F \in [0..n -> W]
  /\ F[0] = base
  /\ \A i \in 1..n : F[i] = step[i][F[i - 1]]
  /\ F[n] = result

\* The states of a fold, one after the other.
LEMMA StatesOfSteps ==
  ASSUME NEW n, NEW W, NEW base, NEW step, NEW it,
         StepFold(n, W, base, step), FollowsSteps(it, n, W, base, step)
  PROVE  \E F : StatesAre(F, n, W, base, step, it[1..n])
<1> DEFINE F == [k \in 0..n |-> it[1..k]]
           S == {k \in Nat : k <= n => F[k] \in W}
<1>0. n \in Nat /\ base \in W /\ step \in [1..n -> [W -> W]]
  BY DEF StepFold
<1>1. F[0] = base
  BY <1>0, PrefixSets DEF FollowsSteps
<1>2. ASSUME NEW k \in 1..n, F[k - 1] \in W
      PROVE  F[k] = step[k][F[k - 1]]
  <2>1. F[k] = it[1..k] /\ F[k - 1] = it[1..k - 1]
    BY <1>0
  <2>2. /\ 1..k \in SUBSET (1..n) /\ 1..k # {} /\ Max(1..k) = k /\ (1..k) \ {k} = 1..k - 1
    BY <1>0, PrefixSets
  <2> DEFINE s == 1..k
  <2> HIDE DEF F, s
  <2>3. it[s] = step[k][it[s \ {k}]]
    BY <1>2, <2>1, <2>2 DEF s, FollowsSteps
  <2> QED
    BY <1>2, <2>1, <2>2, <2>3 DEF s
<1>3. 0 \in S
  BY <1>0, <1>1
<1>4. ASSUME NEW k \in Nat, k \in S PROVE k + 1 \in S
  <2> SUFFICES ASSUME k + 1 <= n PROVE F[k + 1] \in W
    OBVIOUS
  <2>1. k + 1 \in 1..n /\ (k + 1) - 1 = k /\ F[k] \in W
    BY <1>0, <1>4
  <2> HIDE DEF F
  <2>2. F[k + 1] = step[k + 1][F[k]]
    BY <1>2, <2>1
  <2> QED
    BY <1>0, <2>1, <2>2
<1>5. \A k \in 0..n : F[k] \in W
  <2>1. Nat \subseteq S
    <3> HIDE DEF S
    <3> QED
      BY <1>3, <1>4, SetInduction
  <2> HIDE DEF F
  <2> QED
    BY <1>0, <2>1
<1>6. F \in [0..n -> W] /\ F[n] = it[1..n]
  <2>1. F = [k \in 0..n |-> F[k]] /\ it[1..n] = F[n]
    BY <1>0
  <2> HIDE DEF F
  <2> QED
    BY <1>5, <2>1
<1>7. \A k \in 1..n : F[k] = step[k][F[k - 1]]
  <2> HIDE DEF F
  <2> QED
    BY <1>0, <1>2, <1>5
<1> HIDE DEF F
<1> QED
  BY <1>1, <1>6, <1>7 DEF StatesAre

-----------------------------------------------------------------------------
\* The fields of a mobile key (Tlv).

\* What parse_all makes of the data from index i on, given p for what is behind.
ReadFrom(p, data, i) ==
  IF Reads(data, i) THEN <<FieldAt(data, i)>> \o p[NextAt(data, i)] ELSE <<>>

\* Digits in base 256 make a number.
LEMMA InBase ==
  ASSUME NEW a \in Nat, NEW b \in Nat, NEW c \in Nat, NEW d \in Nat
  PROVE  /\ (a * K * K) + (b * K) + c \in Nat
         /\ (a * K * K * K) + (b * K * K) + (c * K) + d \in Nat
BY DEF K

\* The forms of a length, one by one.
Forms(data, i) ==
  LET long == data[i] - 128
      form(length) == [bytes |-> long + 1, length |-> length]
      n == Len(data)
  IN  /\ i > n => LengthAt(data, i) = None
      /\ ~(i > n) /\ data[i] < 128 => LengthAt(data, i) = [bytes |-> 1, length |-> data[i]]
      /\ ~(i > n) /\ ~(data[i] < 128) /\ (long \notin 1..4 \/ i + long > n) =>
           LengthAt(data, i) = None
      /\ ~(i > n) /\ ~(data[i] < 128) /\ long \in 1..4 /\ ~(i + long > n) =>
           /\ long = 1 => LengthAt(data, i) = form(data[i + 1])
           /\ long = 2 => LengthAt(data, i) = form((data[i + 1] * K) + data[i + 2])
           /\ long = 3 => LengthAt(data, i) =
                           form((data[i + 1] * K * K) + (data[i + 2] * K) + data[i + 3])
           /\ long = 4 => LengthAt(data, i) =
                           IF data[i + 1] >= 128 THEN None
                           ELSE form((data[i + 1] * K * K * K) + (data[i + 2] * K * K)
                                       + (data[i + 3] * K) + data[i + 4])

\* They are all the forms there are.
LEMMA LengthForms ==
  ASSUME NEW data \in Seq(Byte), NEW i \in Nat \ {0}
  PROVE  Forms(data, i)
<1> DEFINE long == data[i] - 128
           form(length) == [bytes |-> long + 1, length |-> length]
           n == Len(data)
<1>0. n \in Nat /\ i \in Nat
  OBVIOUS
<1>a. i > n => LengthAt(data, i) = None
  BY DEF LengthAt
<1>b. ~(i > n) /\ data[i] < 128 => LengthAt(data, i) = [bytes |-> 1, length |-> data[i]]
  BY DEF LengthAt
<1>c. ~(i > n) /\ ~(data[i] < 128) /\ (long \notin 1..4 \/ i + long > n) => LengthAt(data, i) = None
  BY DEF LengthAt
<1>e. ASSUME ~(i > n), ~(data[i] < 128), long \in 1..4, ~(i + long > n)
      PROVE  /\ long = 1 => LengthAt(data, i) = form(data[i + 1])
             /\ long = 2 => LengthAt(data, i) = form((data[i + 1] * K) + data[i + 2])
             /\ long = 3 => LengthAt(data, i) =
                             form((data[i + 1] * K * K) + (data[i + 2] * K) + data[i + 3])
             /\ long = 4 => LengthAt(data, i) =
                             IF data[i + 1] >= 128 THEN None
                             ELSE form((data[i + 1] * K * K * K) + (data[i + 2] * K * K)
                                         + (data[i + 3] * K) + data[i + 4])
  <2>1. ~(long \notin 1..4 \/ i + long > n)
    BY <1>e
  <2>2. CASE long = 1
    BY SMTT(40), <1>e, <2>1, <2>2 DEF LengthAt
  <2>3. CASE long = 2
    BY SMTT(40), <1>e, <2>1, <2>3 DEF LengthAt
  <2>4. CASE long = 3
    BY SMTT(40), <1>e, <2>1, <2>4 DEF LengthAt
  <2>5. CASE long = 4
    BY SMTT(40), <1>e, <2>1, <2>5 DEF LengthAt
  <2> QED
    BY <1>e, <2>2, <2>3, <2>4, <2>5
<1> QED
  BY <1>a, <1>b, <1>c, <1>e DEF Forms

\* A length takes at least a byte, and is never negative.
LEMMA LengthAtType ==
  ASSUME NEW data \in Seq(Byte), NEW i \in Nat \ {0}
  PROVE  \/ LengthAt(data, i) = None
         \/ /\ LengthAt(data, i) \in [bytes : Nat, length : Nat]
            /\ LengthAt(data, i).bytes >= 1
            /\ i <= Len(data)
            /\ i + LengthAt(data, i).bytes - 1 <= Len(data)
<1> DEFINE long == data[i] - 128
           form(length) == [bytes |-> long + 1, length |-> length]
           n == Len(data)
<1>0. n \in Nat /\ i \in Nat
  OBVIOUS
<1>d. ASSUME NEW k \in Nat, 1 <= k, k <= n PROVE data[k] \in Nat /\ data[k] <= 255
  <2>1. data[k] \in Byte
    BY <1>d
  <2> QED
    BY <2>1, InByte
<1>l. /\ i > n => LengthAt(data, i) = None
      /\ ~(i > n) /\ data[i] < 128 => LengthAt(data, i) = [bytes |-> 1, length |-> data[i]]
      /\ ~(i > n) /\ ~(data[i] < 128) /\ (long \notin 1..4 \/ i + long > n) =>
           LengthAt(data, i) = None
      /\ ~(i > n) /\ ~(data[i] < 128) /\ long \in 1..4 /\ ~(i + long > n) =>
           /\ long = 1 => LengthAt(data, i) = form(data[i + 1])
           /\ long = 2 => LengthAt(data, i) = form((data[i + 1] * K) + data[i + 2])
           /\ long = 3 => LengthAt(data, i) =
                           form((data[i + 1] * K * K) + (data[i + 2] * K) + data[i + 3])
           /\ long = 4 => LengthAt(data, i) =
                           IF data[i + 1] >= 128 THEN None
                           ELSE form((data[i + 1] * K * K * K) + (data[i + 2] * K * K)
                                       + (data[i + 3] * K) + data[i + 4])
  BY LengthForms DEF Forms
<1> HIDE DEF n, form, long
<1>f. ASSUME NEW length \in Nat, long \in 1..4
      PROVE  form(length) \in [bytes : Nat, length : Nat] /\ form(length).bytes = long + 1
  BY <1>f DEF form
<1>1. CASE i > n
  BY <1>1, <1>l
<1>2. CASE i <= n /\ data[i] < 128
  <2>1. LengthAt(data, i) = [bytes |-> 1, length |-> data[i]]
    BY <1>0, <1>2, <1>l
  <2>2. data[i] \in Nat
    BY <1>d, <1>0, <1>2
  <2>3. /\ LengthAt(data, i) \in [bytes : Nat, length : Nat] /\ LengthAt(data, i).bytes = 1
    BY <2>1, <2>2
  <2> QED
    BY <1>0, <1>2, <2>3 DEF n
<1>3. CASE i <= n /\ ~(data[i] < 128) /\ (long \notin 1..4 \/ i + long > n)
  BY <1>0, <1>3, <1>l
<1>m. i <= n => ~(i > n)
  BY <1>0
<1>4. ASSUME i <= n, ~(data[i] < 128), long \in 1..4, ~(i + long > n)
      PROVE  \/ LengthAt(data, i) = None
             \/ \E length \in Nat : LengthAt(data, i) = form(length)
  <2>1. CASE long = 1
    <3>1. data[i + 1] \in Nat
      BY <1>0, <1>4, <1>d, <2>1
    <3> QED
      BY <1>0, <1>4, <1>m, <1>l, <2>1, <3>1
  <2>2. CASE long = 2
    <3>1. data[i + 1] \in Nat /\ data[i + 2] \in Nat
      BY <1>0, <1>4, <1>d, <2>2
    <3>2. (data[i + 1] * K) + data[i + 2] \in Nat
      BY <3>1 DEF K
    <3> QED
      BY <1>0, <1>4, <1>m, <1>l, <2>2, <3>2
  <2>3. CASE long = 3
    <3>1. data[i + 1] \in Nat /\ data[i + 2] \in Nat /\ data[i + 3] \in Nat
      BY <1>0, <1>4, <1>d, <2>3
    <3>2. (data[i + 1] * K * K) + (data[i + 2] * K) + data[i + 3] \in Nat
      BY <3>1, InBase
    <3> QED
      BY <1>0, <1>4, <1>m, <1>l, <2>3, <3>2
  <2>4. CASE long = 4
    <3>1. data[i + 1] \in Nat /\ data[i + 2] \in Nat /\ data[i + 3] \in Nat /\ data[i + 4] \in Nat
      BY <1>0, <1>4, <1>d, <2>4
    <3>2. (data[i + 1] * K * K * K) + (data[i + 2] * K * K) + (data[i + 3] * K) + data[i + 4] \in Nat
      BY <3>1, InBase
    <3> QED
      BY <1>0, <1>4, <1>m, <1>l, <2>4, <3>2
  <2> QED
    <3>1. long = 1 \/ long = 2 \/ long = 3 \/ long = 4
      BY <1>4
    <3> QED
      BY <2>1, <2>2, <2>3, <2>4, <3>1
<1>5. CASE i <= n /\ ~(data[i] < 128) /\ long \in 1..4 /\ ~(i + long > n)
  <2>1. CASE LengthAt(data, i) = None
    BY <2>1
  <2>2. CASE LengthAt(data, i) # None
    <3>1. PICK length \in Nat : LengthAt(data, i) = form(length)
      BY <1>4, <1>5, <2>2
    <3>2. LengthAt(data, i) \in [bytes : Nat, length : Nat] /\ LengthAt(data, i).bytes = long + 1
      BY <1>5, <1>f, <3>1
    <3>3. long \in Nat /\ long >= 1 /\ i + long <= n
      BY <1>0, <1>5
    <3> QED
      BY <1>0, <1>5, <3>2, <3>3 DEF n
  <2> QED
    BY <2>1, <2>2
<1> QED
  BY <1>0, <1>1, <1>2, <1>3, <1>5

\* A field ends before the end of the data, and the next begins behind it.
LEMMA ReadsOn ==
  ASSUME NEW data \in Seq(Byte), NEW i \in 1..Len(data) + 1, Reads(data, i)
  PROVE  /\ FirstAt(data, i) \in i + 2..Len(data) + 1
         /\ NextAt(data, i) \in FirstAt(data, i)..Len(data) + 1
         /\ NextAt(data, i) > i
<1>1. i + 1 \in Nat \ {0} /\ i \in Nat /\ Len(data) \in Nat
  OBVIOUS
<1>2. LengthAt(data, i + 1) # None
  BY DEF Reads
<1>3. PICK b \in Nat, l \in Nat : /\ LengthAt(data, i + 1).bytes = b /\ LengthAt(data, i + 1).length = l
                                  /\ b >= 1 /\ (i + 1) + b - 1 <= Len(data)
  BY <1>1, <1>2, LengthAtType
<1>4. i + b + l <= Len(data)
  BY <1>3 DEF Reads
<1>5. FirstAt(data, i) = i + 1 + b /\ NextAt(data, i) = i + 1 + b + l
  BY <1>3 DEF FirstAt, NextAt
<1> QED
  BY <1>1, <1>3, <1>4, <1>5

\* The recursion of Tlv::parse_all has one solution.
LEMMA ParseExists ==
  ASSUME NEW data \in Seq(Byte)
  PROVE  \E p : p = [i \in 1..Len(data) + 1 |-> ReadFrom(p, data, i)]
<1> DEFINE n == Len(data)
           Late(k) == {i \in 1..n + 1 : n + 1 - i < k}
           S == {k \in Nat : \E p : \A i \in Late(k) : p[i] = ReadFrom(p, data, i)}
<1>0. n \in Nat
  OBVIOUS
<1>1. 0 \in S
  BY <1>0
<1>2. ASSUME NEW k \in Nat, k \in S PROVE k + 1 \in S
  <2>1. PICK p : \A i \in Late(k) : p[i] = ReadFrom(p, data, i)
    BY <1>2
  <2> DEFINE q == [i \in 1..n + 1 |-> ReadFrom(p, data, i)]
  <2>2. ASSUME NEW i \in Late(k + 1) PROVE q[i] = ReadFrom(q, data, i)
    <3>1. i \in 1..n + 1 /\ n + 1 - i < k + 1
      OBVIOUS
    <3>2. q[i] = ReadFrom(p, data, i)
      BY <3>1
    <3>3. CASE Reads(data, i)
      <4>1. NextAt(data, i) \in 1..n + 1 /\ NextAt(data, i) > i
        BY <1>0, <3>1, <3>3, ReadsOn
      <4>2. NextAt(data, i) \in Late(k)
        BY <1>0, <3>1, <4>1
      <4>3. q[NextAt(data, i)] = ReadFrom(p, data, NextAt(data, i))
        BY <4>1
      <4>4. q[NextAt(data, i)] = p[NextAt(data, i)]
        BY <2>1, <4>2, <4>3
      <4> HIDE DEF q
      <4> QED
        BY <3>2, <3>3, <4>4 DEF ReadFrom
    <3>4. CASE ~Reads(data, i)
      BY <3>2, <3>4 DEF ReadFrom
    <3> QED
      BY <3>3, <3>4
  <2> HIDE DEF q, Late
  <2> QED
    BY <1>2, <2>2
<1>3. n + 1 \in S
  <2> HIDE DEF S
  <2> QED
    BY <1>0, <1>1, <1>2, SetInduction
<1>4. PICK p : \A i \in Late(n + 1) : p[i] = ReadFrom(p, data, i)
  BY <1>3
<1>5. \A i \in 1..n + 1 : p[i] = ReadFrom(p, data, i)
  BY <1>0, <1>4
<1> DEFINE q == [i \in 1..n + 1 |-> p[i]]
<1>6. ASSUME NEW i \in 1..n + 1 PROVE p[i] = ReadFrom(q, data, i)
  <2>1. CASE Reads(data, i)
    <3>1. NextAt(data, i) \in 1..n + 1
      BY <1>0, <2>1, ReadsOn
    <3>2. q[NextAt(data, i)] = p[NextAt(data, i)]
      BY <3>1
    <3> HIDE DEF q, n
    <3> QED
      BY <1>5, <2>1, <3>2 DEF ReadFrom
  <2>2. CASE ~Reads(data, i)
    BY <1>5, <2>2 DEF ReadFrom
  <2> QED
    BY <2>1, <2>2
<1>7. q = [i \in 1..n + 1 |-> ReadFrom(q, data, i)]
  BY <1>6
<1> QED
  BY <1>7

\* A length is read where it stands, whatever is in front of it.
LEMMA LengthShift ==
  ASSUME NEW f \in Seq(Byte), NEW rest \in Seq(Byte), NEW j \in Nat \ {0}
  PROVE  LengthAt(f \o rest, Len(f) + j) = LengthAt(rest, j)
<1> DEFINE data == f \o rest
           m == Len(f)
           n == Len(rest)
           long == rest[j] - 128
           form(length) == [bytes |-> long + 1, length |-> length]
<1>0. m \in Nat /\ n \in Nat /\ j \in Nat /\ j >= 1
  OBVIOUS
<1>1. Len(data) = m + n /\ \A k \in 1..n : data[m + k] = rest[k]
  <2>1. Len(data) = m + n
    BY ConcatProperties
  <2>2. ASSUME NEW k \in 1..n PROVE data[m + k] = rest[k]
    <3>1. m + k \in 1..m + n /\ ~(m + k <= m) /\ (m + k) - m = k
      BY <1>0
    <3>2. \A q \in 1..m + n : data[q] = IF q <= m THEN f[q] ELSE rest[q - m]
      BY ConcatProperties
    <3> QED
      BY <3>1, <3>2
  <2> QED
    BY <2>1, <2>2
<1>r. Forms(rest, j) /\ Forms(data, m + j)
  <2>1. data \in Seq(Byte) /\ m + j \in Nat \ {0}
    BY <1>0, ConcatProperties
  <2> HIDE DEF data, m
  <2> QED
    BY <2>1, LengthForms
<1>n. n = Len(rest)
  OBVIOUS
<1> HIDE DEF data, m, n
<1>2. ASSUME j <= n
      PROVE  /\ data[m + j] = rest[j] /\ j \in 1..n /\ rest[j] \in Nat
             /\ ~(j > n) /\ ~(m + j > Len(data))
  <2>1. j \in 1..n
    BY <1>0, <1>2
  <2>2. rest[j] \in Byte
    BY <2>1 DEF n
  <2> QED
    BY <1>0, <1>1, <1>2, <2>1, <2>2, InByte
<1>3. CASE j > n
  <2>1. m + j > Len(data)
    BY <1>0, <1>1, <1>3
  <2> QED
    BY <1>3, <2>1, <1>n, <1>r DEF Forms, m, data
<1>4. CASE j <= n /\ rest[j] < 128
  BY <1>2, <1>4, <1>n, <1>r DEF Forms, m, data
<1>5. CASE j <= n /\ ~(rest[j] < 128) /\ (long \notin 1..4 \/ j + long > n)
  <2>1. long \notin 1..4 \/ (m + j) + long > Len(data)
    BY <1>0, <1>1, <1>2, <1>5
  <2>2. data[m + j] - 128 = long
    BY <1>2, <1>5
  <2>3. LengthAt(rest, j) = None
    BY <1>2, <1>5, <1>n, <1>r DEF Forms
  <2>4. LengthAt(data, m + j) = None
    BY <1>2, <1>5, <2>1, <2>2, <1>r DEF Forms
  <2> QED
    BY <2>3, <2>4 DEF data, m
<1>6. CASE j <= n /\ ~(rest[j] < 128) /\ long \in 1..4 /\ ~(j + long > n)
  <2>0. data[m + j] - 128 = long /\ data[m + j] = rest[j]
    BY <1>2, <1>6
  <2>1. ~((m + j) + long > Len(data)) /\ long \in Nat
    BY SMTT(40), <1>0, <1>1, <1>2, <1>6
  <2>2. ASSUME NEW k \in 1..4, k <= long
        PROVE  data[m + j + k] = rest[j + k]
    <3>1. j + k \in 1..n /\ m + (j + k) = m + j + k
      BY SMTT(40), <1>0, <1>6, <2>1, <2>2
    <3> QED
      BY <1>1, <3>1
  <2>3. CASE long = 1
    <3>1. data[m + j + 1] = rest[j + 1]
      BY <2>2, <2>3
    <3>2. LengthAt(rest, j) = form(rest[j + 1])
      BY <1>2, <1>6, <2>3, <1>n, <1>r DEF Forms
    <3>3. LengthAt(data, m + j) = form(data[m + j + 1])
      BY <1>2, <1>6, <2>0, <2>1, <2>3, <1>r DEF Forms
    <3> QED
      BY <3>1, <3>2, <3>3 DEF data, m
  <2>4. CASE long = 2
    <3>1. data[m + j + 1] = rest[j + 1] /\ data[m + j + 2] = rest[j + 2]
      BY <2>2, <2>4
    <3>2. LengthAt(rest, j) = form((rest[j + 1] * K) + rest[j + 2])
      BY <1>2, <1>6, <2>4, <1>n, <1>r DEF Forms
    <3>3. LengthAt(data, m + j) = form((data[m + j + 1] * K) + data[m + j + 2])
      BY <1>2, <1>6, <2>0, <2>1, <2>4, <1>r DEF Forms
    <3> QED
      BY <3>1, <3>2, <3>3 DEF data, m
  <2>5. CASE long = 3
    <3>1. data[m + j + 1] = rest[j + 1] /\ data[m + j + 2] = rest[j + 2] /\ data[m + j + 3] = rest[j + 3]
      BY <2>2, <2>5
    <3>2. LengthAt(rest, j) = form((rest[j + 1] * K * K) + (rest[j + 2] * K) + rest[j + 3])
      BY <1>2, <1>6, <2>5, <1>n, <1>r DEF Forms
    <3>3. LengthAt(data, m + j) =
            form((data[m + j + 1] * K * K) + (data[m + j + 2] * K) + data[m + j + 3])
      BY <1>2, <1>6, <2>0, <2>1, <2>5, <1>r DEF Forms
    <3> QED
      BY <3>1, <3>2, <3>3 DEF data, m
  <2>6. CASE long = 4
    <3>1. /\ data[m + j + 1] = rest[j + 1] /\ data[m + j + 2] = rest[j + 2]
          /\ data[m + j + 3] = rest[j + 3] /\ data[m + j + 4] = rest[j + 4]
      BY <2>2, <2>6
    <3>2. LengthAt(rest, j) =
            IF rest[j + 1] >= 128 THEN None
            ELSE form((rest[j + 1] * K * K * K) + (rest[j + 2] * K * K) + (rest[j + 3] * K) + rest[j + 4])
      BY <1>2, <1>6, <2>6, <1>n, <1>r DEF Forms
    <3>3. LengthAt(data, m + j) =
            IF data[m + j + 1] >= 128 THEN None
            ELSE form((data[m + j + 1] * K * K * K) + (data[m + j + 2] * K * K)
                        + (data[m + j + 3] * K) + data[m + j + 4])
      BY <1>2, <1>6, <2>0, <2>1, <2>6, <1>r DEF Forms
    <3> QED
      BY <3>1, <3>2, <3>3 DEF data, m
  <2> QED
    <3>1. long = 1 \/ long = 2 \/ long = 3 \/ long = 4
      BY <1>6
    <3> QED
      BY <2>3, <2>4, <2>5, <2>6, <3>1
<1> QED
  BY <1>0, <1>3, <1>4, <1>5, <1>6

\* What a part of a sequence is.
LEMMA PartOf ==
  ASSUME NEW d \in Seq(Byte), NEW a \in Nat, a >= 1, NEW e \in Nat, e >= a - 1, e <= Len(d)
  PROVE  /\ SubSeq(d, a, e) \in Seq(Byte) /\ Len(SubSeq(d, a, e)) = e - a + 1
         /\ \A k \in 1..Len(SubSeq(d, a, e)) : SubSeq(d, a, e)[k] = d[a + k - 1]
<1>1. \A k \in a..e : d[k] \in Byte
  OBVIOUS
<1> QED
  BY SMTT(40), <1>1

\* A part of the second sequence, found in both.
LEMMA SubSeqShift ==
  ASSUME NEW f \in Seq(Byte), NEW rest \in Seq(Byte),
         NEW a \in Nat, a >= 1, NEW e \in Nat, e >= a - 1, e <= Len(rest)
  PROVE  SubSeq(f \o rest, Len(f) + a, Len(f) + e) = SubSeq(rest, a, e)
<1> DEFINE data == f \o rest
           m == Len(f)
           n == Len(rest)
<1>0. m \in Nat /\ n \in Nat
  OBVIOUS
<1>1. data \in Seq(Byte) /\ Len(data) = m + n
  BY ConcatProperties
<1>2. \A q \in 1..m + n : data[q] = IF q <= m THEN f[q] ELSE rest[q - m]
  BY ConcatProperties
<1> HIDE DEF data, m, n
<1>3. ASSUME NEW k \in Nat, 1 <= k, k <= e - a + 1
      PROVE  data[m + a + k - 1] = rest[a + k - 1]
  <2>1. m + a + k - 1 \in 1..m + n /\ ~(m + a + k - 1 <= m) /\ (m + a + k - 1) - m = a + k - 1
    BY <1>0, <1>3 DEF n
  <2> QED
    BY <1>2, <2>1
<1> DEFINE s == SubSeq(data, m + a, m + e)
           t == SubSeq(rest, a, e)
<1>4. /\ s \in Seq(Byte) /\ Len(s) = e - a + 1
      /\ \A k \in 1..Len(s) : s[k] = data[m + a + k - 1]
  <2>1. m + a \in Nat /\ m + e \in Nat /\ m + a >= 1 /\ m + e <= Len(data) /\ m + e >= m + a - 1
    BY <1>0, <1>1 DEF n
  <2>2. (m + e) - (m + a) + 1 = e - a + 1 /\ \A k \in 1..e - a + 1 : (m + a) + k - 1 = m + a + k - 1
    BY <1>0
  <2>3. PICK a1 \in Nat, e1 \in Nat : a1 = m + a /\ e1 = m + e
    BY <2>1
  <2>4. a1 >= 1 /\ e1 <= Len(data) /\ e1 >= a1 - 1
    BY <1>0, <1>1, <2>1, <2>3
  <2>5. /\ SubSeq(data, a1, e1) \in Seq(Byte) /\ Len(SubSeq(data, a1, e1)) = e1 - a1 + 1
        /\ \A k \in 1..Len(SubSeq(data, a1, e1)) : SubSeq(data, a1, e1)[k] = data[a1 + k - 1]
    BY <1>1, <2>4, PartOf
  <2> QED
    BY <2>2, <2>3, <2>5
<1>5. /\ t \in Seq(Byte) /\ Len(t) = e - a + 1
      /\ \A k \in 1..Len(t) : t[k] = rest[a + k - 1]
  BY PartOf
<1>6. ASSUME NEW k \in 1..Len(s) PROVE s[k] = t[k]
  <2> HIDE DEF s, t
  <2>1. k \in 1..Len(t) /\ k \in Nat /\ 1 <= k /\ k <= e - a + 1
    BY <1>4, <1>5
  <2>2. s[k] = data[m + a + k - 1] /\ t[k] = rest[a + k - 1]
    BY <1>4, <1>5, <2>1
  <2> QED
    BY <1>3, <2>1, <2>2
<1>7. s = t
  <2> HIDE DEF s, t
  <2> QED
    BY <1>4, <1>5, <1>6, SeqEqual
<1> QED
  BY <1>7 DEF data, m

\* So is a field.
LEMMA ReadShift ==
  ASSUME NEW f \in Seq(Byte), NEW rest \in Seq(Byte), NEW j \in 1..Len(rest) + 1
  PROVE  LET data == f \o rest m == Len(f)
         IN  /\ Reads(data, m + j) <=> Reads(rest, j)
             /\ Reads(rest, j) => /\ FieldAt(data, m + j) = FieldAt(rest, j)
                                  /\ NextAt(data, m + j) = m + NextAt(rest, j)
<1> DEFINE data == f \o rest
           m == Len(f)
           n == Len(rest)
           head == LengthAt(rest, j + 1)
<1>0. m \in Nat /\ n \in Nat /\ j \in Nat /\ j >= 1
  OBVIOUS
<1>1. data \in Seq(Byte) /\ Len(data) = m + n
  BY ConcatProperties
<1>2. \A k \in 1..n : data[m + k] = rest[k]
  <2> SUFFICES ASSUME NEW k \in 1..n PROVE data[m + k] = rest[k]
    OBVIOUS
  <2>1. m + k \in 1..m + n /\ ~(m + k <= m) /\ (m + k) - m = k
    BY <1>0
  <2>2. \A q \in 1..m + n : data[q] = IF q <= m THEN f[q] ELSE rest[q - m]
    BY ConcatProperties
  <2> QED
    BY <2>1, <2>2
<1>3. LengthAt(data, (m + j) + 1) = head
  <2>1. LengthAt(data, m + (j + 1)) = head
    BY <1>0, LengthShift
  <2>2. m + (j + 1) = (m + j) + 1
    BY <1>0
  <2> QED
    BY <2>1, <2>2
<1>4. head # None => head.bytes \in Nat /\ head.length \in Nat
  <2>1. j + 1 \in Nat \ {0}
    BY <1>0
  <2> QED
    BY <2>1, LengthAtType
<1> HIDE DEF data, m, n, head
<1>5. Reads(data, m + j) <=> Reads(rest, j)
  <2>1. CASE j > n
    <3>1. ~(m + j <= Len(data)) /\ ~(j <= n)
      BY <1>0, <1>1, <2>1
    <3> QED
      BY <3>1 DEF Reads, n
  <2>2. CASE j <= n /\ head = None
    BY <1>3, <2>2 DEF Reads, head
  <2>3. CASE j <= n /\ head # None
    <3>1. data[m + j] = rest[j] /\ m + j <= Len(data)
      BY SMTT(40), <1>0, <1>1, <1>2, <2>3
    <3>2. (m + j) + head.bytes + head.length <= Len(data) <=> j + head.bytes + head.length <= n
      BY SMTT(40), <1>0, <1>1, <1>4, <2>3
    <3> QED
      BY <1>3, <2>3, <3>1, <3>2 DEF Reads, head, n
  <2> QED
    BY <1>0, <2>1, <2>2, <2>3
<1>6. ASSUME Reads(rest, j)
      PROVE  /\ FieldAt(data, m + j) = FieldAt(rest, j)
             /\ NextAt(data, m + j) = m + NextAt(rest, j)
  <2>1. j <= n /\ head # None
    BY <1>6 DEF Reads, head, n
  <2>2. data[m + j] = rest[j]
    BY <1>0, <1>2, <2>1
  <2>3. PICK b \in Nat, l \in Nat : head.bytes = b /\ head.length = l
    BY <1>4, <2>1
  <2>4. /\ FirstAt(rest, j) = j + 1 + b /\ NextAt(rest, j) = j + 1 + b + l
        /\ FirstAt(data, m + j) = m + (j + 1 + b) /\ NextAt(data, m + j) = m + (j + 1 + b + l)
    <3>1. /\ FirstAt(rest, j) = j + 1 + b /\ NextAt(rest, j) = j + 1 + b + l
      BY <2>3 DEF FirstAt, NextAt, head
    <3>2. /\ FirstAt(data, m + j) = (m + j) + 1 + b /\ NextAt(data, m + j) = (m + j) + 1 + b + l
      BY <1>3, <2>3 DEF FirstAt, NextAt
    <3> QED
      BY <1>0, <2>3, <3>1, <3>2
  <2> DEFINE a == j + 1 + b
             e == (j + 1 + b + l) - 1
  <2>5. a \in Nat /\ a >= 1 /\ e \in Nat /\ e >= a - 1 /\ e <= n
    <3>1. j + b + l <= n
      BY <1>6, <2>3 DEF Reads, head, n
    <3> QED
      BY <1>0, <2>3, <3>1
  <2>6. NextAt(rest, j) - 1 = e /\ NextAt(data, m + j) - 1 = m + e /\ FirstAt(data, m + j) = m + a /\ FirstAt(rest, j) = a
    BY <1>0, <2>3, <2>4
  <2> HIDE DEF a, e
  <2>7. SubSeq(data, m + a, m + e) = SubSeq(rest, a, e)
    BY <1>0, <2>5, SubSeqShift DEF data, m, n
  <2> QED
    BY <2>2, <2>4, <2>6, <2>7 DEF FieldAt
<1> QED
  BY <1>5, <1>6 DEF data, m

\* The parse, index by index: p[i] is what is read from index i on.
ParsedAs(p, data) == \A i \in 1..Len(data) + 1 : p[i] = ReadFrom(p, data, i)

\* parse_all is such a parse.
LEMMA ParseRuns ==
  ASSUME NEW data \in Seq(Byte)
  PROVE  \E p : ParsedAs(p, data) /\ ParseAll(data) = p[1]
<1> DEFINE P(p) == p = [i \in 1..Len(data) + 1 |-> ReadFrom(p, data, i)]
           q == CHOOSE p : P(p)
<1>1. \E p : P(p)
  BY ParseExists
<1>2. P(q)
  BY <1>1
<1>3. ParseAll(data) = q[1]
  BY DEF ParseAll, ReadFrom
<1>4. ParsedAs(q, data)
  <2> HIDE DEF q
  <2> QED
    BY <1>2 DEF ParsedAs
<1> QED
  BY <1>3, <1>4

\* What is behind a sequence is parsed as it would be alone.
LEMMA ParseShift ==
  ASSUME NEW f \in Seq(Byte), NEW rest \in Seq(Byte), NEW p, NEW q,
         ParsedAs(p, f \o rest), ParsedAs(q, rest)
  PROVE  \A j \in 1..Len(rest) + 1 : p[Len(f) + j] = q[j]
<1> DEFINE data == f \o rest
           m == Len(f)
           n == Len(rest)
           S == {k \in Nat : \A j \in 1..n + 1 : n + 1 - j < k => p[m + j] = q[j]}
<1>0. m \in Nat /\ n \in Nat /\ Len(data) = m + n
  BY ConcatProperties
<1> HIDE DEF data, m, n
<1>1. 0 \in S
  BY <1>0
<1>2. ASSUME NEW k \in Nat, k \in S PROVE k + 1 \in S
  <2> SUFFICES ASSUME NEW j \in 1..n + 1, n + 1 - j < k + 1 PROVE p[m + j] = q[j]
    OBVIOUS
  <2>1. m + j \in 1..Len(data) + 1
    BY <1>0
  <2>2. p[m + j] = ReadFrom(p, data, m + j)
    BY <2>1 DEF ParsedAs, data
  <2>3. q[j] = ReadFrom(q, rest, j)
    BY DEF ParsedAs, n
  <2>4. /\ Reads(data, m + j) <=> Reads(rest, j)
        /\ Reads(rest, j) => /\ FieldAt(data, m + j) = FieldAt(rest, j)
                             /\ NextAt(data, m + j) = m + NextAt(rest, j)
    BY ReadShift DEF data, m, n
  <2>5. CASE Reads(rest, j)
    <3>1. NextAt(rest, j) \in 1..n + 1 /\ NextAt(rest, j) > j
      BY <1>0, <2>5, ReadsOn DEF n
    <3>2. p[m + NextAt(rest, j)] = q[NextAt(rest, j)]
      BY <1>0, <1>2, <3>1
    <3> QED
      BY <2>2, <2>3, <2>4, <2>5, <3>2 DEF ReadFrom
  <2>6. CASE ~Reads(rest, j)
    BY <2>2, <2>3, <2>4, <2>6 DEF ReadFrom
  <2> QED
    BY <2>5, <2>6
<1>3. n + 1 \in S
  <2> HIDE DEF S
  <2> QED
    BY <1>0, <1>1, <1>2, SetInduction
<1>4. \A j \in 1..n + 1 : p[m + j] = q[j]
  BY <1>0, <1>3
<1> QED
  BY <1>4 DEF m, n

\* The tag numbers that fit into a byte.
OneByteTag(id) == id % 32 # 31

\* Bytes put together one way or the other are the same bytes.
LEMMA ConcatBytes ==
  ASSUME NEW a \in Seq(Byte), NEW b \in Seq(Byte), NEW c \in Seq(Byte)
  PROVE  (a \o b) \o c = a \o (b \o c)
BY ConcatAssociative

\* The values whose length encode_tlv can write: three bytes of it at most.
Fits(v) == Len(v) < K * K * K

\* The field a value is written as.
Field(id, v) == [id |-> id % 32, constructed |-> FALSE, value |-> v]

\* A length is written as bytes, at least one.
LEMMA EncodeLengthType ==
  ASSUME NEW n \in Nat, n < K * K * K
  PROVE  EncodeLength(n) \in Seq(Byte) /\ Len(EncodeLength(n)) \in Nat /\ Len(EncodeLength(n)) >= 1
<1>1. CASE n < 128
  <2>1. EncodeLength(n) = <<n>> /\ n \in Byte
    BY <1>1, InByte DEF EncodeLength
  <2> QED
    BY <2>1
<1>2. CASE n \in 128..K - 1
  <2>1. EncodeLength(n) = <<129, n>> /\ n \in Byte /\ 129 \in Byte
    BY <1>2, InByte DEF EncodeLength, K
  <2> QED
    BY <2>1
<1>3. CASE K <= n /\ n < K * K
  <2>1. EncodeLength(n) = <<130, n \div K, n % K>>
    BY <1>3 DEF EncodeLength, K
  <2>2. n \div K \in Byte /\ n % K \in Byte /\ 130 \in Byte
    BY <1>3, InByte DEF K
  <2> QED
    BY <2>1, <2>2
<1>4. CASE n >= K * K
  <2>1. EncodeLength(n) = <<131, (n \div (K * K)) % K, (n \div K) % K, n % K>>
    BY <1>4 DEF EncodeLength, K
  <2>2. /\ 131 \in Byte /\ (n \div (K * K)) % K \in Byte
        /\ (n \div K) % K \in Byte /\ n % K \in Byte
    BY <1>4, InByte DEF K
  <2> QED
    BY <2>1, <2>2
<1> QED
  BY <1>1, <1>2, <1>3, <1>4 DEF K

\* A written field: the tag byte, its length, its value.
LEMMA EncodeTlvShape ==
  ASSUME NEW id \in Nat, OneByteTag(id), NEW v \in Seq(Byte), Fits(v)
  PROVE  LET f == EncodeTlv(id, v)
             e == EncodeLength(Len(v))
         IN  /\ f \in Seq(Byte) /\ Len(f) = 1 + Len(e) + Len(v)
             /\ f[1] \in Nat /\ f[1] % 32 = id % 32 /\ f[1] % 32 # 31 /\ (f[1] \div 32) % 2 = 0
             /\ f = <<f[1]>> \o (e \o v) /\ f = (<<f[1]>> \o e) \o v
             /\ <<f[1]>> \in Seq(Byte)
<1> DEFINE h == PRIVATE_CLASS + (id % 32)
           e == EncodeLength(Len(v))
<1>0. Len(v) \in Nat
  OBVIOUS
<1>1. h \in Nat /\ h <= 255 /\ h % 32 = id % 32 /\ h % 32 # 31 /\ (h \div 32) % 2 = 0
  BY DEF PRIVATE_CLASS, OneByteTag
<1>2. h \in Byte
  <2> HIDE DEF h
  <2> QED
    BY <1>1, InByte
<1>3. e \in Seq(Byte) /\ Len(e) \in Nat
  BY <1>0, EncodeLengthType DEF Fits
<1>4. EncodeTlv(id, v) = <<h>> \o e \o v
  BY DEF EncodeTlv
<1> HIDE DEF h, e
<1>5. <<h>> \in Seq(Byte) /\ Len(<<h>>) = 1 /\ <<h>>[1] = h
  BY <1>2
<1>6. <<h>> \o e \in Seq(Byte) /\ Len(<<h>> \o e) = 1 + Len(e) /\ (<<h>> \o e)[1] = h
  <2>1. Len(<<h>> \o e) = Len(<<h>>) + Len(e)
    BY <1>3, <1>5, ConcatProperties
  <2>2. (<<h>> \o e)[1] = <<h>>[1]
    BY <1>3, <1>5, FrontOfConcat
  <2> QED
    BY <1>3, <1>5, <2>1, <2>2
<1>7. /\ (<<h>> \o e) \o v \in Seq(Byte) /\ Len((<<h>> \o e) \o v) = 1 + Len(e) + Len(v)
      /\ ((<<h>> \o e) \o v)[1] = h
  <2>1. Len((<<h>> \o e) \o v) = Len(<<h>> \o e) + Len(v)
    BY <1>6, ConcatProperties
  <2>2. ((<<h>> \o e) \o v)[1] = (<<h>> \o e)[1]
    BY <1>3, <1>6, FrontOfConcat
  <2> QED
    BY <1>0, <1>3, <1>6, <2>1, <2>2
<1>8. (<<h>> \o e) \o v = <<h>> \o (e \o v)
  BY <1>3, <1>5, ConcatBytes
<1> QED
  BY <1>1, <1>4, <1>5, <1>7, <1>8 DEF e

\* What is read of a longer sequence is read the same if more follows.
LEMMA LengthPrefix ==
  ASSUME NEW a \in Seq(Byte), NEW b \in Seq(Byte), NEW i \in Nat \ {0}, LengthAt(a, i) # None
  PROVE  LengthAt(a \o b, i) = LengthAt(a, i)
<1> DEFINE data == a \o b
           n == Len(a)
           long == a[i] - 128
<1>0. i \in Nat /\ i >= 1 /\ n \in Nat
  OBVIOUS
<1>1. data \in Seq(Byte) /\ Len(data) \in Nat /\ Len(data) >= n /\ \A k \in 1..n : data[k] = a[k]
  BY FrontOfConcat
<1>r. Forms(a, i) /\ Forms(data, i)
  <2> HIDE DEF data
  <2> QED
    BY <1>1, LengthForms
<1>n. n = Len(a)
  OBVIOUS
<1> HIDE DEF data, n
<1>2. ~(i > n)
  BY <1>n, <1>r DEF Forms
<1>3. i \in 1..n /\ data[i] = a[i] /\ ~(i > Len(data))
  BY <1>0, <1>1, <1>2
<1>4. a[i] \in Nat
  <2>1. a[i] \in Byte
    BY <1>3, <1>n
  <2> QED
    BY <2>1, InByte
<1>5. CASE a[i] < 128
  BY <1>2, <1>3, <1>5, <1>n, <1>r DEF Forms, data
<1>6. CASE ~(a[i] < 128)
  <2>1. ~(long \notin 1..4 \/ i + long > n)
    BY <1>2, <1>6, <1>n, <1>r DEF Forms
  <2>a. long \in 1..4 /\ ~(i + long > n)
    BY <2>1
  <2>b. long \in Nat /\ i + long <= n
    BY SMTT(40), <1>0, <2>a
  <2>c. data[i] - 128 = long
    BY <1>3
  <2> HIDE DEF long
  <2>d. ~(i + long > Len(data))
    BY <1>0, <1>1, <2>b
  <2>2. long \in 1..4 /\ ~(i + long > n) /\ ~(i + long > Len(data)) /\ data[i] - 128 = long
    BY <2>a, <2>c, <2>d
  <2>3. ASSUME NEW k \in 1..4, k <= long PROVE data[i + k] = a[i + k]
    <3>1. i + k \in 1..n
      BY <1>0, <2>b, <2>3
    <3> QED
      BY <1>1, <3>1
  <2>4. CASE long = 1
    <3>1. data[i + 1] = a[i + 1]
      BY <2>3, <2>4
    <3> QED
      BY <1>2, <1>3, <1>6, <1>n, <1>r, <2>2, <2>4, <3>1 DEF Forms, data
  <2>5. CASE long = 2
    <3>1. data[i + 1] = a[i + 1] /\ data[i + 2] = a[i + 2]
      BY <2>3, <2>5
    <3> QED
      BY <1>2, <1>3, <1>6, <1>n, <1>r, <2>2, <2>5, <3>1 DEF Forms, data
  <2>6. CASE long = 3
    <3>1. data[i + 1] = a[i + 1] /\ data[i + 2] = a[i + 2] /\ data[i + 3] = a[i + 3]
      BY <2>3, <2>6
    <3> QED
      BY <1>2, <1>3, <1>6, <1>n, <1>r, <2>2, <2>6, <3>1 DEF Forms, data
  <2>7. CASE long = 4
    <3>1. /\ data[i + 1] = a[i + 1] /\ data[i + 2] = a[i + 2]
          /\ data[i + 3] = a[i + 3] /\ data[i + 4] = a[i + 4]
      BY <2>3, <2>7
    <3> QED
      BY <1>2, <1>3, <1>6, <1>n, <1>r, <2>2, <2>7, <3>1 DEF Forms, data
  <2> QED
    <3>1. long = 1 \/ long = 2 \/ long = 3 \/ long = 4
      BY <2>2
    <3> QED
      BY <2>4, <2>5, <2>6, <2>7, <3>1
<1> QED
  BY <1>5, <1>6

\* A field written in front of anything is the first one read.
LEMMA FieldIsRead ==
  ASSUME NEW id \in Nat, OneByteTag(id), NEW v \in Seq(Byte), Fits(v),
         NEW rest \in Seq(Byte)
  PROVE  LET f == EncodeTlv(id, v)
             data == f \o rest
         IN  /\ data \in Seq(Byte) /\ Reads(data, 1)
             /\ FieldAt(data, 1) = Field(id, v) /\ NextAt(data, 1) = Len(f) + 1
             /\ LengthAt(f, 2) = [bytes |-> Len(EncodeLength(Len(v))), length |-> Len(v)]
<1> DEFINE f == EncodeTlv(id, v)
           e == EncodeLength(Len(v))
           h == f[1]
           data == f \o rest
<1>0. Len(v) \in Nat
  OBVIOUS
<1>1. /\ f \in Seq(Byte) /\ Len(f) = 1 + Len(e) + Len(v)
      /\ h \in Nat /\ h % 32 = id % 32 /\ h % 32 # 31 /\ (h \div 32) % 2 = 0
      /\ f = <<h>> \o (e \o v) /\ f = (<<h>> \o e) \o v
      /\ <<h>> \in Seq(Byte)
  BY EncodeTlvShape
<1>2. e \in Seq(Byte) /\ Len(e) \in Nat /\ Len(e) >= 1
  BY <1>0, EncodeLengthType DEF Fits
<1> HIDE DEF f, e, h
<1>3. /\ data \in Seq(Byte) /\ Len(data) = Len(f) + Len(rest) /\ data[1] = h /\ Len(rest) \in Nat
  <2>1. Len(data) = Len(f) + Len(rest) /\ Len(rest) \in Nat
    BY <1>1, ConcatProperties
  <2>2. data[1] = f[1]
    BY <1>0, <1>1, <1>2, FrontOfConcat
  <2> QED
    BY <1>1, <2>1, <2>2, FrontOfConcat DEF h
<1>4. ASSUME NEW r \in Seq(Byte)
      PROVE  LengthAt(f \o r, 2) = [bytes |-> Len(e), length |-> Len(v)]
  <2>1. f \o r = <<h>> \o (e \o (v \o r))
    <3>1. (<<h>> \o (e \o v)) \o r = <<h>> \o ((e \o v) \o r)
      <4> DEFINE g == <<h>>
                 w == e \o v
      <4>1. w \in Seq(Byte) /\ g \in Seq(Byte)
        BY <1>1, <1>2, ConcatProperties
      <4> HIDE DEF g, w
      <4>2. (g \o w) \o r = g \o (w \o r)
        BY SMTT(40), <4>1, ConcatBytes
      <4> QED
        BY <4>2 DEF g, w
    <3>2. (e \o v) \o r = e \o (v \o r)
      BY SMTT(40), <1>2, ConcatBytes
    <3> QED
      BY <1>1, <3>1, <3>2
  <2>2. v \o r \in Seq(Byte) /\ e \o (v \o r) \in Seq(Byte)
    BY <1>2, ConcatProperties
  <2>3. Len(<<h>>) = 1 /\ 1 \in Nat \ {0} /\ 1 + 1 = 2
    OBVIOUS
  <2>4. LengthAt(<<h>> \o (e \o (v \o r)), 1 + 1) = LengthAt(e \o (v \o r), 1)
    BY ZenonT(60), <1>1, <2>2, <2>3, LengthShift
  <2>5. LengthAt(e \o (v \o r), 1) = [bytes |-> Len(e), length |-> Len(v)]
    BY <1>0, <2>2, LengthReadsBack DEF e, Fits
  <2> QED
    BY <2>1, <2>3, <2>4, <2>5
<1>5. LengthAt(data, 1 + 1) = [bytes |-> Len(e), length |-> Len(v)]
  BY <1>4
<1>6. LengthAt(f, 2) = [bytes |-> Len(e), length |-> Len(v)]
  <2>1. <<>> \in Seq(Byte) /\ f \o <<>> = f
    BY <1>1, ConcatEmptySeq
  <2> QED
    BY <1>4, <2>1
<1> HIDE DEF data
<1>7. LengthAt(data, 1 + 1) # None
  <2>1. [bytes |-> Len(e), length |-> Len(v)] \in [bytes : Nat, length : Nat]
    BY <1>0, <1>2
  <2> QED
    BY <1>5, <2>1, TlvAssumption
<1>p. PICK b \in Nat, l \in Nat :
        /\ b = Len(e) /\ l = Len(v) /\ LengthAt(data, 1 + 1).bytes = b /\ LengthAt(data, 1 + 1).length = l
  BY <1>0, <1>2, <1>5
<1>8. Reads(data, 1)
  <2>1. 1 <= Len(data) /\ 1 + b + l <= Len(data)
    BY SMTT(40), <1>1, <1>3, <1>p
  <2>2. data[1] % 32 # 31
    BY <1>1, <1>3
  <2> QED
    BY <1>7, <1>p, <2>1, <2>2 DEF Reads
<1>q. FirstAt(data, 1) = 2 + b /\ NextAt(data, 1) = 2 + b + l
  <2>1. FirstAt(data, 1) = 1 + 1 + LengthAt(data, 1 + 1).bytes
    BY DEF FirstAt
  <2>2. NextAt(data, 1) = FirstAt(data, 1) + LengthAt(data, 1 + 1).length
    BY DEF NextAt
  <2>3. FirstAt(data, 1) = 1 + 1 + b
    BY <1>p, <2>1
  <2>4. NextAt(data, 1) = FirstAt(data, 1) + l
    BY <1>p, <2>2
  <2> QED
    BY <2>3, <2>4
<1>9. FirstAt(data, 1) = (1 + Len(e)) + 1 /\ NextAt(data, 1) = Len(f) + 1
      /\ NextAt(data, 1) - 1 = (1 + Len(e)) + Len(v)
  <2>1. Len(f) = 1 + b + l
    BY <1>1, <1>p
  <2> QED
    BY <2>1, <1>p, <1>q
<1>10. SubSeq(data, (1 + Len(e)) + 1, (1 + Len(e)) + Len(v)) = v
  <2> DEFINE g == <<h>> \o e
  <2>1. g \in Seq(Byte) /\ Len(g) = 1 + Len(e)
    <3>1. Len(<<h>> \o e) = Len(<<h>>) + Len(e)
      BY <1>1, <1>2, ConcatProperties
    <3> QED
      BY <1>1, <1>2, <3>1, ConcatProperties
  <2>2. data = g \o (v \o rest)
    <3>1. f = g \o v
      BY <1>1
    <3> HIDE DEF g
    <3> QED
      BY <2>1, <3>1, ConcatBytes DEF data
  <2>3. v \o rest \in Seq(Byte) /\ Len(v \o rest) = Len(v) + Len(rest)
    BY ConcatProperties
  <2> HIDE DEF g
  <2>4. 1 \in Nat /\ 1 >= 1 /\ Len(v) >= 1 - 1 /\ Len(v) <= Len(v \o rest)
    BY <1>0, <1>3, <2>3
  <2>5. SubSeq(g \o (v \o rest), Len(g) + 1, Len(g) + Len(v)) = SubSeq(v \o rest, 1, Len(v))
    BY <1>0, <2>1, <2>3, <2>4, SubSeqShift
  <2>6. SubSeq(v \o rest, 1, Len(v)) = v
    OBVIOUS
  <2> QED
    BY <2>1, <2>2, <2>5, <2>6
<1>11. FieldAt(data, 1) = Field(id, v)
  <2>1. ((h \div 32) % 2 = 1) = FALSE
    BY <1>1
  <2> QED
    BY <1>1, <1>3, <1>9, <1>10, <2>1 DEF FieldAt, Field
<1> QED
  BY <1>3, <1>6, <1>8, <1>9, <1>11 DEF data, f, e

\* Tlv::parse_all takes one written field at a time.
LEMMA ParseFirst ==
  ASSUME NEW id \in Nat, OneByteTag(id), NEW v \in Seq(Byte), Fits(v),
         NEW rest \in Seq(Byte)
  PROVE  ParseAll(EncodeTlv(id, v) \o rest) = <<Field(id, v)>> \o ParseAll(rest)
<1> DEFINE f == EncodeTlv(id, v)
           data == f \o rest
<1>1. /\ data \in Seq(Byte) /\ Reads(data, 1)
      /\ FieldAt(data, 1) = Field(id, v) /\ NextAt(data, 1) = Len(f) + 1
  BY FieldIsRead
<1>2. f \in Seq(Byte)
  BY EncodeTlvShape
<1> HIDE DEF f
<1>3. PICK p : ParsedAs(p, data) /\ ParseAll(data) = p[1]
  BY <1>1, ParseRuns
<1>4. PICK q : ParsedAs(q, rest) /\ ParseAll(rest) = q[1]
  BY ParseRuns
<1>5. p[Len(f) + 1] = q[1]
  <2>1. \A j \in 1..Len(rest) + 1 : p[Len(f) + j] = q[j]
    BY <1>2, <1>3, <1>4, ParseShift
  <2> QED
    BY <2>1
<1>6. p[1] = ReadFrom(p, data, 1)
  BY <1>1, <1>3 DEF ParsedAs
<1> HIDE DEF data
<1> QED
  BY <1>1, <1>3, <1>4, <1>5, <1>6 DEF ReadFrom, data, f

\* No data has no fields.
LEMMA ParseNothing == ParseAll(<<>>) = <<>>
<1>1. <<>> \in Seq(Byte) /\ Len(<<>>) = 0
  OBVIOUS
<1>2. PICK p : ParsedAs(p, <<>>) /\ ParseAll(<<>>) = p[1]
  BY <1>1, ParseRuns
<1>3. ~Reads(<<>>, 1)
  BY DEF Reads
<1>4. p[1] = ReadFrom(p, <<>>, 1)
  BY <1>1, <1>2 DEF ParsedAs
<1> QED
  BY <1>2, <1>3, <1>4 DEF ReadFrom

\* Nothing is read of a part of a field.
LEMMA ParseCut ==
  ASSUME NEW id \in Nat, OneByteTag(id), NEW v \in Seq(Byte), Fits(v),
         NEW k \in Nat, k < Len(EncodeTlv(id, v))
  PROVE  ParseAll(SubSeq(EncodeTlv(id, v), 1, k)) = <<>>
<1> DEFINE f == EncodeTlv(id, v)
           e == EncodeLength(Len(v))
           cut == SubSeq(f, 1, k)
           more == SubSeq(f, k + 1, Len(f))
<1>0. Len(v) \in Nat
  OBVIOUS
<1>1. f \in Seq(Byte) /\ Len(f) = 1 + Len(e) + Len(v)
  BY EncodeTlvShape
<1>2. e \in Seq(Byte) /\ Len(e) \in Nat /\ Len(e) >= 1
  BY <1>0, EncodeLengthType DEF Fits
<1>3. LengthAt(f, 2) = [bytes |-> Len(e), length |-> Len(v)]
  <2>1. <<>> \in Seq(Byte)
    OBVIOUS
  <2> QED
    BY <2>1, FieldIsRead
<1>k. k \in Nat /\ k < Len(f)
  OBVIOUS
<1> HIDE DEF f, e
<1>4. cut \in Seq(Byte) /\ Len(cut) = k /\ more \in Seq(Byte) /\ f = cut \o more
  <2>1. cut \in Seq(Byte) /\ Len(cut) = k
    BY <1>1, <1>k
  <2>2. more \in Seq(Byte)
    BY <1>1, <1>k
  <2>3. f = cut \o more
    <3>1. 1 \in 1..Len(f) + 1 /\ k \in 1 - 1..Len(f) /\ Len(f) \in k..Len(f)
      BY <1>1, <1>k
    <3> QED
      BY <1>1, <3>1, ConcatAdjacentSubSeq, SubSeqFull
  <2> QED
    BY <2>1, <2>2, <2>3
<1> HIDE DEF cut, more
<1>5. ~Reads(cut, 1)
  <2> SUFFICES ASSUME Reads(cut, 1) PROVE FALSE
    OBVIOUS
  <2>1. LengthAt(cut, 2) # None
    BY DEF Reads
  <2>2. LengthAt(cut, 2) = LengthAt(f, 2)
    BY <1>4, <2>1, LengthPrefix
  <2>3. PICK b \in Nat, l \in Nat :
          /\ b = Len(e) /\ l = Len(v) /\ LengthAt(cut, 1 + 1).bytes = b /\ LengthAt(cut, 1 + 1).length = l
    BY <1>0, <1>2, <1>3, <2>2
  <2>4. 1 + b + l <= k
    BY <1>4, <2>3 DEF Reads
  <2> QED
    BY <1>1, <1>k, <2>3, <2>4
<1>6. PICK p : ParsedAs(p, cut) /\ ParseAll(cut) = p[1]
  BY <1>4, ParseRuns
<1>7. p[1] = ReadFrom(p, cut, 1)
  BY <1>4, <1>6 DEF ParsedAs
<1> QED
  BY <1>5, <1>6, <1>7 DEF ReadFrom, cut, f

-----------------------------------------------------------------------------
(* Fields written one after the other *)

\* What FlattenSeq makes of the first so many sequences.
FlattensTo(F, seqs) ==
  /\ \A i \in 1..Len(seqs) : F[i] = IF i = 1 THEN seqs[i] ELSE F[i - 1] \o seqs[i]
  /\ FlattenSeq(seqs) = F[Len(seqs)]

\* There is such a function, and FlattenSeq is its last value.
LEMMA FlattenStates ==
  ASSUME NEW seqs, Len(seqs) \in Nat, Len(seqs) # 0
  PROVE  \E F : FlattensTo(F, seqs)
<1> DEFINE n == Len(seqs)
           Step(F, i) == IF i = 1 THEN seqs[i] ELSE F[i - 1] \o seqs[i]
           Runs(F, k) == F = [i \in 1..k |-> Step(F, i)]
           S == {k \in Nat : \E F : Runs(F, k)}
<1>1. 0 \in S
  <2> DEFINE F == [i \in 1..0 |-> seqs[i]]
  <2>1. Runs(F, 0)
    OBVIOUS
  <2> HIDE DEF F, Runs
  <2> QED
    BY <2>1
<1>2. ASSUME NEW k \in Nat, k \in S PROVE k + 1 \in S
  <2>1. PICK F : Runs(F, k)
    BY <1>2
  <2> DEFINE G == [i \in 1..k + 1 |-> IF i = k + 1 THEN Step(F, k + 1) ELSE F[i]]
  <2>2. \A i \in 1..k + 1 : i = k + 1 \/ i \in 1..k
    OBVIOUS
  <2>3. \A i \in 1..k : i # k + 1 /\ i \in 1..k + 1
    OBVIOUS
  <2>4. ASSUME NEW i \in 1..k + 1 PROVE G[i] = Step(G, i)
    <3>1. i = 1 \/ i - 1 \in 1..k
      OBVIOUS
    <3>2. i # 1 => G[i - 1] = F[i - 1]
      BY <2>3, <3>1
    <3>3. Step(G, i) = Step(F, i)
      BY <3>2
    <3>4. CASE i = k + 1
      BY <3>3, <3>4
    <3>5. CASE i \in 1..k
      <4>1. F[i] = Step(F, i)
        BY <2>1, <3>5
      <4>2. G[i] = F[i]
        BY <2>3, <3>5
      <4> QED
        BY <3>3, <4>1, <4>2
    <3> QED
      BY <2>2, <3>4, <3>5
  <2>5. Runs(G, k + 1)
    <3>1. G = [i \in 1..k + 1 |-> G[i]]
      OBVIOUS
    <3> HIDE DEF G, Step
    <3> QED
      BY <2>4, <3>1
  <2> HIDE DEF G, Runs
  <2> QED
    BY <2>5
<1>3. \E F : Runs(F, n)
  <2> HIDE DEF S
  <2>1. n \in S
    BY <1>1, <1>2, SetInduction
  <2> QED
    BY <2>1 DEF S
<1> DEFINE H == CHOOSE F : Runs(F, n)
<1>4. Runs(H, n)
  BY <1>3
<1>5. FlattenSeq(seqs) = H[n]
  BY DEF FlattenSeq
<1>6. \A i \in 1..n : H[i] = Step(H, i)
  <2> HIDE DEF H, Step
  <2> QED
    BY <1>4
<1> HIDE DEF H
<1> QED
  BY <1>5, <1>6 DEF FlattensTo

\* So many fields of this program's own: numbers, values.
Fields(n, ids, vals) ==
  /\ n \in Nat
  /\ \A i \in 1..n : /\ ids[i] \in Nat /\ OneByteTag(ids[i])
                     /\ vals[i] \in Seq(Byte) /\ Fits(vals[i])

\* The front of a sequence that was put together.
LEMMA FrontOfTwo ==
  ASSUME NEW a \in Seq(Byte), NEW b \in Seq(Byte), NEW k \in Nat, k <= Len(a) + Len(b)
  PROVE  SubSeq(a \o b, 1, k) = IF k <= Len(a) THEN SubSeq(a, 1, k)
                                ELSE a \o SubSeq(b, 1, k - Len(a))
<1> DEFINE ab == a \o b
           m == Len(a)
<1>0. m \in Nat /\ Len(b) \in Nat
  OBVIOUS
<1>1. /\ ab \in Seq(Byte) /\ Len(ab) = m + Len(b)
      /\ \A i \in 1..m + Len(b) : ab[i] = IF i <= m THEN a[i] ELSE b[i - m]
  BY ConcatProperties
<1>2. CASE k <= m
  <2> DEFINE s == SubSeq(ab, 1, k)
             t == SubSeq(a, 1, k)
  <2>1. s \in Seq(Byte) /\ Len(s) = k - 1 + 1 /\ \A j \in 1..Len(s) : s[j] = ab[1 + j - 1]
    <3>1. 1 \in Nat /\ 1 >= 1 /\ k >= 1 - 1 /\ k <= Len(ab)
      BY <1>0, <1>1
    <3> HIDE DEF ab
    <3> QED
      BY <1>1, <3>1, PartOf
  <2>2. t \in Seq(Byte) /\ Len(t) = k - 1 + 1 /\ \A j \in 1..Len(t) : t[j] = a[1 + j - 1]
    <3>1. 1 \in Nat /\ 1 >= 1 /\ k >= 1 - 1 /\ k <= Len(a)
      BY <1>2
    <3> QED
      BY <3>1, PartOf
  <2> HIDE DEF s, t, ab, m
  <2>3. ASSUME NEW j \in 1..Len(s) PROVE s[j] = t[j]
    <3>1. j \in 1..Len(t) /\ 1 + j - 1 = j /\ j \in 1..m + Len(b) /\ j <= m
      BY <1>0, <1>2, <2>1, <2>2
    <3> QED
      BY <1>1, <2>1, <2>2, <3>1
  <2>4. s = t
    BY <2>1, <2>2, <2>3, SeqEqual
  <2> QED
    BY <1>2, <2>4 DEF s, t, ab, m
<1>3. CASE ~(k <= m)
  <2> DEFINE s == SubSeq(ab, 1, k)
             u == SubSeq(b, 1, k - m)
             t == a \o u
  <2>0. k - m \in Nat /\ k - m <= Len(b) /\ k - m >= 0
    BY <1>0, <1>3
  <2>1. s \in Seq(Byte) /\ Len(s) = k - 1 + 1 /\ \A j \in 1..Len(s) : s[j] = ab[1 + j - 1]
    <3>1. 1 \in Nat /\ 1 >= 1 /\ k >= 1 - 1 /\ k <= Len(ab)
      BY <1>0, <1>1
    <3> HIDE DEF ab
    <3> QED
      BY <1>1, <3>1, PartOf
  <2>2. u \in Seq(Byte) /\ Len(u) = (k - m) - 1 + 1 /\ \A j \in 1..Len(u) : u[j] = b[1 + j - 1]
    <3>1. 1 \in Nat /\ 1 >= 1 /\ k - m >= 1 - 1
      BY <2>0
    <3> HIDE DEF m
    <3> QED
      BY <2>0, <3>1, PartOf
  <2> HIDE DEF u
  <2>3. /\ t \in Seq(Byte) /\ Len(t) = m + Len(u)
        /\ \A i \in 1..m + Len(u) : t[i] = IF i <= m THEN a[i] ELSE u[i - m]
    BY <2>2, ConcatProperties
  <2> HIDE DEF s, t, ab, m
  <2>4. Len(u) = k - m /\ Len(t) = k /\ Len(s) = k
    BY <1>0, <2>0, <2>1, <2>2, <2>3
  <2>5. ASSUME NEW j \in 1..Len(s) PROVE s[j] = t[j]
    <3>1. j \in 1..k /\ 1 + j - 1 = j /\ j \in 1..m + Len(b) /\ j \in 1..m + Len(u)
      BY <1>0, <2>0, <2>4
    <3>2. s[j] = ab[j]
      BY <2>1, <3>1
    <3>3. CASE j <= m
      BY <1>1, <2>3, <3>1, <3>2, <3>3
    <3>4. CASE ~(j <= m)
      <4>1. j - m \in 1..Len(u) /\ 1 + (j - m) - 1 = j - m
        BY <1>0, <2>0, <2>4, <3>1, <3>4
      <4>2. u[j - m] = b[j - m]
        BY <2>2, <4>1
      <4> QED
        BY <1>1, <2>3, <3>1, <3>2, <3>4, <4>2
    <3> QED
      BY <3>3, <3>4
  <2>6. s = t
    BY <2>1, <2>3, <2>4, <2>5, SeqEqual
  <2> QED
    BY <1>3, <2>6 DEF s, t, u, ab, m
<1> QED
  BY <1>2, <1>3

\* Fields written one after the other are read back as they were written; of
\* any part of them, the ones that are whole in it.
ReadBack(n, ids, vals) ==
  LET fields == [i \in 1..n |-> Field(ids[i], vals[i])]
      bytes  == FlattenSeq([i \in 1..n |-> EncodeTlv(ids[i], vals[i])])
  IN  /\ bytes \in Seq(Byte)
      /\ ParseAll(bytes) = fields
      /\ \A k \in 0..Len(bytes) : \E j \in 0..n : ParseAll(SubSeq(bytes, 1, k)) = SubSeq(fields, 1, j)

LEMMA FieldsReadBack ==
  ASSUME NEW n, NEW ids, NEW vals, Fields(n, ids, vals), n # 0
  PROVE  ReadBack(n, ids, vals)
<1> DEFINE seqs   == [i \in 1..n |-> EncodeTlv(ids[i], vals[i])]
           fields == [i \in 1..n |-> Field(ids[i], vals[i])]
           bytes  == FlattenSeq(seqs)
           T == {fields[i] : i \in 1..n}
<1>n. n \in Nat
  BY DEF Fields
<1>1. Len(seqs) = n /\ \A i \in 1..n : seqs[i] = EncodeTlv(ids[i], vals[i])
  BY <1>n
<1>2. fields \in Seq(T) /\ Len(fields) = n /\ \A i \in 1..n : fields[i] = Field(ids[i], vals[i])
  BY <1>n
<1>3. \A i \in 1..n : /\ ids[i] \in Nat /\ OneByteTag(ids[i])
                      /\ vals[i] \in Seq(Byte) /\ Fits(vals[i])
  BY DEF Fields
<1>4. \A i \in 1..n : seqs[i] \in Seq(Byte)
  BY <1>1, <1>3, EncodeTlvShape
<1>5. PICK F : FlattensTo(F, seqs)
  <2> HIDE DEF seqs
  <2> QED
    BY <1>1, <1>n, FlattenStates
<1>f. /\ \A i \in 1..n : F[i] = IF i = 1 THEN seqs[i] ELSE F[i - 1] \o seqs[i]
      /\ bytes = F[n]
  <2> HIDE DEF seqs
  <2> QED
    BY <1>1, <1>5 DEF FlattensTo
<1> HIDE DEF seqs, T, fields, bytes
<1>6. ASSUME NEW i \in 1..n, NEW rest \in Seq(Byte)
      PROVE  /\ ParseAll(seqs[i] \o rest) = <<fields[i]>> \o ParseAll(rest)
             /\ seqs[i] \o rest \in Seq(Byte)
  <2>1. ParseAll(EncodeTlv(ids[i], vals[i]) \o rest) = <<Field(ids[i], vals[i])>> \o ParseAll(rest)
    BY <1>3, ParseFirst
  <2>2. seqs[i] \o rest \in Seq(Byte)
    BY <1>4, ConcatProperties
  <2> QED
    BY <1>1, <1>2, <2>1, <2>2
<1>7. ASSUME NEW i \in 1..n, NEW k \in Nat, k < Len(seqs[i])
      PROVE  ParseAll(SubSeq(seqs[i], 1, k)) = <<>>
  BY <1>1, <1>3, <1>7, ParseCut
<1>8. \A i \in 1..n : fields[i] \in T
  BY DEF T
<1> DEFINE Whole(i) == \A rest \in Seq(Byte) :
                         ParseAll(rest) \in Seq(T) =>
                           ParseAll(F[i] \o rest) = SubSeq(fields, 1, i) \o ParseAll(rest)
           Parts(i) == \A k \in 0..Len(F[i]) :
                         \E j \in 0..i : ParseAll(SubSeq(F[i], 1, k)) = SubSeq(fields, 1, j)
           Good(i)  == F[i] \in Seq(Byte) /\ Whole(i) /\ Parts(i)
           S == {m \in Nat : m + 1 <= n => Good(m + 1)}
<1>9. ASSUME NEW i \in 1..n
      PROVE  <<fields[i]>> \in Seq(T) /\ SubSeq(fields, 1, i - 1) \in Seq(T)
             /\ SubSeq(fields, 1, i - 1) \o <<fields[i]>> = SubSeq(fields, 1, i)
  <2>1. 1 \in 1..Len(fields) /\ i \in 1..Len(fields) /\ i \in 1..i
    BY <1>2
  <2>2. SubSeq(fields, 1, i) = SubSeq(fields, 1, i - 1) \o <<fields[i]>>
    BY <1>2, <2>1, SubSeqRecursiveSecond
  <2>3. SubSeq(fields, 1, i - 1) \in Seq(T)
    <3>1. 1 \in Int /\ i - 1 \in Int /\ \A j \in 1..i - 1 : fields[j] \in T
      BY <1>n, <1>8
    <3> QED
      BY <3>1, SubSeqProperties
  <2>4. <<fields[i]>> \in Seq(T)
    BY <1>8
  <2> QED
    BY <2>2, <2>3, <2>4
<1>e. <<>> \in Seq(Byte) /\ <<>> \in Seq(T) /\ ParseAll(<<>>) = <<>>
  BY ParseNothing, EmptySeq
<1>w. ASSUME NEW i \in 1..n, NEW G \in Seq(Byte),
             \A rest \in Seq(Byte) : ParseAll(rest) \in Seq(T) =>
               ParseAll(G \o rest) = SubSeq(fields, 1, i - 1) \o ParseAll(rest),
             NEW rest \in Seq(Byte), ParseAll(rest) \in Seq(T)
      PROVE  ParseAll((G \o seqs[i]) \o rest) = SubSeq(fields, 1, i) \o ParseAll(rest)
  <2>1. (G \o seqs[i]) \o rest = G \o (seqs[i] \o rest)
    BY <1>4, ConcatBytes
  <2>2. seqs[i] \o rest \in Seq(Byte) /\ ParseAll(seqs[i] \o rest) = <<fields[i]>> \o ParseAll(rest)
    BY <1>6
  <2>3. <<fields[i]>> \o ParseAll(rest) \in Seq(T)
    BY <1>9, <1>w, ConcatProperties
  <2>4. ParseAll(G \o (seqs[i] \o rest)) = SubSeq(fields, 1, i - 1) \o (<<fields[i]>> \o ParseAll(rest))
    BY <1>w, <2>2, <2>3
  <2>5. SubSeq(fields, 1, i - 1) \o (<<fields[i]>> \o ParseAll(rest)) =
          (SubSeq(fields, 1, i - 1) \o <<fields[i]>>) \o ParseAll(rest)
    <3> DEFINE s == SubSeq(fields, 1, i - 1)
               t == <<fields[i]>>
               u == ParseAll(rest)
    <3>1. s \in Seq(T) /\ t \in Seq(T) /\ u \in Seq(T)
      BY <1>9, <1>w
    <3> HIDE DEF s, t, u
    <3>2. (s \o t) \o u = s \o (t \o u)
      BY <3>1, ConcatAssociative
    <3> QED
      BY <3>2 DEF s, t, u
  <2> QED
    BY <1>9, <2>1, <2>4, <2>5
<1>10. 0 \in S
  <2> SUFFICES Good(1)
    <3>1. 0 \in Nat /\ 0 + 1 = 1
      OBVIOUS
    <3> HIDE DEF Good
    <3> QED
      BY <3>1
  <2>0. 1 \in 1..n
    BY <1>n
  <2>1. F[1] = seqs[1] /\ seqs[1] \in Seq(Byte)
    BY <1>f, <1>4, <2>0
  <2>2. SubSeq(fields, 1, 1) = <<fields[1]>>
    <3>1. SubSeq(fields, 1, 1 - 1) = <<>>
      BY SubSeqEmpty
    <3>2. <<>> \o <<fields[1]>> = <<fields[1]>>
      BY <1>9, <2>0, ConcatEmptySeq
    <3> QED
      BY <1>9, <2>0, <3>1, <3>2
  <2>3. Whole(1)
    BY <1>6, <2>0, <2>1, <2>2
  <2>4. Parts(1)
    <3> SUFFICES ASSUME NEW k \in 0..Len(seqs[1])
                 PROVE  \E j \in 0..1 : ParseAll(SubSeq(seqs[1], 1, k)) = SubSeq(fields, 1, j)
      BY <2>1
    <3>1. Len(seqs[1]) \in Nat /\ k \in Nat
      BY <2>1
    <3>2. CASE k < Len(seqs[1])
      <4>1. ParseAll(SubSeq(seqs[1], 1, k)) = <<>>
        BY <1>7, <2>0, <3>1, <3>2
      <4>2. SubSeq(fields, 1, 0) = <<>>
        BY SubSeqEmpty
      <4>3. 0 \in 0..1
        OBVIOUS
      <4> QED
        BY <4>1, <4>2, <4>3
    <3>3. CASE k = Len(seqs[1])
      <4>1. SubSeq(seqs[1], 1, k) = seqs[1] /\ seqs[1] \o <<>> = seqs[1]
        BY <2>1, <3>3, SubSeqFull, ConcatEmptySeq
      <4>2. ParseAll(seqs[1]) = SubSeq(fields, 1, 1) \o <<>>
        BY <1>e, <2>1, <2>3, <4>1
      <4>3. SubSeq(fields, 1, 1) \o <<>> = SubSeq(fields, 1, 1)
        BY <1>9, <2>0, <2>2, ConcatEmptySeq
      <4>4. 1 \in 0..1
        OBVIOUS
      <4> QED
        BY <4>1, <4>2, <4>3, <4>4
    <3> QED
      BY <3>1, <3>2, <3>3
  <2> QED
    BY <2>1, <2>3, <2>4
<1>11. ASSUME NEW m \in Nat, m \in S PROVE m + 1 \in S
  <2> SUFFICES ASSUME (m + 1) + 1 <= n PROVE Good((m + 1) + 1)
    OBVIOUS
  <2> DEFINE i == (m + 1) + 1
             G == F[m + 1]
             E == seqs[i]
  <2>0. i \in 1..n /\ i - 1 = m + 1 /\ i # 1 /\ m + 1 <= n /\ i \in Nat /\ m + 1 \in Nat
    BY <1>n
  <2>1. G \in Seq(Byte) /\ Whole(m + 1) /\ Parts(m + 1)
    BY <1>11, <2>0
  <2>2. F[i] = G \o E /\ E \in Seq(Byte)
    BY <1>f, <1>4, <2>0
  <2>3. F[i] \in Seq(Byte) /\ Len(F[i]) = Len(G) + Len(E) /\ Len(G) \in Nat /\ Len(E) \in Nat
    BY <2>1, <2>2, ConcatProperties
  <2> HIDE DEF i, E, G
  <2>4. Whole(i)
    <3> SUFFICES ASSUME NEW rest \in Seq(Byte), ParseAll(rest) \in Seq(T)
                 PROVE  ParseAll((G \o E) \o rest) = SubSeq(fields, 1, i) \o ParseAll(rest)
      BY <2>2
    <3>1. \A r \in Seq(Byte) : ParseAll(r) \in Seq(T) =>
            ParseAll(G \o r) = SubSeq(fields, 1, i - 1) \o ParseAll(r)
      BY <2>0, <2>1 DEF G
    <3> QED
      BY <1>w, <2>0, <2>1, <3>1 DEF E
  <2>5. Parts(i)
    <3> SUFFICES ASSUME NEW k \in 0..Len(G) + Len(E)
                 PROVE  \E j \in 0..i : ParseAll(SubSeq(G \o E, 1, k)) = SubSeq(fields, 1, j)
      BY <2>2, <2>3
    <3>0. k \in Nat /\ k <= Len(G) + Len(E)
      BY <2>3
    <3>1. CASE k <= Len(G)
      <4>1. SubSeq(G \o E, 1, k) = SubSeq(G, 1, k)
        BY <2>1, <2>2, <3>0, <3>1, FrontOfTwo
      <4>2. \E j \in 0..m + 1 : ParseAll(SubSeq(G, 1, k)) = SubSeq(fields, 1, j)
        <5>1. k \in 0..Len(G)
          BY <2>3, <3>0, <3>1
        <5> QED
          BY <2>1, <5>1 DEF G
      <4>3. \A j \in 0..m + 1 : j \in 0..i
        BY <2>0
      <4> QED
        BY <4>1, <4>2, <4>3
    <3>2. CASE ~(k <= Len(G)) /\ k < Len(G) + Len(E)
      <4> DEFINE l == k - Len(G)
                 r == SubSeq(E, 1, l)
      <4>1. l \in Nat /\ l < Len(E) /\ l <= Len(E)
        BY <2>3, <3>0, <3>2
      <4>2. SubSeq(G \o E, 1, k) = G \o r
        BY <2>1, <2>2, <3>0, <3>2, FrontOfTwo
      <4> HIDE DEF l
      <4>3. r \in Seq(Byte) /\ ParseAll(r) = <<>>
        <5>1. r \in Seq(Byte)
          BY <2>2, <4>1
        <5>2. ParseAll(r) = <<>>
          BY <1>7, <2>0, <4>1 DEF E
        <5> QED
          BY <5>1, <5>2
      <4> HIDE DEF r
      <4>4. ParseAll(G \o r) = SubSeq(fields, 1, m + 1) \o <<>>
        BY <1>e, <2>1, <4>3 DEF G
      <4>5. SubSeq(fields, 1, m + 1) \o <<>> = SubSeq(fields, 1, m + 1)
        <5>1. SubSeq(fields, 1, i - 1) \in Seq(T)
          BY <1>9, <2>0
        <5> QED
          BY <2>0, <5>1, ConcatEmptySeq
      <4>6. m + 1 \in 0..i
        BY <2>0
      <4> QED
        BY <4>2, <4>4, <4>5, <4>6
    <3>3. CASE k = Len(G) + Len(E)
      <4>1. SubSeq(G \o E, 1, k) = G \o E /\ (G \o E) \o <<>> = G \o E
        BY <2>2, <2>3, <3>3, SubSeqFull, ConcatEmptySeq
      <4>2. ParseAll((G \o E) \o <<>>) = SubSeq(fields, 1, i) \o <<>>
        BY <1>e, <2>2, <2>4
      <4>3. SubSeq(fields, 1, i) \o <<>> = SubSeq(fields, 1, i)
        <5>1. SubSeq(fields, 1, i) \in Seq(T)
          <6>1. 1 \in Int /\ i \in Int /\ \A j \in 1..i : fields[j] \in T
            BY <1>n, <1>8, <2>0
          <6> QED
            BY <6>1, SubSeqProperties
        <5> QED
          BY <5>1, ConcatEmptySeq
      <4>4. i \in 0..i
        BY <2>0
      <4> QED
        BY <4>1, <4>2, <4>3, <4>4
    <3> QED
      BY <2>3, <3>0, <3>1, <3>2, <3>3
  <2> QED
    BY <2>3, <2>4, <2>5 DEF i
<1>12. Good(n)
  <2>1. n - 1 \in Nat /\ (n - 1) + 1 = n
    BY <1>n
  <2>2. n - 1 \in S
    <3> HIDE DEF S
    <3> QED
      BY <1>10, <1>11, <2>1, SetInduction
  <2> HIDE DEF Good
  <2> QED
    BY <1>n, <2>1, <2>2
<1>13. ParseAll(F[n]) = fields
  <2>1. F[n] \o <<>> = F[n]
    BY <1>12, ConcatEmptySeq
  <2>2. ParseAll(F[n] \o <<>>) = SubSeq(fields, 1, n) \o <<>>
    BY <1>e, <1>12
  <2>3. SubSeq(fields, 1, n) = fields /\ fields \o <<>> = fields
    BY <1>2, SubSeqFull, ConcatEmptySeq
  <2> QED
    BY <2>1, <2>2, <2>3
<1> QED
  BY <1>f, <1>12, <1>13 DEF ReadBack, seqs, fields, bytes
=============================================================================
