---------------------------- MODULE LinkProofs -----------------------------
(***************************************************************************)
(* The phone and an honest lock never get out of step, for every key,      *)
(* every random, every mixture of requests and any number in flight:       *)
(* LinkInv is inductive.                                                   *)
(***************************************************************************)
EXTENDS SspLink, CoreProofs

-----------------------------------------------------------------------------
(* Links *)

\* Any sequence is a link's.
LEMMA SequenceIsQueue ==
  ASSUME NEW T, NEW r \in Seq(T)
  PROVE  IsQueue(r)
<1> DEFINE U == {r[i] : i \in DOMAIN r}
<1>1. DOMAIN r = 1..Len(r) /\ Len(r) \in Nat
  OBVIOUS
<1>2. \A i \in 1..Len(r) : r[i] \in U
  BY <1>1
<1> HIDE DEF U
<1>3. r \in Seq(U)
  BY <1>1, <1>2
<1> QED BY <1>3 DEF IsQueue, U

\* The oldest packet is taken off; the others move up.
LEMMA TakenOff ==
  ASSUME NEW q, IsQueue(q), q # <<>>, NEW r, r = Tail(q)
  PROVE  /\ IsQueue(r)
         /\ 1 \in DOMAIN q /\ Head(q) = q[1]
         /\ \A i \in DOMAIN r : i + 1 \in DOMAIN q \ {1} /\ r[i] = q[i + 1]
<1> DEFINE T == {q[i] : i \in DOMAIN q}
<1>1. q \in Seq(T)
  BY DEF IsQueue
<1> HIDE DEF T
<1>2. /\ r \in Seq(T) /\ DOMAIN r = 1..(Len(q) - 1) /\ DOMAIN q = 1..Len(q)
      /\ Len(q) \in Nat \ {0} /\ Len(r) = Len(q) - 1 /\ Head(q) = q[1]
      /\ \A i \in 1..(Len(q) - 1) : r[i] = q[i + 1]
  BY <1>1
<1>3. \A i \in DOMAIN r : i + 1 \in DOMAIN q \ {1} /\ r[i] = q[i + 1]
  BY <1>2
<1>4. r \in Seq(T)
  BY <1>2
<1>5. IsQueue(r)
  BY <1>4, SequenceIsQueue
<1> QED BY <1>2, <1>3, <1>5

\* A packet is sent behind the others.
LEMMA PutOn ==
  ASSUME NEW q, IsQueue(q), NEW p, NEW r, r = Append(q, p)
  PROVE  /\ IsQueue(r)
         /\ \A i \in DOMAIN r : (i \in DOMAIN q /\ r[i] = q[i]) \/ (i \notin DOMAIN q /\ r[i] = p)
         /\ \A i \in DOMAIN r \ DOMAIN q : \A j \in DOMAIN r \ {i} : j \in DOMAIN q
<1> DEFINE T == {q[i] : i \in DOMAIN q}
           U == T \cup {p}
<1>1. q \in Seq(T) /\ DOMAIN q = 1..Len(q) /\ Len(q) \in Nat
  BY DEF IsQueue
<1>2. q \in Seq(U)
  BY <1>1
<1> HIDE DEF T, U
<1>3. p \in U
  BY DEF U
<1>4. /\ r \in Seq(U) /\ DOMAIN r = 1..(Len(q) + 1) /\ Len(r) = Len(q) + 1
      /\ r[Len(q) + 1] = p
      /\ \A i \in 1..Len(q) : r[i] = q[i]
  BY <1>2, <1>3
<1>5. r \in Seq(U)
  BY <1>4
<1>6. IsQueue(r)
  BY <1>5, SequenceIsQueue
<1> QED BY <1>1, <1>4, <1>6

-----------------------------------------------------------------------------
(* What the phone makes of the lock's requests *)

\* An answer r to p: the phone keeps going, sealed what it says under the key
\* and the IV it ends up with, and moved that IV behind it.
AnswersSealed(r, control, body, key, iv) ==
  /\ r.err = None
  /\ r.out = Sealed(control, body, key, iv)
  /\ r.st.ssp.iv = LastBlock(key, iv, body)

\* Where the phone is after it: its mobile key is the same, and key is current.
EndsUp(k, r, state, randomB, key) ==
  /\ StackOK(r.st) /\ r.st.ssp.kn = k.ssp.kn
  /\ r.st.ssp.state = state /\ r.st.ssp.randomB = randomB
  /\ CurrentKey(r.st.ssp) = key

\* A command the phone knows is answered.
LEMMA KnownCommand ==
  ASSUME NEW k, NEW c \in DataCommands, NEW secure
  PROVE  ProcessJustin(k, c, secure).err = None
<1> DEFINE flagged == [k.justin EXCEPT !.secure = secure]
           q == ProcessCommand(flagged, NoopKeyStore, c)
<1>1. c.op \in {"Open", "Close", "ReadTag", "WriteTag"}
  BY LinkAssumption DEF CommandType, CommandOpCode
<1>2. ASSUME NEW j PROVE ProcessCommand(j, NoopKeyStore, c).err = None
  <2>1. HandleOpen(j, NoopKeyStore, c).err = None /\ HandleClose(j).err = None
    BY DEF HandleOpen, HandleClose, Refuse, Respond
  <2>2. HandleReadTag(j, c).err = None
    BY DEF HandleReadTag, Refuse, Respond
  <2>3. HandleWriteTag(j, c).err = None
    BY DEF HandleWriteTag, Refuse, Respond
  <2> QED BY <1>1, <2>1, <2>2, <2>3 DEF ProcessCommand
<1>3. ProcessJustin(k, c, secure).err = q.err
  BY DEF ProcessJustin
<1> QED BY <1>2, <1>3

\* Asides are answered in the clear and touch nothing of SSP.
LEMMA AsideHandled ==
  ASSUME NEW k, StackOK(k), NEW p, Aside(p), NEW b
  PROVE  LET r == HandlePacket(k, p, b)
         IN  /\ r.err = None /\ r.out.form = "plain"
             /\ StackOK(r.st) /\ r.st.ssp = k.ssp
<1> DEFINE r == HandlePacket(k, p, b)
<1>1. CASE p = Plain(TRUE, Control("GetVersion", None, None))
  <2> DEFINE q == Succeed(k.ssp, p.body)
  <2>1. p.form = "plain" /\ p.control /\ p.body.op = "GetVersion"
    BY <1>1 DEF Plain, Control
  <2>2. ProcessPacket(k.ssp, p, b) = HandleGetVersion(k.ssp)
    BY <2>1 DEF ProcessPacket, Succeed, ProcessControlPacket
  <2>3. HandlePacket(k, p, b) = WithSsp(k, HandleGetVersion(k.ssp))
    BY <2>1, <2>2 DEF HandlePacket
  <2> QED BY <2>3 DEF WithSsp, HandleGetVersion, Succeed, Plain, StackOK
<1>2. CASE \E c \in DataCommands : p = Plain(FALSE, c)
  <2>1. PICK c \in DataCommands : p = Plain(FALSE, c)
    BY <1>2
  <2> DEFINE q == ProcessJustin(k, c, FALSE)
  <2>2. c \in CommandType /\ q.err = None
    BY KnownCommand, LinkAssumption
  <2>3. StackOK(q.st) /\ q.st.ssp = k.ssp
    BY <2>2, JustinStep
  <2>4. q = [st |-> q.st, err |-> q.err, out |-> q.out]
    BY DEF ProcessJustin
  <2>5. p.form = "plain" /\ ~p.control /\ p.body = c
    BY <2>1 DEF Plain
  <2>6. HandlePacket(k, p, b) = [q EXCEPT !.out = Plain(FALSE, q.out)]
    BY <2>2, <2>5 DEF HandlePacket, HandlePlainData
  <2> HIDE DEF q
  <2> QED BY <2>2, <2>3, <2>4, <2>6 DEF Plain
<1> QED BY <1>1, <1>2 DEF Aside

\* The challenge.
LEMMA Step1Handled ==
  ASSUME NEW k, StackOK(k), k.ssp.state = "Ready", NEW b \in Block,
         NEW p, p = Plain(TRUE, Control("OpenSessionStep1", None, None))
  PROVE  LET r == HandlePacket(k, p, b)
         IN  /\ AnswersSealed(r, TRUE, Control("OpenSessionStep1", b, None),
                              CurrentKey(k.ssp), k.ssp.iv)
             /\ EndsUp(k, r, "AuthStep1", b, CurrentKey(k.ssp))
<1> DEFINE s == k.ssp
           r == HandlePacket(k, p, b)
           q == HandleOpenSessionStep1(s, FALSE, b)
           drawn == [s EXCEPT !.randomB = b]
           body == Control("OpenSessionStep1", b, None)
           moved == [drawn EXCEPT !.iv = LastBlock(CurrentKey(drawn), drawn.iv, body)]
           done == [moved EXCEPT !.state = "AuthStep1"]
<1>1. SspInv(s) /\ SspTypeOK(s)
  BY DEF StackOK, SspInv
<1>2. p.form = "plain" /\ p.control /\ p.body.op = "OpenSessionStep1"
  BY DEF Plain, Control
<1>3. r = WithSsp(k, q)
  BY <1>2 DEF HandlePacket, ProcessPacket, Succeed, ProcessControlPacket
<1>4. q = [st |-> done, err |-> None, out |-> Sealed(TRUE, body, CurrentKey(drawn), drawn.iv)]
  BY DEF HandleOpenSessionStep1, Seal, Succeed
<1>5. /\ drawn.iv = s.iv /\ drawn.kn = s.kn /\ drawn.sessionKey = s.sessionKey
      /\ drawn.randomB = b /\ CurrentKey(drawn) = CurrentKey(s)
  BY <1>1 DEF SspTypeOK, CurrentKey
<1>6. /\ done.iv = LastBlock(CurrentKey(s), s.iv, body) /\ done.kn = s.kn
      /\ done.sessionKey = s.sessionKey /\ done.randomB = b /\ done.state = "AuthStep1"
  BY <1>1, <1>5 DEF SspTypeOK
<1>7. SspInv(q.st) /\ StaysOpen(s, q.st)
  BY <1>1, Step1KeepsInv
<1> HIDE DEF q, done, drawn, r, body
<1>8. StackOK(r.st) /\ r.st.ssp = q.st /\ r.err = q.err /\ r.out = q.out
  BY <1>3, <1>7, SspStep
<1>9. q.st = done /\ q.err = None /\ q.out = Sealed(TRUE, body, CurrentKey(s), s.iv)
  BY <1>4, <1>5
<1> QED BY <1>6, <1>8, <1>9 DEF AnswersSealed, EndsUp, CurrentKey, r, body

\* A packet sealed as the phone expects it opens, and moves the IV only.
LEMMA Opens ==
  ASSUME NEW s, SspInv(s), NEW control, NEW body,
         NEW p, p = Sealed(control, body, CurrentKey(s), s.iv)
  PROVE  LET t == [s EXCEPT !.iv = LastBlock(CurrentKey(s), s.iv, body)]
         IN  /\ Unseal(s, p) = Succeed(t, body)
             /\ SspInv(t) /\ t.iv = LastBlock(CurrentKey(s), s.iv, body)
             /\ t.kn = s.kn /\ t.sessionKey = s.sessionKey /\ CurrentKey(t) = CurrentKey(s)
             /\ t.state = s.state /\ t.randomB = s.randomB
<1> DEFINE t == [s EXCEPT !.iv = LastBlock(CurrentKey(s), s.iv, body)]
<1>1. Unseal(s, p) = Succeed(t, body)
  BY DEF Unseal, Sealed
<1>2. SspInv(t) /\ t.state = s.state /\ t.sessionKey = s.sessionKey /\ t.randomB = s.randomB
  BY MovedIv DEF SspInv
<1>3. t.iv = LastBlock(CurrentKey(s), s.iv, body) /\ t.kn = s.kn
  BY DEF SspInv, SspTypeOK
<1> HIDE DEF t
<1>4. CurrentKey(t) = CurrentKey(s)
  BY <1>2, <1>3 DEF CurrentKey
<1> QED BY <1>1, <1>2, <1>3, <1>4 DEF t

\* A sealed control request reaches its handler with the IV already moved.
LEMMA ControlOpened ==
  ASSUME NEW k, SspInv(k.ssp), NEW body,
         NEW p, p = Sealed(TRUE, body, CurrentKey(k.ssp), k.ssp.iv), NEW b
  PROVE  HandlePacket(k, p, b)
           = WithSsp(k, ProcessControlPacket(
               [k.ssp EXCEPT !.iv = LastBlock(CurrentKey(k.ssp), k.ssp.iv, body)], body, TRUE, b))
<1>1. p.form = "sealed" /\ p.control
  BY DEF Sealed
<1> DEFINE t == [k.ssp EXCEPT !.iv = LastBlock(CurrentKey(k.ssp), k.ssp.iv, body)]
<1>2. Unseal(k.ssp, p) = Succeed(t, body)
  BY DEF Unseal, Sealed
<1> HIDE DEF t
<1>3. ProcessPacket(k.ssp, p, b) = ProcessControlPacket(t, body, TRUE, b)
  <2>1. /\ Succeed(t, body).st = t /\ Succeed(t, body).out = body
        /\ Succeed(t, body).err = None
    BY DEF Succeed
  <2>2. (p.form # "plain") = TRUE
    BY <1>1
  <2>3. ProcessPacket(k.ssp, p, b) = ProcessControlPacket(t, body, p.form # "plain", b)
    BY <1>1, <1>2, <2>1 DEF ProcessPacket
  <2> QED BY <2>2, <2>3
<1>4. HandlePacket(k, p, b) = WithSsp(k, ProcessPacket(k.ssp, p, b))
  BY <1>1 DEF HandlePacket
<1> QED BY <1>3, <1>4 DEF t

\* The lock's proof is the rotated challenge; the answer still goes out under
\* the old key, and the session key comes after.
LEMMA Step2Handled ==
  ASSUME NEW k, StackOK(k), k.ssp.state = "AuthStep1", k.ssp.randomB \in Block,
         NEW a \in Block, NEW b,
         NEW body, body = Control("OpenSessionStep2", a, RotateRight(k.ssp.randomB)),
         NEW p, p = Sealed(TRUE, body, CurrentKey(k.ssp), k.ssp.iv)
  PROVE  LET r == HandlePacket(k, p, b)
         IN  /\ AnswersSealed(r, TRUE, Control("OpenSessionStep2", RotateRight(a), None),
                              CurrentKey(k.ssp), LastBlock(p.key, p.iv, p.body))
             /\ EndsUp(k, r, "InSession", k.ssp.randomB, DeriveSessionKey(a, k.ssp.randomB))
<1> DEFINE s == k.ssp
           old == CurrentKey(s)
           t == [s EXCEPT !.iv = LastBlock(old, s.iv, body)]
           heard == [t EXCEPT !.randomA = a]
           reply == Control("OpenSessionStep2", RotateRight(a), None)
           moved == [heard EXCEPT !.iv = LastBlock(CurrentKey(heard), heard.iv, reply)]
           key == DeriveSessionKey(a, s.randomB)
           keyed == [moved EXCEPT !.sessionKey = key]
           done == [keyed EXCEPT !.state = "InSession"]
           q == HandleOpenSessionStep2(t, body, TRUE)
           r == HandlePacket(k, p, b)
<1>1. SspInv(s)
  BY DEF StackOK
<1>2. /\ SspInv(t) /\ t.iv = LastBlock(old, s.iv, body) /\ t.kn = s.kn
      /\ CurrentKey(t) = old /\ t.sessionKey = s.sessionKey
      /\ t.state = "AuthStep1" /\ t.randomB = s.randomB
  BY <1>1, Opens
<1>3. /\ body.op = "OpenSessionStep2" /\ body.a = a /\ body.b = RotateRight(s.randomB)
      /\ RotateRight(s.randomB) \in Block
  BY RotatedIsBlock DEF Control
<1>4. r = WithSsp(k, ProcessControlPacket(t, body, TRUE, b))
  BY <1>1, ControlOpened
<1> HIDE DEF t
<1>5. r = WithSsp(k, q)
  BY <1>3, <1>4 DEF ProcessControlPacket
<1>6. body \in ControlType
  BY <1>3 DEF ControlType, OpCode, Control
<1>7. SspInv(q.st) /\ StaysOpen(s, q.st)
  BY <1>2, <1>6, Step2KeepsInv DEF StaysOpen
<1>8. q = [st |-> done, err |-> None,
           out |-> Sealed(TRUE, reply, CurrentKey(heard), heard.iv)]
  BY <1>2, <1>3, NoneAssumption DEF HandleOpenSessionStep2, Seal, Succeed
<1>9. /\ heard.iv = LastBlock(old, s.iv, body) /\ CurrentKey(heard) = old
      /\ heard.kn = s.kn /\ heard.randomB = s.randomB
  BY <1>2 DEF SspInv, SspTypeOK, CurrentKey
<1>10. /\ done.iv = LastBlock(old, LastBlock(old, s.iv, body), reply) /\ done.kn = s.kn
       /\ done.sessionKey = key /\ done.randomB = s.randomB /\ done.state = "InSession"
  BY <1>2, <1>9 DEF SspInv, SspTypeOK
<1> HIDE DEF q, done, heard, moved, keyed, r, reply
<1>11. StackOK(r.st) /\ r.st.ssp = q.st /\ r.err = q.err /\ r.out = q.out
  BY <1>5, <1>7, SspStep
<1>12. /\ q.st = done /\ q.err = None
       /\ q.out = Sealed(TRUE, reply, old, LastBlock(old, s.iv, body))
  BY <1>8, <1>9
<1>13. LastBlock(p.key, p.iv, p.body) = LastBlock(old, s.iv, body)
  BY DEF Sealed
<1>14. CurrentKey(done) = done.sessionKey
  BY <1>7, <1>10, <1>12 DEF SspInv, CurrentKey
<1> QED BY <1>10, <1>11, <1>12, <1>13, <1>14 DEF AnswersSealed, EndsUp, r, reply

\* A new key is installed before the answer, which goes out under it.
LEMMA SetKeyHandled ==
  ASSUME NEW k, StackOK(k), k.ssp.state = "InSession", NEW new \in Block, NEW b,
         NEW body, body = Control("SetKeyValue", new, None),
         NEW p, p = Sealed(TRUE, body, CurrentKey(k.ssp), k.ssp.iv)
  PROVE  LET r == HandlePacket(k, p, b)
         IN  /\ AnswersSealed(r, TRUE, Control("SetKeyValue", None, None),
                              new, LastBlock(p.key, p.iv, p.body))
             /\ EndsUp(k, r, "InSession", k.ssp.randomB, new)
<1> DEFINE s == k.ssp
           old == CurrentKey(s)
           t == [s EXCEPT !.iv = LastBlock(old, s.iv, body)]
           keyed == [t EXCEPT !.sessionKey = new]
           reply == Control("SetKeyValue", None, None)
           done == [keyed EXCEPT !.iv = LastBlock(CurrentKey(keyed), keyed.iv, reply)]
           q == HandleSetKeyValue(t, body)
           r == HandlePacket(k, p, b)
<1>1. SspInv(s) /\ new # None
  BY NoneAssumption DEF StackOK
<1>2. /\ SspInv(t) /\ t.iv = LastBlock(old, s.iv, body) /\ t.kn = s.kn
      /\ t.state = "InSession" /\ t.randomB = s.randomB
  BY <1>1, Opens
<1>3. body.op = "SetKeyValue" /\ body.a = new /\ body.b = None
  BY DEF Control
<1>4. r = WithSsp(k, ProcessControlPacket(t, body, TRUE, b))
  BY <1>1, ControlOpened
<1> HIDE DEF t
<1>5. r = WithSsp(k, q)
  BY <1>3, <1>4 DEF ProcessControlPacket
<1>6. body \in ControlType
  BY <1>3 DEF ControlType, OpCode, Control
<1>7. SspInv(q.st) /\ StaysOpen(s, q.st)
  BY <1>2, <1>6, SetKeyKeepsInv DEF StaysOpen
<1>8. q = [st |-> done, err |-> None,
           out |-> Sealed(TRUE, reply, CurrentKey(keyed), keyed.iv)]
  BY <1>1, <1>2, <1>3 DEF HandleSetKeyValue, Seal, Succeed
<1>9. /\ keyed.iv = LastBlock(old, s.iv, body) /\ CurrentKey(keyed) = new
      /\ keyed.kn = s.kn /\ keyed.randomB = s.randomB
  BY <1>1, <1>2 DEF SspInv, SspTypeOK, CurrentKey
<1>10. /\ done.iv = LastBlock(new, LastBlock(old, s.iv, body), reply) /\ done.kn = s.kn
       /\ done.sessionKey = new /\ done.randomB = s.randomB /\ done.state = "InSession"
  BY <1>2, <1>9 DEF SspInv, SspTypeOK
<1> HIDE DEF q, done, keyed, r, reply
<1>11. StackOK(r.st) /\ r.st.ssp = q.st /\ r.err = q.err /\ r.out = q.out
  BY <1>5, <1>7, SspStep
<1>12. /\ q.st = done /\ q.err = None
       /\ q.out = Sealed(TRUE, reply, new, LastBlock(old, s.iv, body))
  BY <1>8, <1>9
<1>13. LastBlock(p.key, p.iv, p.body) = LastBlock(old, s.iv, body)
  BY DEF Sealed
<1>14. CurrentKey(done) = done.sessionKey
  BY <1>7, <1>10, <1>12 DEF SspInv, CurrentKey
<1> QED BY <1>10, <1>11, <1>12, <1>13, <1>14 DEF AnswersSealed, EndsUp, r, reply

\* A sealed command is opened, handled and answered sealed, under one key.
LEMMA DataHandled ==
  ASSUME NEW k, StackOK(k), k.ssp.state = "InSession", NEW b,
         NEW c \in DataCommands,
         NEW p, p = Sealed(FALSE, c, CurrentKey(k.ssp), k.ssp.iv)
  PROVE  LET r == HandlePacket(k, p, b)
         IN  /\ \E out : AnswersSealed(r, FALSE, out, CurrentKey(k.ssp),
                                       LastBlock(p.key, p.iv, p.body))
             /\ EndsUp(k, r, "InSession", k.ssp.randomB, CurrentKey(k.ssp))
<1> DEFINE s == k.ssp
           old == CurrentKey(s)
           t == [s EXCEPT !.iv = LastBlock(old, s.iv, c)]
           q == ProcessPacket(s, p, None)
           opened == WithSsp(k, q)
           handled == ProcessJustin(opened.st, opened.out, TRUE)
           w == WrapData(handled.st.ssp, handled.out)
           done == [t EXCEPT !.iv = LastBlock(old, t.iv, handled.out)]
           r == HandlePacket(k, p, b)
<1>1. SspInv(s) /\ p.form = "sealed" /\ ~p.control /\ c \in CommandType
  BY LinkAssumption DEF StackOK, Sealed
<1>2. /\ Unseal(s, p) = Succeed(t, c) /\ SspInv(t) /\ t.iv = LastBlock(old, s.iv, c)
      /\ t.kn = s.kn /\ t.sessionKey = s.sessionKey /\ CurrentKey(t) = old
      /\ t.state = "InSession" /\ t.randomB = s.randomB
  <2>1. Unseal(s, p) = Succeed(t, c)
    BY DEF Unseal, Sealed
  <2> QED BY <1>1, <2>1, Opens
<1> HIDE DEF t
<1>3. Succeed(t, c).st = t /\ Succeed(t, c).err = None /\ Succeed(t, c).out = c
  BY DEF Succeed
<1>4. q.st = t /\ q.err = None /\ q.out = c
  <2>1. q = ProcessDataPacket(t, c)
    BY <1>1, <1>2, <1>3 DEF ProcessPacket
  <2> QED BY <1>2, <1>3, <2>1 DEF ProcessDataPacket
<1>5. StackOK(opened.st) /\ opened.st.ssp = t /\ opened.err = None /\ opened.out = c
  <2> HIDE DEF q
  <2>1. SspInv(q.st) /\ StaysOpen(k.ssp, q.st)
    BY <1>2, <1>4 DEF StaysOpen
  <2> QED BY <1>4, <2>1, SspStep
<1>6. r = IF handled.err # None THEN handled ELSE WithSsp(handled.st, w)
  BY <1>1, <1>5 DEF HandlePacket, HandleEncryptedData
<1> HIDE DEF opened, r
<1>7. StackOK(handled.st) /\ handled.st.ssp = t /\ handled.err = None
  <2>1. handled.err = None
    BY <1>5, KnownCommand
  <2>2. opened.out \in CommandType /\ StackOK(opened.st)
    BY <1>1, <1>5
  <2>3. StackOK(handled.st) /\ handled.st.ssp = opened.st.ssp
    BY <2>2, JustinStep
  <2> QED BY <1>5, <2>1, <2>3
<1> HIDE DEF handled
<1>8. w = Succeed(done, Sealed(FALSE, handled.out, old, t.iv))
  BY <1>2, <1>7 DEF WrapData, Seal
<1>9. /\ done.iv = LastBlock(old, t.iv, handled.out) /\ done.kn = s.kn
      /\ done.sessionKey = s.sessionKey /\ done.randomB = s.randomB
      /\ done.state = "InSession" /\ SspInv(done)
  <2>1. SspInv(done) /\ done.state = "InSession" /\ done.randomB = s.randomB
        /\ done.sessionKey = s.sessionKey
    BY <1>2, MovedIv DEF SspInv
  <2>2. done.iv = LastBlock(old, t.iv, handled.out) /\ done.kn = s.kn
    BY <1>2 DEF SspInv, SspTypeOK
  <2> QED BY <2>1, <2>2
<1>10. w.st = done /\ w.err = None /\ w.out = Sealed(FALSE, handled.out, old, t.iv)
  BY <1>8 DEF Succeed
<1> HIDE DEF w, done
<1>11. StackOK(r.st) /\ r.st.ssp = done /\ r.err = None
       /\ r.out = Sealed(FALSE, handled.out, old, t.iv)
  <2>1. r = WithSsp(handled.st, w)
    BY <1>6, <1>7
  <2>2. SspInv(w.st) /\ StaysOpen(handled.st.ssp, w.st)
    BY <1>7, <1>9, <1>10 DEF StaysOpen
  <2>3. StackOK(r.st) /\ r.st.ssp = w.st /\ r.err = w.err /\ r.out = w.out
    BY <1>7, <2>1, <2>2, SspStep
  <2> QED
    BY <1>10, <2>3
<1>12. LastBlock(p.key, p.iv, p.body) = t.iv
  BY <1>2 DEF Sealed
<1>13. CurrentKey(done) = old
  BY <1>9 DEF CurrentKey
<1> QED BY <1>9, <1>11, <1>12, <1>13 DEF AnswersSealed, EndsUp, r

-----------------------------------------------------------------------------
(* The invariant is kept *)

\* What the invariant says of the phone is what the lemmas on Stack ask for.
LEMMA PhoneFits == LinkInv => StackOK(phone)
<1> SUFFICES ASSUME LinkInv PROVE StackOK(phone)
  OBVIOUS
<1>1. /\ SspTypeOK(phone.ssp) /\ JustinTypeOK(phone.justin)
      /\ phone \in [ssp : {phone.ssp}, justin : {phone.justin}]
  BY DEF LinkInv, TypesFit
<1>2. SspInv(phone.ssp)
  BY <1>1, NoneAssumption DEF LinkInv, StagesFit, SspInv
<1> QED BY <1>1, <1>2 DEF StackOK

\* With nothing outstanding there is nothing but asides on their way.
LEMMA Idle ==
  ASSUME LinkInv, ~Outstanding
  PROVE  /\ \A i \in DOMAIN toPhone : Aside(toPhone[i])
         /\ \A i \in DOMAIN toLock : toLock[i].form = "plain"
  BY DEF LinkInv, OneExchange, Outstanding, Asks, Answers, Accepts

\* What a link carries after a packet is sent on it, and after one is taken.
LEMMA Sent ==
  ASSUME LinkInv, NEW p
  PROVE  /\ toPhone' = Append(toPhone, p) =>
              /\ IsQueue(toPhone)'
              /\ \A i \in DOMAIN toPhone' :
                   (i \in DOMAIN toPhone /\ toPhone'[i] = toPhone[i])
                     \/ (i \notin DOMAIN toPhone /\ toPhone'[i] = p)
              /\ \A i \in DOMAIN toPhone' \ DOMAIN toPhone :
                   \A j \in DOMAIN toPhone' \ {i} : j \in DOMAIN toPhone
         /\ toLock' = Append(toLock, p) =>
              /\ IsQueue(toLock)'
              /\ \A i \in DOMAIN toLock' :
                   (i \in DOMAIN toLock /\ toLock'[i] = toLock[i])
                     \/ (i \notin DOMAIN toLock /\ toLock'[i] = p)
              /\ \A i \in DOMAIN toLock' \ DOMAIN toLock :
                   \A j \in DOMAIN toLock' \ {i} : j \in DOMAIN toLock
<1>1. IsQueue(toPhone) /\ IsQueue(toLock)
  BY DEF LinkInv, TypesFit
<1> QED BY <1>1, PutOn DEF IsQueue

LEMMA Taken ==
  ASSUME LinkInv
  PROVE  /\ toPhone # <<>> /\ toPhone' = Tail(toPhone) =>
              /\ IsQueue(toPhone)'
              /\ 1 \in DOMAIN toPhone /\ Head(toPhone) = toPhone[1]
              /\ \A i \in DOMAIN toPhone' :
                   i + 1 \in DOMAIN toPhone \ {1} /\ toPhone'[i] = toPhone[i + 1]
         /\ toLock # <<>> /\ toLock' = Tail(toLock) =>
              /\ IsQueue(toLock)'
              /\ 1 \in DOMAIN toLock /\ Head(toLock) = toLock[1]
              /\ \A i \in DOMAIN toLock' :
                   i + 1 \in DOMAIN toLock \ {1} /\ toLock'[i] = toLock[i + 1]
<1>1. IsQueue(toPhone) /\ IsQueue(toLock)
  BY DEF LinkInv, TypesFit
<1> QED BY <1>1, TakenOff DEF IsQueue

\* A new sealed request is then the only one.
LEMMA NewRequest ==
  ASSUME LinkInv, ~Outstanding, NEW p,
         toPhone' = Append(toPhone, p), toLock' = toLock, Asks(p)'
  PROVE  OneExchange' /\ IsQueue(toPhone)' /\ IsQueue(toLock)'
<1>1. /\ IsQueue(toPhone)'
      /\ \A i \in DOMAIN toPhone' :
           (i \in DOMAIN toPhone /\ toPhone'[i] = toPhone[i])
             \/ (i \notin DOMAIN toPhone /\ toPhone'[i] = p)
      /\ \A i \in DOMAIN toPhone' \ DOMAIN toPhone :
           \A j \in DOMAIN toPhone' \ {i} : j \in DOMAIN toPhone
  BY Sent
<1>2. \A i \in DOMAIN toPhone' : Aside(toPhone'[i]) \/ toPhone'[i] = p
  BY <1>1, Idle
<1>3. ASSUME NEW i \in DOMAIN toPhone', ~Aside(toPhone'[i])
      PROVE  /\ toPhone'[i] = p
             /\ \A j \in DOMAIN toPhone' \ {i} : Aside(toPhone'[j])
  BY <1>1, <1>3, Idle
<1>4. \A i \in DOMAIN toLock' : toLock'[i].form = "plain"
  BY Idle
<1>5. \A i \in DOMAIN toPhone' :
        \/ Aside(toPhone'[i])
        \/ /\ Asks(toPhone[i])'
           /\ \A j \in DOMAIN toPhone' \ {i} : Aside(toPhone'[j])
  BY <1>3 DEF Asks
<1>6. OneExchange'
  BY <1>4, <1>5 DEF OneExchange
<1>7. IsQueue(toLock)'
  BY DEF LinkInv, TypesFit, IsQueue
<1> QED BY <1>1, <1>6, <1>7

\* Asides come and go: they are no part of an exchange.
LEMMA AnotherAside ==
  ASSUME LinkInv, NEW p, Aside(p),
         toPhone' = Append(toPhone, p), UNCHANGED <<toLock, lock, phone>>
  PROVE  OneExchange' /\ IsQueue(toPhone)' /\ IsQueue(toLock)'
<1>1. /\ IsQueue(toPhone)'
      /\ \A i \in DOMAIN toPhone' :
           (i \in DOMAIN toPhone /\ toPhone'[i] = toPhone[i])
             \/ (i \notin DOMAIN toPhone /\ toPhone'[i] = p)
  BY Sent
<1>2. IsQueue(toLock)'
  BY DEF LinkInv, TypesFit, IsQueue
<1>3. \A i \in DOMAIN toPhone' :
        \/ Aside(toPhone'[i])
        \/ /\ Asks(toPhone[i])'
           /\ \A j \in DOMAIN toPhone' \ {i} : Aside(toPhone'[j])
           /\ \A j \in DOMAIN toLock' : toLock'[j].form = "plain"
  <2>1. \A i \in DOMAIN toPhone : Asks(toPhone[i]) /\ toPhone'[i] = toPhone[i] => Asks(toPhone[i])'
    BY DEF Asks
  <2> QED BY <1>1, <2>1 DEF LinkInv, OneExchange
<1>4. \A i \in DOMAIN toLock' :
        \/ toLock'[i].form = "plain"
        \/ /\ Answers(toLock[i])'
           /\ \A j \in DOMAIN toLock' \ {i} : toLock'[j].form = "plain"
           /\ \A j \in DOMAIN toPhone' : Aside(toPhone'[j])
  <2>1. \A i \in DOMAIN toLock : Answers(toLock[i]) => Answers(toLock[i])'
    BY DEF Answers, Accepts
  <2> QED BY <1>1, <2>1 DEF LinkInv, OneExchange
<1>5. OneExchange'
  BY <1>3, <1>4 DEF OneExchange
<1> QED BY <1>1, <1>2, <1>5

\* The phone answers an aside with a plain packet, and stays as it was for SSP.
LEMMA AsideAnswered ==
  ASSUME LinkInv, toPhone # <<>>, Aside(Head(toPhone)), toPhone' = Tail(toPhone),
         NEW out, out.form = "plain", toLock' = Append(toLock, out),
         lock' = lock, phone'.ssp = phone.ssp
  PROVE  OneExchange' /\ IsQueue(toPhone)' /\ IsQueue(toLock)'
<1>1. /\ IsQueue(toPhone)'
      /\ 1 \in DOMAIN toPhone /\ Head(toPhone) = toPhone[1]
      /\ \A i \in DOMAIN toPhone' :
           i + 1 \in DOMAIN toPhone \ {1} /\ toPhone'[i] = toPhone[i + 1]
  BY Taken
<1>2. /\ IsQueue(toLock)'
      /\ \A i \in DOMAIN toLock' :
           (i \in DOMAIN toLock /\ toLock'[i] = toLock[i])
             \/ (i \notin DOMAIN toLock /\ toLock'[i] = out)
  BY Sent
<1>3. \A i \in DOMAIN toPhone' :
        \/ Aside(toPhone'[i])
        \/ /\ Asks(toPhone[i])'
           /\ \A j \in DOMAIN toPhone' \ {i} : Aside(toPhone'[j])
           /\ \A j \in DOMAIN toLock' : toLock'[j].form = "plain"
  <2> SUFFICES ASSUME NEW i \in DOMAIN toPhone', ~Aside(toPhone'[i])
               PROVE  /\ Asks(toPhone[i])'
                      /\ \A j \in DOMAIN toPhone' \ {i} : Aside(toPhone'[j])
                      /\ \A j \in DOMAIN toLock' : toLock'[j].form = "plain"
    OBVIOUS
  <2>1. /\ i + 1 \in DOMAIN toPhone /\ toPhone'[i] = toPhone[i + 1]
        /\ i \in Int
    BY <1>1 DEF IsQueue
  <2>2. /\ Asks(toPhone[i + 1])
        /\ \A j \in DOMAIN toPhone \ {i + 1} : Aside(toPhone[j])
        /\ \A j \in DOMAIN toLock : toLock[j].form = "plain"
    BY <2>1 DEF LinkInv, OneExchange
  <2>3. Asks(toPhone[i])'
    BY <2>1, <2>2 DEF Asks
  <2>4. ASSUME NEW j \in DOMAIN toPhone' \ {i} PROVE Aside(toPhone'[j])
    <3>1. j + 1 \in DOMAIN toPhone \ {i + 1} /\ toPhone'[j] = toPhone[j + 1]
      BY <1>1, <2>1 DEF IsQueue
    <3> QED BY <2>2, <3>1
  <2> QED BY <1>2, <2>2, <2>3, <2>4
<1>4. \A i \in DOMAIN toLock' :
        \/ toLock'[i].form = "plain"
        \/ /\ Answers(toLock[i])'
           /\ \A j \in DOMAIN toLock' \ {i} : toLock'[j].form = "plain"
           /\ \A j \in DOMAIN toPhone' : Aside(toPhone'[j])
  <2>1. \A i \in DOMAIN toLock :
          Answers(toLock[i]) /\ toLock'[i] = toLock[i] => Answers(toLock[i])'
    BY DEF Answers, Accepts
  <2> QED BY <1>1, <1>2, <2>1 DEF LinkInv, OneExchange
<1>5. OneExchange'
  BY <1>3, <1>4 DEF OneExchange
<1> QED BY <1>1, <1>2, <1>5

\* The phone's answer to the request takes the request's place.
LEMMA RequestAnswered ==
  ASSUME LinkInv, toPhone # <<>>, ~Aside(Head(toPhone)), toPhone' = Tail(toPhone),
         NEW out, toLock' = Append(toLock, out), Answers(out)'
  PROVE  OneExchange' /\ IsQueue(toPhone)' /\ IsQueue(toLock)'
<1>1. /\ IsQueue(toPhone)'
      /\ 1 \in DOMAIN toPhone /\ Head(toPhone) = toPhone[1]
      /\ \A i \in DOMAIN toPhone' :
           i + 1 \in DOMAIN toPhone \ {1} /\ toPhone'[i] = toPhone[i + 1]
  BY Taken
<1>2. /\ IsQueue(toLock)'
      /\ \A i \in DOMAIN toLock' :
           (i \in DOMAIN toLock /\ toLock'[i] = toLock[i])
             \/ (i \notin DOMAIN toLock /\ toLock'[i] = out)
      /\ \A i \in DOMAIN toLock' \ DOMAIN toLock :
           \A j \in DOMAIN toLock' \ {i} : j \in DOMAIN toLock
  BY Sent
<1>3. /\ \A j \in DOMAIN toPhone \ {1} : Aside(toPhone[j])
      /\ \A j \in DOMAIN toLock : toLock[j].form = "plain"
  BY <1>1 DEF LinkInv, OneExchange
<1>4. \A i \in DOMAIN toPhone' : Aside(toPhone'[i])
  BY <1>1, <1>3
<1>5. \A i \in DOMAIN toLock' :
        \/ toLock'[i].form = "plain"
        \/ Answers(toLock[i])' /\ \A j \in DOMAIN toLock' \ {i} : toLock'[j].form = "plain"
  <2> SUFFICES ASSUME NEW i \in DOMAIN toLock', toLock'[i].form # "plain"
               PROVE  /\ Answers(toLock[i])'
                      /\ \A j \in DOMAIN toLock' \ {i} : toLock'[j].form = "plain"
    OBVIOUS
  <2>1. i \notin DOMAIN toLock /\ toLock'[i] = out
    BY <1>2, <1>3
  <2>2. Answers(toLock[i])'
    BY <2>1 DEF Answers, Accepts
  <2> QED BY <1>2, <1>3, <2>1, <2>2
<1>6. OneExchange'
  BY <1>4, <1>5 DEF OneExchange
<1> QED BY <1>1, <1>2, <1>6

\* Taking an answer ends the exchange; taking a plain packet changes nothing.
LEMMA ReplyTaken ==
  ASSUME LinkInv, toLock # <<>>, toLock' = Tail(toLock), UNCHANGED <<phone, toPhone>>,
         Head(toLock).form = "plain" => lock' = lock
  PROVE  OneExchange' /\ IsQueue(toPhone)' /\ IsQueue(toLock)'
<1>1. /\ IsQueue(toLock)'
      /\ 1 \in DOMAIN toLock /\ Head(toLock) = toLock[1]
      /\ \A i \in DOMAIN toLock' :
           i + 1 \in DOMAIN toLock \ {1} /\ toLock'[i] = toLock[i + 1]
  BY Taken
<1>2. IsQueue(toPhone)'
  BY DEF LinkInv, TypesFit, IsQueue
<1>3. CASE Head(toLock).form # "plain"
  <2>1. /\ \A j \in DOMAIN toLock \ {1} : toLock[j].form = "plain"
        /\ \A j \in DOMAIN toPhone : Aside(toPhone[j])
    BY <1>1, <1>3 DEF LinkInv, OneExchange
  <2> QED BY <1>1, <1>2, <2>1 DEF OneExchange
<1>4. CASE Head(toLock).form = "plain"
  <2>1. \A i \in DOMAIN toPhone' :
          \/ Aside(toPhone'[i])
          \/ /\ Asks(toPhone[i])'
             /\ \A j \in DOMAIN toPhone' \ {i} : Aside(toPhone'[j])
             /\ \A j \in DOMAIN toLock' : toLock'[j].form = "plain"
    <3>1. \A i \in DOMAIN toPhone : Asks(toPhone[i]) => Asks(toPhone[i])'
      BY <1>4 DEF Asks
    <3> QED BY <1>1, <3>1 DEF LinkInv, OneExchange
  <2>2. \A i \in DOMAIN toLock' :
          \/ toLock'[i].form = "plain"
          \/ /\ Answers(toLock[i])'
             /\ \A j \in DOMAIN toLock' \ {i} : toLock'[j].form = "plain"
             /\ \A j \in DOMAIN toPhone' : Aside(toPhone'[j])
    <3> SUFFICES ASSUME NEW i \in DOMAIN toLock', toLock'[i].form # "plain"
                 PROVE  /\ Answers(toLock[i])'
                        /\ \A j \in DOMAIN toLock' \ {i} : toLock'[j].form = "plain"
                        /\ \A j \in DOMAIN toPhone' : Aside(toPhone'[j])
      OBVIOUS
    <3>1. i + 1 \in DOMAIN toLock /\ toLock'[i] = toLock[i + 1] /\ i \in Int
      BY <1>1 DEF IsQueue
    <3>2. /\ Answers(toLock[i + 1])
          /\ \A j \in DOMAIN toLock \ {i + 1} : toLock[j].form = "plain"
          /\ \A j \in DOMAIN toPhone : Aside(toPhone[j])
      BY <3>1 DEF LinkInv, OneExchange
    <3>3. Answers(toLock[i])'
      BY <1>4, <3>1, <3>2 DEF Answers, Accepts
    <3>4. ASSUME NEW j \in DOMAIN toLock' \ {i} PROVE toLock'[j].form = "plain"
      <4>1. j + 1 \in DOMAIN toLock \ {i + 1} /\ toLock'[j] = toLock[j + 1]
        BY <1>1, <3>1 DEF IsQueue
      <4> QED BY <3>2, <4>1
    <3> QED BY <3>2, <3>3, <3>4
  <2>3. OneExchange'
    BY <2>1, <2>2 DEF OneExchange
  <2> QED BY <1>1, <1>2, <2>3
<1> QED BY <1>3, <1>4

-----------------------------------------------------------------------------
(* One step at a time *)

\* The handshake starts from agreement.
LEMMA OpenSessionKeeps == LinkInv /\ OpenSession => LinkInv'
<1> SUFFICES ASSUME LinkInv, OpenSession PROVE LinkInv'
  OBVIOUS
<1> DEFINE p == Plain(TRUE, Control("OpenSessionStep1", None, None))
<1>1. /\ lock.step = "Idle" /\ toPhone' = Append(toPhone, p)
      /\ lock' = [lock EXCEPT !.step = "SentStep1"] /\ requests' = requests + 1
      /\ requests < MaxRequests /\ UNCHANGED <<phone, phoneErr, lockErr, toLock>>
  BY DEF OpenSession, Send
<1>2. ~Outstanding /\ phone.ssp.state = "Ready"
      /\ lock.key = CurrentKey(phone.ssp) /\ lock.iv = phone.ssp.iv
  BY <1>1 DEF LinkInv, StagesFit, EndsAgree, Outstanding
<1>3. lock'.step = "SentStep1" /\ lock'.key = lock.key /\ lock'.iv = lock.iv
      /\ lock'.randomA = lock.randomA /\ lock'.randomB = lock.randomB
  BY <1>1 DEF LinkInv, TypesFit
<1>4. Asks(p)'
  BY <1>1, <1>2, <1>3 DEF Asks
<1> HIDE DEF p
<1>5. OneExchange' /\ IsQueue(toPhone)' /\ IsQueue(toLock)'
  BY <1>1, <1>2, <1>4, NewRequest
<1>6. TypesFit'
  BY <1>1, <1>5, LinkAssumption DEF LinkInv, TypesFit
<1>7. StagesFit'
  BY <1>1, <1>2, <1>3 DEF LinkInv, StagesFit
<1>8. NeverOutOfStep' /\ EndsAgree' /\ KeyFromBothRandoms'
  BY <1>1, <1>2, <1>3 DEF LinkInv, NeverOutOfStep, EndsAgree, KeyFromBothRandoms, Outstanding
<1> QED BY <1>5, <1>6, <1>7, <1>8 DEF LinkInv

\* The lock's proof goes out under the old key, and moves the IV.
LEMMA ProveKeyKeeps == LinkInv /\ ProveKey => LinkInv'
<1> SUFFICES ASSUME LinkInv, ProveKey PROVE LinkInv'
  OBVIOUS
<1>1. PICK a \in LockRandoms :
        /\ Send(Sealed(TRUE, Control("OpenSessionStep2", a, RotateRight(lock.randomB)),
                       lock.key, lock.iv))
        /\ lock' = [lock EXCEPT !.step = "SentStep2", !.randomA = a,
                      !.iv = LastBlock(lock.key, lock.iv,
                               Control("OpenSessionStep2", a, RotateRight(lock.randomB)))]
  BY DEF ProveKey
<1>2. PICK body : body = Control("OpenSessionStep2", a, RotateRight(lock.randomB))
  OBVIOUS
<1>3. PICK p : p = Sealed(TRUE, body, lock.key, lock.iv)
  OBVIOUS
<1>4. /\ lock.step = "GotRandomB" /\ toPhone' = Append(toPhone, p)
      /\ requests' = requests + 1 /\ requests < MaxRequests
      /\ UNCHANGED <<phone, phoneErr, lockErr, toLock>>
  BY <1>1, <1>2, <1>3 DEF ProveKey, Send
<1>5. /\ ~Outstanding /\ phone.ssp.state = "AuthStep1" /\ lock.randomB = phone.ssp.randomB
      /\ lock.key = CurrentKey(phone.ssp) /\ lock.iv = phone.ssp.iv
  BY <1>4 DEF LinkInv, StagesFit, EndsAgree, Outstanding
<1>6. /\ lock'.step = "SentStep2" /\ lock'.key = lock.key /\ lock'.randomA = a
      /\ lock'.iv = LastBlock(lock.key, lock.iv, body) /\ lock'.randomB = lock.randomB
  BY <1>1, <1>2 DEF LinkInv, TypesFit
<1>7. a \in Block
  BY LinkAssumption
<1>8. Asks(p)'
  <2>1. p.key = lock.key /\ p.iv = lock.iv /\ p.body = body /\ p.control
    BY <1>3 DEF Sealed
  <2> QED BY <1>2, <1>3, <1>4, <1>5, <1>6, <2>1 DEF Asks
<1>9. OneExchange' /\ IsQueue(toPhone)' /\ IsQueue(toLock)'
  BY <1>4, <1>5, <1>8, NewRequest
<1>10. TypesFit'
  <2>1. lock' \in [step : {"Idle", "GotRandomB", "InSession",
                         "SentStep1", "SentStep2", "SentData", "SentKey"},
                  key : Block, iv : {lock'.iv},
                  randomA : Block \cup {None}, randomB : Block \cup {None}]
    BY <1>1, <1>6, <1>7 DEF LinkInv, TypesFit
  <2> QED BY <1>4, <1>9, <2>1, LinkAssumption DEF LinkInv, TypesFit
<1>11. StagesFit'
  BY <1>4, <1>5, <1>6, <1>7 DEF LinkInv, StagesFit
<1>12. NeverOutOfStep' /\ EndsAgree' /\ KeyFromBothRandoms'
  BY <1>4, <1>5, <1>6 DEF LinkInv, NeverOutOfStep, EndsAgree, KeyFromBothRandoms, Outstanding
<1> QED BY <1>9, <1>10, <1>11, <1>12 DEF LinkInv

\* The randoms no longer matter to a session that is open under its key.
LEMMA SealedSent ==
  ASSUME LinkInv, lock.step = "InSession", NEW control, NEW body,
         NEW step, NEW key, SendSealed(control, body, step, key),
         \/ step = "SentData" /\ control = FALSE /\ body \in DataCommands /\ key = lock.key
         \/ /\ step = "SentKey" /\ control = TRUE /\ key \in NewKeys
            /\ body = Control("SetKeyValue", key, None)
  PROVE  LinkInv'
<1>1. PICK p : p = Sealed(control, body, lock.key, lock.iv)
  OBVIOUS
<1>2. /\ toPhone' = Append(toPhone, p)
      /\ requests' = requests + 1 /\ requests < MaxRequests
      /\ UNCHANGED <<phone, phoneErr, lockErr, toLock>>
      /\ lock' = [lock EXCEPT !.step = step, !.key = key,
                              !.iv = LastBlock(lock.key, lock.iv, body)]
  BY <1>1 DEF SendSealed, Send
<1>3. /\ ~Outstanding /\ phone.ssp.state = "InSession"
      /\ lock.key = CurrentKey(phone.ssp) /\ lock.iv = phone.ssp.iv
  BY DEF LinkInv, StagesFit, EndsAgree, Outstanding
<1>4. /\ lock'.step = step /\ lock'.key = key /\ lock'.randomA = lock.randomA
      /\ lock'.iv = LastBlock(lock.key, lock.iv, body) /\ lock'.randomB = lock.randomB
  BY <1>2 DEF LinkInv, TypesFit
<1>5. key \in Block
  BY LinkAssumption DEF LinkInv, TypesFit
<1>6. Asks(p)'
  <2>1. p.key = lock.key /\ p.iv = lock.iv /\ p.body = body /\ p.control = control
    BY <1>1 DEF Sealed
  <2> QED BY <1>1, <1>2, <1>3, <1>4, <2>1 DEF Asks
<1>7. OneExchange' /\ IsQueue(toPhone)' /\ IsQueue(toLock)'
  BY <1>2, <1>3, <1>6, NewRequest
<1>8. TypesFit'
  <2>1. lock' \in [step : {"Idle", "GotRandomB", "InSession",
                         "SentStep1", "SentStep2", "SentData", "SentKey"},
                  key : Block, iv : {lock'.iv},
                  randomA : Block \cup {None}, randomB : Block \cup {None}]
    BY <1>2, <1>4, <1>5 DEF LinkInv, TypesFit
  <2> QED BY <1>2, <1>7, <2>1, LinkAssumption DEF LinkInv, TypesFit
<1>9. StagesFit'
  BY <1>2, <1>3, <1>4 DEF LinkInv, StagesFit
<1>10. NeverOutOfStep' /\ EndsAgree' /\ KeyFromBothRandoms'
  BY <1>2, <1>3, <1>4 DEF LinkInv, NeverOutOfStep, EndsAgree, KeyFromBothRandoms, Outstanding
<1> QED BY <1>7, <1>8, <1>9, <1>10 DEF LinkInv

LEMMA SendDataKeeps == LinkInv /\ SendData => LinkInv'
  BY SealedSent DEF SendData

LEMMA InstallKeyKeeps == LinkInv /\ InstallKey => LinkInv'
  BY SealedSent DEF InstallKey

\* A plain request is one more aside.
LEMMA SendPlainKeeps == LinkInv /\ SendPlain => LinkInv'
<1> SUFFICES ASSUME LinkInv, SendPlain PROVE LinkInv'
  OBVIOUS
<1>1. PICK p : Aside(p) /\ Send(p) /\ UNCHANGED lock
  BY DEF SendPlain, Aside
<1>2. /\ toPhone' = Append(toPhone, p)
      /\ requests' = requests + 1 /\ requests < MaxRequests
      /\ UNCHANGED <<phone, phoneErr, lock, lockErr, toLock>>
  BY <1>1 DEF Send
<1>3. OneExchange' /\ IsQueue(toPhone)' /\ IsQueue(toLock)'
  BY <1>1, <1>2, AnotherAside
<1>4. TypesFit'
  BY <1>2, <1>3, LinkAssumption DEF LinkInv, TypesFit
<1>5. StagesFit' /\ NeverOutOfStep' /\ EndsAgree' /\ KeyFromBothRandoms'
  BY <1>2 DEF LinkInv, StagesFit, NeverOutOfStep, EndsAgree, KeyFromBothRandoms, Outstanding
<1> QED BY <1>3, <1>4, <1>5 DEF LinkInv

\* The answer the lock takes brings it to the phone's key and IV.
LEMMA AnswerTaken ==
  ASSUME LinkInv, TakeReply, Head(toLock).form = "sealed", Accepts(Head(toLock))
  PROVE  LinkInv'
<1>1. PICK p : p = Head(toLock)
  OBVIOUS
<1>2. /\ toLock # <<>> /\ toLock' = Tail(toLock) /\ lockErr = None
      /\ UNCHANGED <<phone, phoneErr, toPhone, requests>>
  BY DEF TakeReply
<1>3. /\ lockErr' = lockErr
      /\ lock' = [lock EXCEPT
           !.iv = LastBlock(p.key, p.iv, p.body),
           !.step = IF @ = "SentStep1" THEN "GotRandomB" ELSE "InSession",
           !.randomB = IF lock.step = "SentStep1" THEN p.body.a ELSE @,
           !.key = IF lock.step = "SentStep2"
                   THEN DeriveSessionKey(lock.randomA, lock.randomB) ELSE @]
  BY <1>1 DEF TakeReply
<1>4. /\ lock'.iv = LastBlock(p.key, p.iv, p.body) /\ lock'.randomA = lock.randomA
      /\ lock'.step = IF lock.step = "SentStep1" THEN "GotRandomB" ELSE "InSession"
      /\ lock'.randomB = IF lock.step = "SentStep1" THEN p.body.a ELSE lock.randomB
      /\ lock'.key = IF lock.step = "SentStep2"
                     THEN DeriveSessionKey(lock.randomA, lock.randomB) ELSE lock.key
  BY <1>3 DEF LinkInv, TypesFit
<1>5. OneExchange' /\ IsQueue(toPhone)' /\ IsQueue(toLock)'
  BY <1>2, ReplyTaken
<1>6. Answers(p)
  BY <1>1, <1>2, Taken DEF LinkInv, OneExchange
<1>7. /\ lock'.iv = phone.ssp.iv /\ lock'.key = CurrentKey(phone.ssp)
      /\ lock'.step = "GotRandomB" => lock'.randomB = phone.ssp.randomB
  BY <1>4, <1>6 DEF Answers
<1>8. /\ phone.ssp.randomB \in Block
      /\ lock'.key \in Block /\ lock'.randomB \in Block \cup {None}
      /\ phone.ssp.state = IF lock.step = "SentStep1" THEN "AuthStep1" ELSE "InSession"
  <2>1. phone.ssp.randomB \in Block /\ lock.step = "SentStep2" =>
          lock.randomA \in Block /\ lock.randomB \in Block
    BY DEF LinkInv, StagesFit
  <2>2. lock.step = "SentStep2" => DeriveSessionKey(lock.randomA, lock.randomB) \in Block
    BY <2>1, <1>6, DerivedKeyIsBlock DEF Answers, LinkInv, StagesFit
  <2>3. phone.ssp.state = (IF lock.step = "SentStep1" THEN "AuthStep1" ELSE "InSession")
    BY <1>6 DEF Answers, LinkInv, StagesFit
  <2>4. phone.ssp.randomB \in Block
    BY <2>3 DEF LinkInv, StagesFit
  <2>5. lock'.key \in Block
    BY <1>4, <2>2 DEF LinkInv, TypesFit
  <2>6. lock'.randomB \in Block \cup {None}
    BY <1>4, <1>6, <2>4 DEF Answers, LinkInv, TypesFit
  <2> QED BY <2>3, <2>4, <2>5, <2>6
<1>9. TypesFit'
  <2>1. lock' \in [step : {"Idle", "GotRandomB", "InSession",
                         "SentStep1", "SentStep2", "SentData", "SentKey"},
                  key : Block, iv : {lock'.iv},
                  randomA : Block \cup {None}, randomB : Block \cup {None}]
    BY <1>3, <1>4, <1>8 DEF LinkInv, TypesFit
  <2> QED BY <1>2, <1>5, <2>1 DEF LinkInv, TypesFit
<1>10. StagesFit'
  BY <1>2, <1>4, <1>7, <1>8 DEF LinkInv, StagesFit
<1>11. NeverOutOfStep' /\ EndsAgree' /\ KeyFromBothRandoms'
  BY <1>2, <1>3, <1>4, <1>7, <1>8
     DEF LinkInv, NeverOutOfStep, EndsAgree, KeyFromBothRandoms, Outstanding
<1> QED BY <1>5, <1>9, <1>10, <1>11 DEF LinkInv

\* A plain reply tells the lock nothing; a sealed one it cannot accept never comes.
LEMMA TakeReplyKeeps == LinkInv /\ TakeReply => LinkInv'
<1> SUFFICES ASSUME LinkInv, TakeReply PROVE LinkInv'
  OBVIOUS
<1>1. /\ toLock # <<>> /\ toLock' = Tail(toLock)
      /\ UNCHANGED <<phone, phoneErr, toPhone, requests>>
  BY DEF TakeReply
<1>2. CASE Head(toLock).form = "plain"
  <2>1. UNCHANGED <<lock, lockErr>>
    BY <1>2 DEF TakeReply
  <2>2. OneExchange' /\ IsQueue(toPhone)' /\ IsQueue(toLock)'
    BY <1>1, <2>1, ReplyTaken
  <2>3. TypesFit'
    BY <1>1, <2>1, <2>2 DEF LinkInv, TypesFit
  <2>4. StagesFit' /\ NeverOutOfStep' /\ EndsAgree' /\ KeyFromBothRandoms'
    BY <1>1, <2>1 DEF LinkInv, StagesFit, NeverOutOfStep, EndsAgree, KeyFromBothRandoms, Outstanding
  <2> QED BY <2>2, <2>3, <2>4 DEF LinkInv
<1>3. CASE Head(toLock).form # "plain"
  <2>1. Answers(Head(toLock))
    BY <1>1, <1>3, Taken DEF LinkInv, OneExchange
  <2> QED BY <2>1, AnswerTaken DEF Answers
<1> QED BY <1>2, <1>3

\* What is left to show of a request once the phone has answered it.
LEMMA Served ==
  ASSUME LinkInv, toPhone # <<>>, toPhone' = Tail(toPhone), ~Aside(Head(toPhone)), Outstanding,
         NEW r, r.err = None, StackOK(r.st), r.st.ssp.kn = phone.ssp.kn,
         phone' = r.st, phoneErr' = r.err, NEW out, toLock' = Append(toLock, out),
         UNCHANGED <<lock, lockErr, requests>>,
         Answers(out)', StagesFit', KeyFromBothRandoms'
  PROVE  LinkInv'
<1>1. OneExchange' /\ IsQueue(toPhone)' /\ IsQueue(toLock)'
  BY RequestAnswered
<1>2. /\ phone' \in [ssp : {phone'.ssp}, justin : {phone'.justin}]
      /\ SspTypeOK(phone'.ssp) /\ JustinTypeOK(phone'.justin)
  BY DEF StackOK, SspInv
<1>3. TypesFit'
  BY <1>1, <1>2 DEF LinkInv, TypesFit, SspTypeOK, JustinTypeOK
<1>4. NeverOutOfStep' /\ EndsAgree'
  BY DEF LinkInv, NeverOutOfStep, EndsAgree, Outstanding
<1> QED BY <1>1, <1>3, <1>4 DEF LinkInv

\* The phone has answered in step: the lock will accept the answer.
AnsweredInStep(r, out) ==
  /\ r.err = None /\ StackOK(r.st) /\ r.st.ssp.kn = phone.ssp.kn
  /\ out = r.out /\ Answers(out)' /\ StagesFit' /\ KeyFromBothRandoms'

\* The challenge puts the phone one step ahead, under the same key.
LEMMA ChallengeInStep ==
  ASSUME LinkInv, NEW p, Asks(p), lock.step = "SentStep1", NEW b \in Block,
         NEW r, r = HandlePacket(phone, p, b), NEW out, out = r.out,
         phone' = r.st, lock' = lock
  PROVE  AnsweredInStep(r, out)
<1>1. /\ phone.ssp.state = "Ready" /\ p = Plain(TRUE, Control("OpenSessionStep1", None, None))
      /\ lock.key = CurrentKey(phone.ssp) /\ lock.iv = phone.ssp.iv
  BY DEF Asks
<1>2. /\ AnswersSealed(r, TRUE, Control("OpenSessionStep1", b, None),
                      CurrentKey(phone.ssp), phone.ssp.iv)
      /\ EndsUp(phone, r, "AuthStep1", b, CurrentKey(phone.ssp))
  BY <1>1, PhoneFits, Step1Handled
<1>3. Answers(out)'
  <2> PICK body : body = Control("OpenSessionStep1", b, None)
    OBVIOUS
  <2>1. /\ out = Sealed(TRUE, body, lock.key, lock.iv)
        /\ phone'.ssp.iv = LastBlock(lock.key, lock.iv, body)
        /\ phone'.ssp.randomB = b /\ phone'.ssp.state = "AuthStep1"
        /\ CurrentKey(phone'.ssp) = lock.key
    BY <1>1, <1>2 DEF AnswersSealed, EndsUp
  <2>2. /\ out.form = "sealed" /\ out.control /\ out.key = lock.key /\ out.iv = lock.iv
        /\ out.body = body /\ body.op = "OpenSessionStep1" /\ body.a = b
    BY <2>1 DEF Sealed, Control
  <2> QED BY <2>1, <2>2 DEF Answers, Accepts
<1>4. StagesFit' /\ KeyFromBothRandoms'
  BY <1>2 DEF StagesFit, KeyFromBothRandoms, EndsUp, CurrentKey, StackOK, SspInv
<1> QED BY <1>2, <1>3, <1>4 DEF AnsweredInStep, AnswersSealed, EndsUp

\* The proof opens the session; only its answer still goes out under kN.
LEMMA ProofInStep ==
  ASSUME LinkInv, NEW p, Asks(p), lock.step = "SentStep2", NEW b \in Block,
         NEW r, r = HandlePacket(phone, p, b), NEW out, out = r.out,
         phone' = r.st, lock' = lock
  PROVE  AnsweredInStep(r, out)
<1>1. /\ phone.ssp.state = "AuthStep1" /\ phone.ssp.randomB \in Block
      /\ lock.randomA \in Block /\ lock.randomB = phone.ssp.randomB
  BY DEF Asks, LinkInv, StagesFit
<1>2. PICK body : body = Control("OpenSessionStep2", lock.randomA, RotateRight(phone.ssp.randomB))
  OBVIOUS
<1>3. /\ p = Sealed(p.control, p.body, CurrentKey(phone.ssp), phone.ssp.iv)
      /\ p.body = body /\ p.control
      /\ lock.key = p.key /\ lock.iv = LastBlock(p.key, p.iv, p.body)
  BY <1>1, <1>2 DEF Asks
<1>4. p = Sealed(TRUE, body, CurrentKey(phone.ssp), phone.ssp.iv) /\ p.key = CurrentKey(phone.ssp)
  BY <1>3 DEF Sealed
<1>5. /\ AnswersSealed(r, TRUE, Control("OpenSessionStep2", RotateRight(lock.randomA), None),
                      CurrentKey(phone.ssp), LastBlock(p.key, p.iv, p.body))
      /\ EndsUp(phone, r, "InSession", phone.ssp.randomB,
                DeriveSessionKey(lock.randomA, phone.ssp.randomB))
  BY <1>1, <1>2, <1>4, PhoneFits, Step2Handled
<1>6. CurrentKey(phone'.ssp) = DeriveSessionKey(lock.randomA, lock.randomB)
  BY <1>1, <1>5 DEF EndsUp, CurrentKey, StackOK, SspInv
<1>7. Answers(out)'
  BY <1>3, <1>4, <1>5, <1>6 DEF Answers, Accepts, AnswersSealed, EndsUp, Sealed, Control
<1>8. StagesFit' /\ KeyFromBothRandoms'
  BY <1>1, <1>5 DEF StagesFit, KeyFromBothRandoms, EndsUp, CurrentKey, StackOK, SspInv
<1> QED BY <1>5, <1>7, <1>8 DEF AnsweredInStep, AnswersSealed, EndsUp

\* A sealed command moves the IV twice, there and back, under one key.
LEMMA DataInStep ==
  ASSUME LinkInv, NEW p, Asks(p), lock.step = "SentData", NEW b \in Block,
         NEW r, r = HandlePacket(phone, p, b), NEW out, out = r.out,
         phone' = r.st, lock' = lock
  PROVE  AnsweredInStep(r, out)
<1>1. PICK c \in DataCommands : c = p.body
  BY DEF Asks
<1>2. /\ p = Sealed(p.control, p.body, CurrentKey(phone.ssp), phone.ssp.iv)
      /\ ~p.control /\ lock.key = p.key /\ lock.iv = LastBlock(p.key, p.iv, p.body)
      /\ phone.ssp.state = "InSession"
  BY <1>1 DEF Asks, LinkInv, StagesFit
<1>3. p = Sealed(FALSE, c, CurrentKey(phone.ssp), phone.ssp.iv) /\ p.key = CurrentKey(phone.ssp)
  BY <1>1, <1>2 DEF Sealed
<1>4. /\ \E o : AnswersSealed(r, FALSE, o, CurrentKey(phone.ssp), LastBlock(p.key, p.iv, p.body))
      /\ EndsUp(phone, r, "InSession", phone.ssp.randomB, CurrentKey(phone.ssp))
  BY <1>2, <1>3, PhoneFits, DataHandled
<1>5. CurrentKey(phone'.ssp) = CurrentKey(phone.ssp)
  BY <1>4 DEF EndsUp
<1>6. Answers(out)'
  BY <1>2, <1>3, <1>4, <1>5 DEF Answers, Accepts, AnswersSealed, EndsUp, Sealed
<1>7. StagesFit' /\ KeyFromBothRandoms'
  BY <1>2, <1>4 DEF LinkInv, StagesFit, KeyFromBothRandoms, EndsUp, CurrentKey, StackOK, SspInv
<1> QED BY <1>4, <1>6, <1>7 DEF AnsweredInStep, AnswersSealed, EndsUp

\* A new key reaches both ends before the answer does.
LEMMA KeyInStep ==
  ASSUME LinkInv, NEW p, Asks(p), lock.step = "SentKey", NEW b \in Block,
         NEW r, r = HandlePacket(phone, p, b), NEW out, out = r.out,
         phone' = r.st, lock' = lock
  PROVE  AnsweredInStep(r, out)
<1>1. PICK body : body = Control("SetKeyValue", lock.key, None)
  OBVIOUS
<1>2. /\ p = Sealed(p.control, p.body, CurrentKey(phone.ssp), phone.ssp.iv)
      /\ p.body = body /\ p.control
      /\ lock.key \in NewKeys /\ lock.iv = LastBlock(p.key, p.iv, p.body)
      /\ phone.ssp.state = "InSession"
  BY <1>1 DEF Asks, LinkInv, StagesFit
<1>3. p = Sealed(TRUE, body, CurrentKey(phone.ssp), phone.ssp.iv)
  BY <1>2 DEF Sealed
<1>4. lock.key \in Block
  BY <1>2, LinkAssumption
<1>5. /\ AnswersSealed(r, TRUE, Control("SetKeyValue", None, None),
                      lock.key, LastBlock(p.key, p.iv, p.body))
      /\ EndsUp(phone, r, "InSession", phone.ssp.randomB, lock.key)
  BY <1>1, <1>2, <1>3, <1>4, PhoneFits, SetKeyHandled
<1>6. CurrentKey(phone'.ssp) = lock.key
  BY <1>5 DEF EndsUp, CurrentKey, StackOK, SspInv
<1>7. Answers(out)'
  BY <1>2, <1>5, <1>6 DEF Answers, Accepts, AnswersSealed, EndsUp, Sealed, Control
<1>8. StagesFit' /\ KeyFromBothRandoms'
  BY <1>2, <1>5 DEF LinkInv, StagesFit, KeyFromBothRandoms, EndsUp, CurrentKey, StackOK, SspInv
<1> QED BY <1>5, <1>7, <1>8 DEF AnsweredInStep, AnswersSealed, EndsUp

\* The phone answers whatever the lock sends, and the answer is acceptable.
LEMMA PhoneHandlesKeeps == LinkInv /\ PhoneHandles => LinkInv'
<1> SUFFICES ASSUME LinkInv, PhoneHandles PROVE LinkInv'
  OBVIOUS
<1>1. PICK b \in Randoms : \E r \in {HandlePacket(phone, Head(toPhone), b)} :
        /\ phone' = r.st /\ phoneErr' = r.err
        /\ toLock' = IF r.err = None THEN Append(toLock, r.out) ELSE toLock
  BY DEF PhoneHandles
<1>2. PICK r \in {HandlePacket(phone, Head(toPhone), b)} :
        /\ phone' = r.st /\ phoneErr' = r.err
        /\ toLock' = IF r.err = None THEN Append(toLock, r.out) ELSE toLock
  BY <1>1
<1>3. /\ toPhone # <<>> /\ toPhone' = Tail(toPhone) /\ UNCHANGED <<lock, lockErr, requests>>
  BY DEF PhoneHandles
<1>4. PICK p : p = Head(toPhone)
  OBVIOUS
<1>5. r = HandlePacket(phone, p, b) /\ b \in Block
  BY <1>2, <1>4, LinkAssumption
<1>6. StackOK(phone)
  BY PhoneFits
<1>7. CASE Aside(p)
  <2>1. r.err = None /\ r.out.form = "plain" /\ StackOK(r.st) /\ r.st.ssp = phone.ssp
    BY <1>5, <1>6, <1>7, AsideHandled
  <2>2. toLock' = Append(toLock, r.out) /\ phone'.ssp = phone.ssp
    BY <1>2, <2>1
  <2>3. OneExchange' /\ IsQueue(toPhone)' /\ IsQueue(toLock)'
    BY <1>3, <1>4, <1>7, <2>1, <2>2, AsideAnswered
  <2>4. /\ phone' \in [ssp : {phone'.ssp}, justin : {phone'.justin}]
        /\ JustinTypeOK(phone'.justin)
    BY <1>2, <2>1 DEF StackOK
  <2>5. TypesFit'
    BY <1>3, <2>2, <2>3, <2>4 DEF LinkInv, TypesFit, SspTypeOK, JustinTypeOK
  <2>6. StagesFit' /\ NeverOutOfStep' /\ EndsAgree' /\ KeyFromBothRandoms'
    BY <1>2, <1>3, <2>1, <2>2
       DEF LinkInv, StagesFit, NeverOutOfStep, EndsAgree, KeyFromBothRandoms, Outstanding
  <2> QED BY <2>3, <2>5, <2>6 DEF LinkInv
<1>8. CASE ~Aside(p)
  <2>1. Asks(p)
    BY <1>3, <1>4, <1>8, Taken DEF LinkInv, OneExchange
  <2>2. Outstanding
    BY <2>1 DEF Asks, Outstanding
  <2>3. PICK out : out = r.out
    OBVIOUS
  <2>4. AnsweredInStep(r, out)
    BY <1>2, <1>3, <1>5, <2>1, <2>2, <2>3,
       ChallengeInStep, ProofInStep, DataInStep, KeyInStep DEF Outstanding
  <2>5. /\ toLock' = Append(toLock, out) /\ phone' = r.st /\ phoneErr' = r.err
        /\ r.err = None /\ StackOK(r.st) /\ r.st.ssp.kn = phone.ssp.kn
        /\ Answers(out)' /\ StagesFit' /\ KeyFromBothRandoms'
    BY <1>2, <2>3, <2>4 DEF AnsweredInStep
  <2> QED BY <1>3, <1>4, <1>8, <2>2, <2>5, Served
<1> QED BY <1>7, <1>8

-----------------------------------------------------------------------------
(* The theorems *)

LEMMA InitLinkInv == Init => LinkInv
<1> SUFFICES ASSUME Init PROVE LinkInv
  OBVIOUS
<1>1. /\ phone.ssp = NewSsp(Kn(SharedKey)) /\ phone.justin = NewJustinWithKey(SharedKey)
      /\ phone \in [ssp : {phone.ssp}, justin : {phone.justin}]
  BY DEF Init, NewStack
<1>2. SspTypeOK(phone.ssp) /\ phone.ssp.kn = Kn(SharedKey) /\ phone.ssp.iv = ZeroIv
      /\ phone.ssp.state = "Ready" /\ phone.ssp.sessionKey = None
  BY <1>1 DEF NewSsp, SspTypeOK
<1>3. JustinTypeOK(phone.justin)
  <2>1. phone.justin = [state |-> "Connected", key |-> SharedKey, secure |-> FALSE,
                        audit |-> None, refusals |-> 0]
    BY <1>1 DEF NewJustinWithKey, NewJustin
  <2> QED BY <2>1 DEF JustinTypeOK
<1>4. IsQueue(<<>>) /\ DOMAIN <<>> = {}
  <2>1. <<>> \in Seq({})
    OBVIOUS
  <2> QED BY <2>1 DEF IsQueue
<1>5. TypesFit
  BY <1>1, <1>2, <1>3, <1>4, LinkAssumption DEF Init, TypesFit
<1>6. StagesFit /\ EndsAgree /\ KeyFromBothRandoms
  BY <1>2 DEF Init, StagesFit, EndsAgree, KeyFromBothRandoms, CurrentKey
<1>7. OneExchange /\ NeverOutOfStep
  BY <1>4 DEF Init, OneExchange, NeverOutOfStep
<1> QED BY <1>5, <1>6, <1>7 DEF LinkInv

LEMMA NextLinkInv == LinkInv /\ [Next]_linkVars => LinkInv'
<1> SUFFICES ASSUME LinkInv, [Next]_linkVars PROVE LinkInv'
  OBVIOUS
<1>1. CASE OpenSession
  BY <1>1, OpenSessionKeeps
<1>2. CASE ProveKey
  BY <1>2, ProveKeyKeeps
<1>3. CASE SendData
  BY <1>3, SendDataKeeps
<1>4. CASE InstallKey
  BY <1>4, InstallKeyKeeps
<1>5. CASE SendPlain
  BY <1>5, SendPlainKeeps
<1>6. CASE TakeReply
  BY <1>6, TakeReplyKeeps
<1>7. CASE PhoneHandles
  BY <1>7, PhoneHandlesKeeps
<1>8. CASE UNCHANGED linkVars
  <2>1. UNCHANGED <<phone, phoneErr, lock, lockErr, toPhone, toLock, requests>>
    BY <1>8 DEF linkVars
  <2>2. TypesFit' /\ StagesFit'
    BY <2>1 DEF LinkInv, TypesFit, StagesFit, IsQueue
  <2>3. NeverOutOfStep' /\ EndsAgree' /\ KeyFromBothRandoms'
    BY <2>1 DEF LinkInv, NeverOutOfStep, EndsAgree, KeyFromBothRandoms, Outstanding
  <2>4. OneExchange'
    <3>1. \A i \in DOMAIN toPhone : Asks(toPhone[i]) => Asks(toPhone[i])'
      BY <2>1 DEF Asks
    <3>2. \A i \in DOMAIN toLock : Answers(toLock[i]) => Answers(toLock[i])'
      BY <2>1 DEF Answers, Accepts
    <3>3. \A i \in DOMAIN toPhone : Aside(toPhone[i]) <=> Aside(toPhone[i])'
      BY <2>1 DEF Aside
    <3> QED BY <2>1, <3>1, <3>2, <3>3 DEF LinkInv, OneExchange
  <2> QED BY <2>2, <2>3, <2>4 DEF LinkInv
<1> QED BY <1>1, <1>2, <1>3, <1>4, <1>5, <1>6, <1>7, <1>8 DEF Next, LockSends, Quiet

\* The inductive invariant of the link: at most one sealed request or reply is
\* under way, it opens at the other end, and everything beside it is plain.
THEOREM LinkInvariant == Spec => []LinkInv
<1>1. Init => LinkInv
  BY InitLinkInv
<1>2. LinkInv /\ [Next]_linkVars => LinkInv'
  BY NextLinkInv
<1> QED BY <1>1, <1>2, PTL DEF Spec

\* For every key, every random and any number of requests in flight, neither
\* end of an honest conversation ever fails.
THEOREM StaysInStep == Spec => []NeverOutOfStep
<1>1. LinkInv => NeverOutOfStep
  BY DEF LinkInv
<1> QED BY <1>1, LinkInvariant, PTL

\* Whenever no sealed request is outstanding, the phone and the lock hold the
\* same key and IV, and agree on whether the session is open.
THEOREM AgreeWhenIdle == Spec => []EndsAgree
<1>1. LinkInv => EndsAgree
  BY DEF LinkInv
<1> QED BY <1>1, LinkInvariant, PTL

\* An open session runs under the key derived from both sides' randoms, or
\* under one the lock installed.
THEOREM SessionKeyIsFresh == Spec => []KeyFromBothRandoms
<1>1. LinkInv => KeyFromBothRandoms
  BY DEF LinkInv
<1> QED BY <1>1, LinkInvariant, PTL

\* The phone's SSP layer and the lock keep their types; every key either of
\* them holds is sixteen bytes.
THEOREM LinkTypes == Spec => []LinkTypeOK
<1>1. LinkInv => LinkTypeOK
  BY LinkAssumption DEF LinkInv, TypesFit, StagesFit, LinkTypeOK, SspTypeOK, CurrentKey
<1> QED BY <1>1, LinkInvariant, PTL
=============================================================================
