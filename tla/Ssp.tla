-------------------------------- MODULE Ssp --------------------------------
(***************************************************************************)
(* The secure session protocol, phone side                                 *)
(* (mkey-core/src/security/ssp.rs): the three-state handshake, the         *)
(* current key and the AES-CBC IV that is chained across every message in  *)
(* either direction.                                                       *)
(*                                                                         *)
(* Cryptography is symbolic.  A sealed packet records the key and the IV   *)
(* it was encrypted under; it opens to its body exactly when both match    *)
(* the receiver's, and otherwise fails the padding or CRC check (one error *)
(* here, "InvalidCrc"), after the IV has already moved to its last block.  *)
(* LastBlock is that last ciphertext block.                                *)
(*                                                                         *)
(* A packet is [form, control, body, key, iv]; form is                     *)
(*   "short"       fewer than two bytes,                                   *)
(*   "plain"       the ENCRYPTED flag is clear,                            *)
(*   "sealed"      the flag is set and the length is whole blocks,         *)
(*   "misaligned"  the flag is set and it is not.                          *)
(***************************************************************************)
EXTENDS Bytes

CONSTANTS ZeroIv,            \* sixteen zero bytes
          LastBlock(_, _, _) \* last block of CBC(key, iv, body)

Plain(control, body) ==
  [form |-> "plain", control |-> control, body |-> body, key |-> None, iv |-> None]

Sealed(control, body, key, iv) ==
  [form |-> "sealed", control |-> control, body |-> body, key |-> key, iv |-> iv]

\* A packet with no usable payload: too short, or not whole blocks.
Malformed(form, control) ==
  [form |-> form, control |-> control, body |-> None, key |-> None, iv |-> None]

\* A control payload.  a is RandomA or the new key, b is RandomB'; None when
\* the payload is too short to hold them.
Control(op, a, b) == [op |-> op, a |-> a, b |-> b]

\* "Unknown" is any other opcode, and no opcode at all.
OpCode == {"Error", "OpenSessionStep1", "OpenSessionStep2", "SetKeyValue", "GetVersion", "Unknown"}

ControlType == [op : OpCode, a : Block \cup {None}, b : Block \cup {None}]

\* The fields of SecureProtocolManager; keys and randoms are blocks.
SspTypeOK(s) ==
  s \in [state : {"Ready", "AuthStep1", "InSession"}, iv : {s.iv}, kn : {s.kn},
         sessionKey : Block \cup {None}, randomB : Block \cup {None},
         randomA : {s.randomA}]

\* with_random
NewSsp(kn) ==
  [state |-> "Ready", iv |-> ZeroIv, kn |-> kn, sessionKey |-> None,
   randomB |-> None, randomA |-> None]

Succeed(s, out) == [st |-> s, err |-> None, out |-> out]
Fail(s, err)    == [st |-> s, err |-> err, out |-> None]

\* current_encryption_key
CurrentKey(s) == IF s.sessionKey = None THEN s.kn ELSE s.sessionKey

\* Mutant: the IV of an encryption is not kept.
SealKeepingIv(s, control, body) ==
  Succeed(s, Sealed(control, body, CurrentKey(s), s.iv))

\* encrypt_payload, and the packet around it: the IV moves to the last block.
Seal(s, control, body) ==
  Succeed([s EXCEPT !.iv = LastBlock(CurrentKey(s), s.iv, body)],
          Sealed(control, body, CurrentKey(s), s.iv))

\* decrypt_payload: the IV has moved before padding and CRC are checked.
Unseal(s, p) ==
  IF p.form = "misaligned" THEN Fail(s, "InvalidData")
  ELSE LET moved == [s EXCEPT !.iv = LastBlock(p.key, p.iv, p.body)]
       IN  IF p.key = CurrentKey(s) /\ p.iv = s.iv
           THEN Succeed(moved, p.body) ELSE Fail(moved, "InvalidCrc")

\* Mutant: a repeated handshake is not refused.
RepeatableStep1(s, wasEncrypted, randomB) ==
  IF wasEncrypted THEN Fail(s, "InvalidData")
  ELSE LET r == Seal([s EXCEPT !.randomB = randomB], TRUE,
                     Control("OpenSessionStep1", randomB, None))
       IN  [r EXCEPT !.st.state = "AuthStep1"]

\* The challenge goes out under the current key; a repeated handshake is
\* refused.  randomB is what the random source draws.
HandleOpenSessionStep1(s, wasEncrypted, randomB) ==
  IF wasEncrypted THEN Fail(s, "InvalidData")
  ELSE IF s.state # "Ready" THEN Fail(s, "InvalidState")
  ELSE LET r == Seal([s EXCEPT !.randomB = randomB], TRUE,
                     Control("OpenSessionStep1", randomB, None))
       IN  [r EXCEPT !.st.state = "AuthStep1"]

\* The body of Step2 for its mutants: the proof expected of the lock, and the key.
Step2With(s, c, wasEncrypted, proof, key) ==
  IF ~wasEncrypted THEN Fail(s, "InvalidData")
  ELSE IF s.state # "AuthStep1" THEN Fail(s, "InvalidState")
  ELSE IF c.a = None \/ c.b = None THEN Fail(s, "InvalidData")
  ELSE IF c.b # proof THEN Fail([s EXCEPT !.state = "Ready"], "AuthenticationFailed")
  ELSE LET r == Seal([s EXCEPT !.randomA = c.a], TRUE,
                     Control("OpenSessionStep2", RotateRight(c.a), None))
       IN  [r EXCEPT !.st.sessionKey = key, !.st.state = "InSession"]

\* Mutant: the lock's proof is compared with the challenge, not its rotation.
UnrotatedStep2(s, c, wasEncrypted) ==
  Step2With(s, c, wasEncrypted, s.randomB, DeriveSessionKey(c.a, s.randomB))

\* Mutant: the two randoms are swapped in the key derivation.
SwappedStep2(s, c, wasEncrypted) ==
  Step2With(s, c, wasEncrypted, RotateRight(s.randomB), DeriveSessionKey(s.randomB, c.a))

\* The reply still goes out under the old key; the session key comes after.
HandleOpenSessionStep2(s, c, wasEncrypted) ==
  IF ~wasEncrypted THEN Fail(s, "InvalidData")
  ELSE IF s.state # "AuthStep1" THEN Fail(s, "InvalidState")
  ELSE IF c.a = None \/ c.b = None THEN Fail(s, "InvalidData")
  ELSE IF s.randomB = None THEN Fail(s, "InvalidState")
  ELSE IF c.b # RotateRight(s.randomB)
  THEN Fail([s EXCEPT !.state = "Ready"], "AuthenticationFailed")
  ELSE LET r == Seal([s EXCEPT !.randomA = c.a], TRUE,
                     Control("OpenSessionStep2", RotateRight(c.a), None))
       IN  [r EXCEPT !.st.sessionKey = DeriveSessionKey(c.a, s.randomB),
                     !.st.state = "InSession"]

\* Mutant: half of the new key is copied.
HalfSetKeyValue(s, c) ==
  IF s.state # "InSession" THEN Fail(s, "InvalidState")
  ELSE IF c.a = None THEN Fail(s, "InvalidData")
  ELSE Seal([s EXCEPT !.sessionKey = [i \in 1..8 |-> c.a[i]]], TRUE,
            Control("SetKeyValue", None, None))

\* Mutant: a key can be installed before the session is open.
EarlySetKeyValue(s, c) ==
  IF c.a = None THEN Fail(s, "InvalidData")
  ELSE Seal([s EXCEPT !.sessionKey = c.a], TRUE, Control("SetKeyValue", None, None))

\* Mutant: the reply still goes out under the key being replaced.
LateSetKeyValue(s, c) ==
  IF s.state # "InSession" THEN Fail(s, "InvalidState")
  ELSE IF c.a = None THEN Fail(s, "InvalidData")
  ELSE LET r == Seal(s, TRUE, Control("SetKeyValue", None, None))
       IN  [r EXCEPT !.st.sessionKey = c.a]

\* The new key is installed first, so the reply goes out under it.
HandleSetKeyValue(s, c) ==
  IF s.state # "InSession" THEN Fail(s, "InvalidState")
  ELSE IF c.a = None THEN Fail(s, "InvalidData")
  ELSE Seal([s EXCEPT !.sessionKey = c.a], TRUE, Control("SetKeyValue", None, None))

HandleGetVersion(s) == Succeed(s, Plain(TRUE, Control("GetVersion", None, None)))

\* process_control_packet.  An empty payload, the Error opcode and an unknown
\* one are errors.
ProcessControlPacket(s, c, wasEncrypted, randomB) ==
  CASE c.op = "OpenSessionStep1" -> HandleOpenSessionStep1(s, wasEncrypted, randomB)
    [] c.op = "OpenSessionStep2" -> HandleOpenSessionStep2(s, c, wasEncrypted)
    [] c.op = "SetKeyValue"      -> HandleSetKeyValue(s, c)
    [] c.op = "GetVersion"       -> HandleGetVersion(s)
    [] OTHER                     -> Fail(s, "InvalidData")

\* process_data_packet: application data needs a session.
ProcessDataPacket(s, body) ==
  IF s.state # "InSession" THEN Fail(s, "InvalidState") ELSE Succeed(s, body)

\* process_packet: decryption comes before anything else is looked at.
ProcessPacket(s, p, randomB) ==
  IF p.form = "short" THEN Fail(s, "InvalidData")
  ELSE LET opened == IF p.form = "plain" THEN Succeed(s, p.body) ELSE Unseal(s, p)
       IN  IF opened.err # None THEN opened
           ELSE IF p.control
           THEN ProcessControlPacket(opened.st, opened.out, p.form # "plain", randomB)
           ELSE ProcessDataPacket(opened.st, opened.out)

\* wrap_data
WrapData(s, body) ==
  IF s.state # "InSession" THEN Fail(s, "InvalidState") ELSE Seal(s, FALSE, body)
=============================================================================
