------------------------------- MODULE Stack -------------------------------
(***************************************************************************)
(* JustinStack0100 (mkey-core/src/stack.rs): one notification in, one      *)
(* packet out, through the SSP layer and the Justin command layer.         *)
(***************************************************************************)
EXTENDS Ssp, Justin

\* A packet that can be opened carries a control payload or a command.
PacketOK(p) ==
  p.form \notin {"short", "misaligned"} =>
    IF p.control THEN p.body \in ControlType ELSE p.body \in CommandType

\* JustinStack0100::new over a preselected key, as the session builds it.
NewStack(key) == [ssp |-> NewSsp(Kn(key)), justin |-> NewJustinWithKey(key)]

\* process_justin: the secure flag holds for this packet only, and is put
\* back whatever the command returned.
ProcessJustin(k, c, secure) ==
  LET r == ProcessCommand([k.justin EXCEPT !.secure = secure], NoopKeyStore, c)
  IN  [st  |-> [k EXCEPT !.justin = [r.st EXCEPT !.secure = k.justin.secure]],
       err |-> r.err, out |-> r.out]

\* What an SSP call leaves in the stack.
WithSsp(k, r) == [st |-> [k EXCEPT !.ssp = r.st], err |-> r.err, out |-> r.out]

HandleEncryptedData(k, p) ==
  LET opened  == WithSsp(k, ProcessPacket(k.ssp, p, None))
      handled == ProcessJustin(opened.st, opened.out, TRUE)
  IN  IF opened.err # None THEN opened
      ELSE IF handled.err # None THEN handled
      ELSE WithSsp(handled.st, WrapData(handled.st.ssp, handled.out))

HandlePlainData(k, p) ==
  LET handled == ProcessJustin(k, p.body, FALSE)
  IN  IF handled.err # None THEN handled
      ELSE [handled EXCEPT !.out = Plain(FALSE, handled.out)]

\* handle_packet
HandlePacket(k, p, randomB) ==
  IF p.form = "short" THEN [st |-> k, err |-> "InvalidData", out |-> None]
  ELSE IF p.control THEN WithSsp(k, ProcessPacket(k.ssp, p, randomB))
  ELSE IF p.form # "plain" THEN HandleEncryptedData(k, p)
  ELSE HandlePlainData(k, p)
=============================================================================
