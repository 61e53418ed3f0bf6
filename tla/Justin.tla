------------------------------- MODULE Justin -------------------------------
(***************************************************************************)
(* The Justin command layer (mkey-core/src/command/justin.rs): the lock    *)
(* opens and closes a key, and reads and writes its tags.                  *)
(*                                                                         *)
(* The state of JustinProtocolManager is a record j, and each handler an   *)
(* operator that returns what the Rust method leaves behind: the new state *)
(* st, and either the response out or the error err.                       *)
(*                                                                         *)
(* A command is [op, tag, data]; a payload too short for a field has None  *)
(* there.  A response is [status, data].                                   *)
(***************************************************************************)
EXTENDS MobileKey

\* JustinProtocolManager::new
NewJustin ==
  [state |-> "Ready", key |-> None, secure |-> FALSE,
   audit |-> None, refusals |-> 0]

\* JustinProtocolManager::new_with_key: the key is preselected.
NewJustinWithKey(key) == [NewJustin EXCEPT !.state = "Connected", !.key = key]

Command(op, tag, data) == [op |-> op, tag |-> tag, data |-> data]

\* "Unknown" is any other opcode, and an empty command.
CommandOpCode == {"Open", "Close", "ReadTag", "WriteTag", "Unknown"}

CommandType == [op : CommandOpCode, tag : Byte \cup {None},
                data : (Seq(Byte) \ {<<>>}) \cup {None}]

\* The fields of JustinProtocolManager.
JustinTypeOK(j) ==
  j \in [state : {"Ready", "Connected"}, key : {j.key}, secure : BOOLEAN,
         audit : Byte \cup {None}, refusals : Nat]

Respond(j, status, data) ==
  [st |-> j, err |-> None, out |-> [status |-> status, data |-> data]]

Refuse(j, status) == Respond(j, status, <<>>)

\* compute_key_identifier maps the 8-byte id into the store's key space; the
\* store is a function from the ids it resolves to keys (NoopKeyStore: none).
NoopKeyStore == [id \in {} |-> None]

HandleOpen(j, store, c) ==
  IF j.state = "Connected" \/ c.data = None THEN Refuse(j, "GenericError")
  ELSE IF c.data \in DOMAIN store
  THEN Refuse([j EXCEPT !.key = store[c.data], !.state = "Connected"], "Success")
  ELSE Refuse(j, "NotFound")

HandleClose(j) ==
  IF j.state # "Connected" THEN Refuse(j, "GenericError")
  ELSE Refuse([j EXCEPT !.state = "Ready"], "Success")

IsLegacyTag(id) == id \in 0..2

\* Mutant: kN is a legacy tag like the other two.
RefusesNothing(j, id) == FALSE

\* The kN key is served inside a secure session only.
RefusesKnKey(j, id) == id = TAG_KN_KEY /\ ~j.secure

CanReadTag(j, id, permissions) ==
  /\ ~RefusesKnKey(j, id)
  /\ \/ IsLegacyTag(id)
     \/ /\ "READABLE" \in permissions
        /\ j.secure \/ "READ_WITHOUT_SECURITY" \in permissions

\* The audit tag is always writable: the lock writes its result there.
CanWriteTag(j, id, permissions) ==
  /\ ~IsLegacyTag(id)
  /\ \/ id = TAG_AUDIT
     \/ /\ "WRITABLE" \in permissions
        /\ j.secure \/ "WRITE_WITHOUT_SECURITY" \in permissions

HandleReadTag(j, c) ==
  IF j.state # "Connected" \/ c.tag = None \/ j.key = None
  THEN Refuse(j, "GenericError")
  ELSE IF ~HasTag(j.key, c.tag) THEN Refuse(j, "NotFound")
  ELSE LET tag == GetTag(j.key, c.tag) IN
    IF RefusesKnKey(j, c.tag)
    THEN Refuse([j EXCEPT !.refusals = @ + 1], "GenericError")
    ELSE IF CanReadTag(j, c.tag, tag.permissions)
    THEN Respond(j, "Success", tag.data)
    ELSE Refuse(j, IF "READABLE" \in tag.permissions THEN "GenericError" ELSE "NotFound")

\* Mutant: a write of any tag is taken for an audit result.
AnyWriteIsAudit(j, c) ==
  IF \/ j.state # "Connected" \/ c.tag = None \/ c.data = None
     \/ IsLegacyTag(c.tag) \/ j.key = None
  THEN Refuse(j, "GenericError")
  ELSE IF ~HasTag(j.key, c.tag) THEN Refuse(j, "NotFound")
  ELSE IF CanWriteTag(j, c.tag, GetTag(j.key, c.tag).permissions)
  THEN Refuse([j EXCEPT !.key = SetTagData(@, c.tag, c.data), !.audit = c.data[1]], "Success")
  ELSE Refuse(j, "GenericError")

HandleWriteTag(j, c) ==
  IF \/ j.state # "Connected" \/ c.tag = None \/ c.data = None
     \/ IsLegacyTag(c.tag) \/ j.key = None
  THEN Refuse(j, "GenericError")
  ELSE IF ~HasTag(j.key, c.tag) THEN Refuse(j, "NotFound")
  ELSE LET permissions == GetTag(j.key, c.tag).permissions IN
    IF CanWriteTag(j, c.tag, permissions)
    THEN Refuse([j EXCEPT !.key = SetTagData(@, c.tag, c.data),
                          !.audit = IF c.tag = TAG_AUDIT THEN c.data[1] ELSE @],
                "Success")
    ELSE Refuse(j, IF "WRITABLE" \in permissions THEN "GenericError" ELSE "NotFound")

\* process_command.  An empty command and an unknown opcode are errors.
ProcessCommand(j, store, c) ==
  CASE c.op = "Open"     -> HandleOpen(j, store, c)
    [] c.op = "Close"    -> HandleClose(j)
    [] c.op = "ReadTag"  -> HandleReadTag(j, c)
    [] c.op = "WriteTag" -> HandleWriteTag(j, c)
    [] OTHER             -> [st |-> j, err |-> "InvalidData", out |-> None]
=============================================================================
