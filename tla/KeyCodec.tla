------------------------------ MODULE KeyCodec ------------------------------
(***************************************************************************)
(* The stored form of a mobile key: from_bytes and to_bytes of             *)
(* mkey-core/src/data/mobile_key.rs. The key's own tags 0x0A, 0x0B and     *)
(* 0x10 are never stored; the first two come back empty on every load.     *)
(***************************************************************************)
EXTENDS MobileKey, Tlv, SequencesExt

TAG_CONTAINER == 3

SystemTags == {TAG_DEPRECATED_AUDIT, TAG_AUDIT, TAG_OPENING_MODE}

FlagBit == [f \in Flags |->
  CASE f = "BIT_7"                  -> 128
    [] f = "BIT_6"                  -> 64
    [] f = "WRITE_WITHOUT_SECURITY" -> 32
    [] f = "READ_WITHOUT_SECURITY"  -> 16
    [] f = "WRITABLE"               -> 8
    [] f = "READABLE"               -> 4
    [] f = "REMOVE_IF_ABSENT"       -> 2
    [] f = "OVERWRITE_IF_PRESENT"   -> 1]

\* Permissions::new and Permissions::flags: the set a byte stands for, and the
\* byte of a set.
PermissionsOf(byte)   == {f \in Flags : (byte \div FlagBit[f]) % 2 = 1}
FlagsOf(permissions) == CHOOSE byte \in 0..255 : PermissionsOf(byte) = permissions

\* One general-purpose tag in a container of its own.
EncodeTag(key, id) ==
  EncodeTlv(TAG_CONTAINER,
            <<FlagsOf(key.tags[id].permissions)>> \o EncodeTlv(id, key.tags[id].data))

\* to_bytes, with the tags in the order the HashMap happens to yield.
StoredTags(key) == DOMAIN key.tags \ SystemTags

ToBytes(key, order) ==
  FlattenSeq([i \in 1..3 + Len(order) |-> IF i <= 3 THEN EncodeTlv(i - 1, key.fixed[i - 1])
                                                   ELSE EncodeTag(key, order[i - 3])])

-----------------------------------------------------------------------------
\* The fields of a container, all with the permissions its first byte gives them.
InsertFields(key, permissions, fields) ==
  LET after[i \in 0..Len(fields)] ==
        IF i = 0 THEN key
        ELSE IF fields[i].constructed THEN after[i - 1]
        ELSE InsertTag(after[i - 1], fields[i].id, Tag(permissions, fields[i].value))
  IN  after[Len(fields)]

InsertContainer(key, value) ==
  IF value = <<>> THEN key
  ELSE InsertFields(key, PermissionsOf(value[1]), ParseAll(Tail(value)))

\* Mutant: a key that was never read is sixteen zeros.
UnreadZeroKey == [fixed |-> [id \in 0..2 |-> IF id = TAG_KN_KEY THEN [i \in 1..16 |-> 0] ELSE None],
                  tags  |-> [id \in {} |-> None], wrong |-> FALSE]

\* The locals of from_bytes before the first field; wrong says that a kN key of
\* the wrong length has ended the reading.
Unread == [fixed |-> [id \in 0..2 |-> None], tags |-> [id \in {} |-> None], wrong |-> FALSE]

\* The body of its loop. A field that comes twice counts the second time.
TakeField(key, f) ==
  IF key.wrong \/ f.constructed THEN key
  ELSE IF f.id = TAG_KN_KEY /\ Len(f.value) # 16 THEN [key EXCEPT !.wrong = TRUE]
  ELSE IF f.id \in 0..2 THEN [key EXCEPT !.fixed = [@ EXCEPT ![f.id] = f.value]]
  ELSE IF f.id = TAG_CONTAINER THEN InsertContainer(key, f.value)
  ELSE key

ReadFields(fields) ==
  LET after[i \in 0..Len(fields)] ==
        IF i = 0 THEN Unread ELSE TakeField(after[i - 1], fields[i])
  IN  after[Len(fields)]

Loaded(key)  == [ok |-> key]
NotAKey(err) == [err |-> err]

\* from_bytes: a fixed field that is missing is reported only at the end.
FromBytes(data) ==
  LET read == ReadFields(ParseAll(data))
  IN  IF read.wrong THEN NotAKey("InvalidKeyLength")
      ELSE IF \E id \in 0..2 : read.fixed[id] = None THEN NotAKey("TlvError")
      ELSE Loaded(MaterialiseSystemTags([fixed |-> read.fixed, tags |-> read.tags]))

-----------------------------------------------------------------------------
\* The keys to_bytes can store: its tag numbers fit the one byte of a tag (31 would
\* announce more bytes) and are none of those it leaves out, and each length fits
\* the three bytes of a length, a container's with its own tag inside.
Storable(key) ==
  /\ IsMobileKey(key) /\ Len(Kn(key)) = 16
  /\ DOMAIN key.tags \subseteq 0..30 \ SystemTags
  /\ \A id \in 0..2 : Len(key.fixed[id]) < K * K * K
  /\ \A id \in DOMAIN key.tags : Len(key.tags[id].data) + 6 < K * K * K
=============================================================================
