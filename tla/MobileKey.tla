----------------------------- MODULE MobileKey -----------------------------
(***************************************************************************)
(* A mobile key (mkey-core/src/data/mobile_key.rs): three fixed fields,    *)
(* read as tags 0x00, 0x01 and 0x02 (0x02 is the pre-shared kN key), and   *)
(* general-purpose tags, each with permission flags and a value.           *)
(***************************************************************************)
EXTENDS Bytes

TAG_KN_KEY           == 2
TAG_DEPRECATED_AUDIT == 10
TAG_AUDIT            == 11
TAG_OPENING_MODE     == 16

\* The bits of Permissions(u8); nothing looks at the last two, but they are kept.
Flags == {"WRITE_WITHOUT_SECURITY", "READ_WITHOUT_SECURITY",
          "WRITABLE", "READABLE", "REMOVE_IF_ABSENT", "OVERWRITE_IF_PRESENT", "BIT_6", "BIT_7"}

Tag(permissions, data) == [permissions |-> permissions, data |-> data]

TagType == [permissions : SUBSET Flags, data : Seq(Byte)]

\* The struct: tag_0, tag_1 and kn_key under their tag ids, and the map.
IsMobileKey(key) ==
  /\ key = [fixed |-> key.fixed, tags |-> key.tags]
  /\ key.fixed \in [0..2 -> Seq(Byte)]
  /\ DOMAIN key.tags \subseteq Byte
  /\ key.tags \in [DOMAIN key.tags -> TagType]

Kn(key) == key.fixed[TAG_KN_KEY]

\* HashMap::insert on the tag map.
InsertTag(key, id, tag) ==
  [key EXCEPT !.tags = [i \in DOMAIN key.tags \cup {id} |->
                          IF i = id THEN tag ELSE key.tags[i]]]

\* get_tag finds the fixed fields first: an entry of the map with an id
\* below 3 is shadowed.
HasTag(key, id) == id \in 0..2 \/ id \in DOMAIN key.tags

GetTag(key, id) ==
  IF id \in 0..2 THEN Tag({"READABLE"}, key.fixed[id]) ELSE key.tags[id]

\* set_tag_data: an existing tag keeps its permissions.
SetTagData(key, id, data) ==
  InsertTag(key, id,
            Tag(IF id \in DOMAIN key.tags THEN key.tags[id].permissions
                                          ELSE {"READABLE", "WRITABLE"},
                data))

\* The end of from_bytes: the audit tags exist in memory even though the
\* encoded key never carries them.
MaterialiseSystemTags(key) ==
  LET audit == Tag({"WRITABLE", "WRITE_WITHOUT_SECURITY"}, <<>>)
      OrInsert(k, id) == IF id \in DOMAIN k.tags THEN k ELSE InsertTag(k, id, audit)
  IN  OrInsert(OrInsert(key, TAG_DEPRECATED_AUDIT), TAG_AUDIT)
=============================================================================
