--------------------------- MODULE Advertisement ---------------------------
(***************************************************************************)
(* Recognising a SALTO lock before connecting                              *)
(* (mkey-core/src/advertisement.rs, mkey-ble/src/advertisement.rs).  What  *)
(* a device broadcasts is [record, service]: the bytes of its SALTO        *)
(* manufacturer record, None without one, and whether it lists the SALTO   *)
(* service.                                                                *)
(***************************************************************************)
EXTENDS Bytes

BroadcastType == [record : Seq(Byte) \cup {None}, service : BOOLEAN]

Bit(byte, n) == (byte \div 2^n) % 2

\* ProtocolFlags::from_byte
ProtocolFlags(byte) ==
  [remote      |-> Bit(byte, 0) = 1,
   hasMessages |-> Bit(byte, 2) = 1,
   rf3         |-> <<"Off", "Ini", "Link", "Lost">>[((byte \div 16) % 4) + 1]]

\* SaltoAdvertisement
AdvertisementType ==
  [version : Byte,
   flags   : [remote : BOOLEAN, hasMessages : BOOLEAN, rf3 : {"Off", "Ini", "Link", "Lost"}]]

\* parse_salto_advertisement: version, one reserved byte, flags.
ParseSaltoAdvertisement(data) ==
  IF Len(data) < 3 THEN None
  ELSE [version |-> data[1], flags |-> ProtocolFlags(data[3])]

\* discover_by_manufacturer_data, else discover_by_service_uuid
Discover(b) ==
  IF b.record # None /\ ParseSaltoAdvertisement(b.record) # None
  THEN ParseSaltoAdvertisement(b.record)
  ELSE IF b.service THEN [version |-> 0, flags |-> ProtocolFlags(0)] ELSE None
=============================================================================
