-------------------------------- MODULE Tlv --------------------------------
(***************************************************************************)
(* The BER-TLV fields a mobile key is stored as: encode_tlv of             *)
(* mkey-core/src/data/mobile_key.rs, and the reading side, which is the    *)
(* crate iso7816-tlv (external) as far as from_bytes uses it.              *)
(***************************************************************************)
EXTENDS Bytes

\* Tag byte 0xC0: private class, primitive.
PRIVATE_CLASS == 192

K == 256   \* lengths are written in base 256

\* A length that cannot be read is none.
ASSUME TlvAssumption == None \notin [bytes : Nat, length : Nat]

\* Mutant: the short form is kept one length too far.
EncodeLengthLate(n) ==
  IF      n <= 128  THEN <<n>>
  ELSE IF n < K     THEN <<129, n>>
  ELSE IF n < K * K THEN <<130, n \div K, n % K>>
  ELSE <<131, (n \div (K * K)) % K, (n \div K) % K, n % K>>

EncodeLength(n) ==
  IF      n < 128   THEN <<n>>
  ELSE IF n < K     THEN <<129, n>>
  ELSE IF n < K * K THEN <<130, n \div K, n % K>>
  ELSE <<131, (n \div (K * K)) % K, (n \div K) % K, n % K>>

\* encode_tlv: only the low five bits of the tag number are kept.
EncodeTlv(id, value) ==
  <<PRIVATE_CLASS + (id % 32)>> \o EncodeLength(Len(value)) \o value

\* The length field that starts at index i of data: how many bytes it takes
\* and the length it says, or None when it is cut or no length at all.
LengthAt(data, i) ==
  LET long == data[i] - 128     \* the number of length bytes that follow
      form(length) == [bytes |-> long + 1, length |-> length]
  IN  IF i > Len(data) THEN None
      ELSE IF data[i] < 128 THEN [bytes |-> 1, length |-> data[i]]
      ELSE IF long \notin 1..4 \/ i + long > Len(data) THEN None
      ELSE CASE long = 1 -> form(data[i + 1])
             [] long = 2 -> form((data[i + 1] * K) + data[i + 2])
             [] long = 3 -> form((data[i + 1] * K * K) + (data[i + 2] * K) + data[i + 3])
             [] long = 4 -> IF data[i + 1] >= 128 THEN None   \* longer than any data
                            ELSE form((data[i + 1] * K * K * K) + (data[i + 2] * K * K)
                                        + (data[i + 3] * K) + data[i + 4])

\* A field can be read at index i of data: its tag is a single byte (a tag number
\* of 31 announces a tag of several bytes, which no field this program writes
\* has), and neither its length nor its value is cut.
Reads(data, i) ==
  /\ i <= Len(data) /\ data[i] % 32 # 31
  /\ LengthAt(data, i + 1) # None
  /\ i + LengthAt(data, i + 1).bytes + LengthAt(data, i + 1).length <= Len(data)

\* Where its value begins, and where the next field does.
FirstAt(data, i) == i + 1 + LengthAt(data, i + 1).bytes
NextAt(data, i)  == FirstAt(data, i) + LengthAt(data, i + 1).length

FieldAt(data, i) ==
  [id          |-> data[i] % 32,
   constructed |-> (data[i] \div 32) % 2 = 1,
   value       |-> SubSeq(data, FirstAt(data, i), NextAt(data, i) - 1)]

\* Tlv::parse_all: fields up to the first one that is malformed or cut, which
\* ends the list without an error.
ParseAll(data) ==
  LET parse[i \in 1..Len(data) + 1] ==
        IF Reads(data, i) THEN <<FieldAt(data, i)>> \o parse[NextAt(data, i)] ELSE <<>>
  IN  parse[1]
=============================================================================
