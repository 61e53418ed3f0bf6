------------------------------- MODULE Codec -------------------------------
(***************************************************************************)
(* The pure algorithms of mkey-core, over an input that grows byte by      *)
(* byte: what an SSP payload is wrapped in before it is encrypted, what a  *)
(* key id is looked up as, and how a field of a mobile key is stored. The  *)
(* state is only the input; the properties compare each algorithm with a   *)
(* reference that is written another way.                                  *)
(***************************************************************************)
EXTENDS Padding, Base62, Tlv

CONSTANTS
  Starts,     \* inputs to begin with, to get near a boundary
  Alphabet,   \* the bytes that may follow
  MaxGrowth,  \* bound: how many bytes may follow
  MaxPayload  \* bound: the longest input taken as a payload or a key id

ASSUME CodecAssumption == /\ Starts \subseteq Seq(Byte)
                          /\ Alphabet \subseteq Byte
                          /\ MaxGrowth \in Nat /\ MaxPayload \in Nat

\* What encode_tlv can say the length of: a length field has at most three bytes.
InputsStayShort == \A s \in Starts : Len(s) + MaxGrowth < K * K * K

VARIABLES input, grown

vars == <<input, grown>>

Init == input \in Starts /\ grown = 0

Grow == /\ grown < MaxGrowth
        /\ grown' = grown + 1
        /\ \E b \in Alphabet : input' = Append(input, b)

Spec == Init /\ [][Grow]_vars

-----------------------------------------------------------------------------
\* Mutant: the checksum is read but not compared.
UnframeUnchecked(text) ==
  LET plain == RemovePadding(text)
  IN  IF plain = None THEN None ELSE SubSeq(plain, 1, Len(plain) - 2)

\* What encrypt_payload encrypts, and decrypt_payload makes of what it decrypts:
\* None for InvalidPadding, too short a text, or InvalidCrc.
Frame(data) == ApplyPadding(data \o Crc16Ssp(data))

Unframe(text) ==
  LET plain == RemovePadding(text)
      n     == Len(plain) - 2
      data  == SubSeq(plain, 1, n)
  IN  IF plain = None THEN None
      ELSE IF n < 0 THEN None
      ELSE IF SubSeq(plain, n + 1, n + 2) # Crc16Ssp(data) THEN None
      ELSE data

-----------------------------------------------------------------------------
Payload == Len(input) <= MaxPayload

\* A payload comes back from its frame whatever it ends with, zeros and marker
\* bytes included, and a frame is always whole blocks.
FrameComesBack ==
  Payload => /\ Len(Frame(input)) % BLOCK = 0
             /\ Unframe(Frame(input)) = input

\* A frame that arrives with one byte changed is refused: no byte of the data,
\* the checksum, the marker or the zeros makes it some other payload, nor the same.
DamageIsSeen ==
  LET frame == Frame(input)
  IN  Payload => \A i \in DOMAIN frame : \A b \in Alphabet \ {frame[i]} :
        Unframe([frame EXCEPT ![i] = b]) = None

\* crc.rs computes one and the same reflected CRC-16, of polynomial 0x8408, in
\* crc16_ssp and in crc16_hasher: its nibbles and its table are two short cuts to
\* shifting one bit at a time. 0x8408 is what crc.rs:25 names for crc16_hasher;
\* crc.rs:1-4 names 0x1081 for crc16_ssp, which is not what the code computes: 0x1081
\* (4225) is what a nibble of value 1 leaves in the register. (Shifted is a
\* function so that TLC works out the word before it shifts it, as in ^^.)
Shifted[word \in Nat] == ShiftByte(word)

Absorb(crc, byte) == Shifted[crc ^^ byte]

BitwiseCrc(start, data) == FoldLeft(Absorb, start, data)

ChecksumsAreCrc ==
  Payload =>
    /\ Crc16Ssp(input) = LittleEndian(BitwiseCrc(25443, input))
    /\ Crc16Hasher(input) = LittleEndian(BitwiseCrc(65535, input) ^^ 65535)

\* The value times 62 and a digit more, from the last byte on: carry[i] goes
\* from byte i + 1 to byte i.
TakeDigit(value, digit) ==
  LET n == Len(value)
      carry[i \in 0..n] == IF i = n THEN digit ELSE (value[i + 1] * 62 + carry[i + 1]) \div 256
  IN  [i \in 1..n |-> (value[i] * 62 + carry[i]) % 256]

\* The number of so many bytes that the digits stand for.
ReadBase62(digits, width) ==
  LET read[j \in 0..Len(digits)] == IF j = 0 THEN [i \in 1..width |-> 0]
                                    ELSE TakeDigit(read[j - 1], digits[j])
  IN  read[Len(digits)]

\* Multiplying the digits back gives the bytes: byte strings of one length never
\* share their base62. An identifier reads back as the first eight bytes of the
\* key id and the checksum of all of it, and that is all it tells: two key ids
\* that agree in both share it (compute_key_identifier).
IdentifierReadsBack ==
  Payload =>
    /\ ReadBase62(EncodeBase62(input), Len(input)) = input
    /\ Len(input) >= 8 =>
       ReadBase62(ComputeKeyIdentifier(input), 10) = SubSeq(input, 1, 8) \o Crc16Hasher(input)

\* A field of any length is read back as it was written, alone or followed by
\* another, and never from a part of it.
FieldReadsBack ==
  LET field  == EncodeTlv(5, input)
      one(v) == [id |-> 5, constructed |-> FALSE, value |-> v]
  IN  /\ ParseAll(field \o EncodeTlv(5, <<>>)) = <<one(input), one(<<>>)>>
      /\ ParseAll(SubSeq(field, 1, Len(field) - 1)) = <<>>
=============================================================================
