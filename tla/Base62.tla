------------------------------- MODULE Base62 -------------------------------
(***************************************************************************)
(* Key identifiers: encode_base62 of mkey-core/src/data/base62.rs and      *)
(* compute_key_identifier of mkey-core/src/command/justin.rs. A digit is   *)
(* its place in the alphabet.                                              *)
(***************************************************************************)
EXTENDS Crc

\* One pass of the long division by 62: the quotient, byte by byte, and the
\* remainder that each byte leaves to the next.
DivideByte(st, byte) ==
  LET accumulator == st.remainder * 256 + byte
  IN  [quotient |-> Append(st.quotient, accumulator \div 62), remainder |-> accumulator % 62]

Divide(value) == FoldLeft(DivideByte, [quotient |-> <<>>, remainder |-> 0], value)

\* Leading zeros are skipped; they carry nothing.
SkipZeros(value) ==
  LET used == {i \in DOMAIN value : value[i] # 0}
  IN  IF used = {} THEN <<>>
      ELSE SubSeq(value, CHOOSE i \in used : \A j \in used : i <= j, Len(value))

\* Mutant: the last byte is not divided.
NextDigitStopsEarly(st, round) ==
  IF Len(st.value) <= 1 THEN st
  ELSE [value  |-> SkipZeros(Divide(st.value).quotient),
        digits |-> <<Divide(st.value).remainder>> \o st.digits]

\* One round of the outer loop: one more digit, in front of those that are
\* already there, and what is left to divide.
NextDigit(st, round) ==
  IF st.value = <<>> THEN st
  ELSE [value  |-> SkipZeros(Divide(st.value).quotient),
        digits |-> <<Divide(st.value).remainder>> \o st.digits]

\* Each division leaves a smaller value: two digits for a byte are enough.
Digits(data) ==
  FoldLeft(NextDigit, [value |-> data, digits |-> <<>>], [i \in 1..2 * Len(data) |-> i]).digits

\* encode_base62; a value of zero is one zero more than it has bytes.
EncodeBase62(data) ==
  IF data = <<>> THEN <<>>
  ELSE IF \A i \in DOMAIN data : data[i] = 0 THEN [i \in 1..Len(data) + 1 |-> 0]
  ELSE Digits(data)

\* compute_key_identifier, of a key id of at least 8 bytes: the hash is that of
\* all of it, the identifier holds the first eight.
ComputeKeyIdentifier(keyId) == EncodeBase62(SubSeq(keyId, 1, 8) \o Crc16Hasher(keyId))
=============================================================================
