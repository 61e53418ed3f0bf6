-------------------------------- MODULE Crc --------------------------------
(***************************************************************************)
(* The two checksums of mkey-core/src/crypto/crc.rs: crc16_ssp, a nibble   *)
(* at a time, which seals every SSP payload, and crc16_hasher, by table,   *)
(* which is part of a key's identifier. 16-bit words are numbers below     *)
(* 2^16; ^ is exclusive or.                                                *)
(***************************************************************************)
EXTENDS Bytes, SequencesExt

\* Exclusive or of two words, bit by bit, through a table of nibbles.
NibbleXor ==
  [x \in 0..15 |-> [y \in 0..15 |->
     LET bit(b) == IF (x \div b) % 2 = (y \div b) % 2 THEN 0 ELSE b
     IN  bit(1) + bit(2) + bit(4) + bit(8)]]

\* Nibble by nibble. It is the value of a function, so that TLC works out both words
\* before it takes them apart and a long checksum does not exhaust its stack.
x ^^ y ==
  LET xor[words \in Nat \X Nat] ==
        LET at(w) == NibbleXor[(words[1] \div w) % 16][(words[2] \div w) % 16] * w
        IN  at(1) + at(16) + at(256) + at(4096)
  IN  xor[<<x, y>>]

\* u16 to the byte pair, low byte first.
LittleEndian(word) == <<word % 256, word \div 256>>

\* One nibble of crc16_ssp; 4225 spreads it over the word (crc.rs:4 calls it the
\* polynomial).
TakeNibble(crc, nibble) == (crc \div 16) ^^ (((crc ^^ nibble) % 16) * 4225)

\* Mutant: the high nibble goes first.
HighNibbleFirst(crc, byte) == TakeNibble(TakeNibble(crc, byte \div 16), byte)

TakeByte(crc, byte) == TakeNibble(TakeNibble(crc, byte), byte \div 16)

Crc16Ssp(data) == LittleEndian(FoldLeft(TakeByte, 25443, data))

\* The table of crc16_hasher: eight steps of the shift register, four at a time.
ShiftOnce(crc) == IF crc % 2 = 1 THEN (crc \div 2) ^^ 33800 ELSE crc \div 2

ShiftNibble(word) == ShiftOnce(ShiftOnce(ShiftOnce(ShiftOnce(word))))

ShiftByte(word) == ShiftNibble(ShiftNibble(word))

TABLE == [i \in 0..255 |-> ShiftByte(i)]

LookUpByte(seed, byte) == TABLE[(seed % 256) ^^ byte] ^^ (seed \div 256)

Crc16Hasher(data) == LittleEndian(FoldLeft(LookUpByte, 65535, data) ^^ 65535)
=============================================================================
