------------------------------- MODULE Bytes -------------------------------
(***************************************************************************)
(* The values every other module computes with: bytes, the 16-byte blocks  *)
(* that keys and random challenges are, Rust's Option (a value or None),   *)
(* and the two pure functions of mkey-core/src/crypto that the SSP layer   *)
(* uses on blocks.                                                         *)
(***************************************************************************)
EXTENDS Integers, Sequences

CONSTANT None   \* Option::None

Byte == 0..255

\* A [u8; 16]: a key or a random challenge.
Block == [1..16 -> Byte]

\* The errors an attempt can end with, one name per way it ends: Transport
\* stands for the GATT and link errors, InvalidCrc also for bad padding,
\* Unexpected and AskedForNothing for the InvalidState of a broken contract.
ErrorCode ==
  {"InvalidData", "InvalidState", "InvalidCrc", "AuthenticationFailed",
   "InvalidProtocolVersion", "Timeout", "Disconnected", "Cancelled",
   "Transport", "Unexpected", "AskedForNothing"}

\* An absent value is no byte, no block, no string of bytes and no error.
ASSUME NoneAssumption == /\ None \notin Byte
                         /\ None \notin Block
                         /\ None \notin Seq(Byte)
                         /\ None \notin ErrorCode

\* rotate_right: the last byte moves to the front.
RotateRight(b) == [i \in 1..16 |-> IF i = 1 THEN b[16] ELSE b[i - 1]]

\* Mutant: only the first half of the key is filled in.
HalfSessionKey(a, b) == [i \in 1..8 |-> IF i <= 4 THEN a[i] ELSE b[i - 4]]

\* derive_session_key: the first and the last four bytes of each random.
DeriveSessionKey(a, b) ==
  [i \in 1..16 |-> CASE i \in 1..4   -> a[i]
                     [] i \in 5..8   -> b[i - 4]
                     [] i \in 9..12  -> a[i + 4]
                     [] i \in 13..16 -> b[i]]
=============================================================================
