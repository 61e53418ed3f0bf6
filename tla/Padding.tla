------------------------------ MODULE Padding ------------------------------
(***************************************************************************)
(* ISO 7816-4 padding to whole blocks (mkey-core/src/crypto/padding.rs).   *)
(***************************************************************************)
EXTENDS Bytes

BLOCK  == 16
MARKER == 128

\* Mutant: nothing is added to data that already ends a block.
FillLengthLoose(n) == IF n % BLOCK = 0 THEN 0 ELSE BLOCK - 1 - (n % BLOCK)

\* The zero bytes after the marker: none when the marker ends a block.
FillLength(n) == (BLOCK - ((n + 1) % BLOCK)) % BLOCK

ApplyPadding(data) ==
  data \o <<MARKER>> \o [i \in 1..FillLength(Len(data)) |-> 0]

\* The length of data without its trailing zeros.
LastNonZero(data) ==
  CHOOSE n \in 0..Len(data) :
    /\ n > 0 => data[n] # 0
    /\ \A i \in n + 1..Len(data) : data[i] = 0

\* remove_padding: the data, or None for InvalidPadding.
RemovePadding(data) ==
  LET n == LastNonZero(data)
  IN  IF n > 0 /\ data[n] = MARKER THEN SubSeq(data, 1, n - 1) ELSE None
=============================================================================
