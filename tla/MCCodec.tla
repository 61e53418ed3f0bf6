------------------------------ MODULE MCCodec ------------------------------
EXTENDS Codec

\* Empty; a key id; two bytes short of a block with its checksum; just below
\* the lengths at which a TLV length changes form.
Repeat(b, n) == [i \in 1..n |-> b]
MCStarts == {<<>>, Repeat(17, 8), Repeat(0, 12), Repeat(128, 126), Repeat(1, 254), Repeat(1, 65533)}

ASSUME MCInputsStayShort == InputsStayShort
=============================================================================
