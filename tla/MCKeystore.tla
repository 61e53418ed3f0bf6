----------------------------- MODULE MCKeystore -----------------------------
EXTENDS Keystore

\* Three pairs, each with a mobile key of its own: three fixed fields
\* and two general-purpose tags, one of them empty and with a bit that means
\* nothing.
MCKey(g) ==
  [fixed |-> (0 :> <<g>>) @@ (1 :> <<>>) @@ (2 :> [i \in 1..16 |-> g + i]),
   tags  |-> (5 :> Tag({"READABLE", "WRITABLE"}, <<g, g>>)) @@ (7 :> Tag({"READABLE", "BIT_7"}, <<>>))]

MCIssued == <<MCKey(1), MCKey(2), MCKey(3)>>

\* A container is cut in its SEQUENCE at 0, 1, 3, 4 or 30, in its ciphertext
\* from 40 on; a TLV in the kN key at 20 and in or after its tags from 24 on.
MCCuts == {0, 1, 3, 4, 20, 24, 30, 31, 62, 68}

\* The hypothesis of DecodeGivesTheIssuedKey and KeySurvives (KeystoreProofs)
\* holds here.
ASSUME MCKeysAreStorable == KeysAreStorable
=============================================================================
