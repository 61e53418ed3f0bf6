----------------------------- MODULE MCSspLink -----------------------------
(***************************************************************************)
(* A small instance of SspLink: two challenges on each side, one installed *)
(* key, a tag that needs security and one that does not.                   *)
(***************************************************************************)
EXTENDS SspLink

Fill(n) == [i \in 1..16 |-> n + i]

MCKey ==
  MaterialiseSystemTags(
    [fixed |-> [id \in 0..2 |-> IF id = 2 THEN Fill(20) ELSE <<id>>],
     tags  |-> [id \in {4} |-> Tag({"READABLE"}, <<40>>)]])

MCLockRandoms == {Fill(60), Fill(80)}
MCRandoms     == {Fill(100)}
MCNewKeys     == {Fill(200)}

\* Free CBC: the last block determines key, IV and body.
MCLastBlock(key, iv, body) == <<key, iv, body>>
MCZeroIv == <<>>

MCCommands == {Command("ReadTag", 4, None), Command("WriteTag", TAG_AUDIT, <<2>>)}
=============================================================================
