------------------------------- MODULE MCPump -------------------------------
(***************************************************************************)
(* A small instance of Pump: a lock that may authenticate, read kN, write  *)
(* results in any order, close, send garbage, and drop the link.           *)
(***************************************************************************)
EXTENDS Pump

Fill(n) == [i \in 1..16 |-> n + i]

RandomA == Fill(60)
RandomB == Fill(100)

MCRandoms == {RandomB}

MCKey ==
  MaterialiseSystemTags(
    [fixed |-> [id \in 0..2 |-> IF id = 2 THEN Fill(20) ELSE <<id>>],
     tags  |-> [id \in {} |-> Tag({}, <<>>)]])

\* One way of detecting the version, and every way.
OneOptions ==
  {[mode |-> "Standard", detection |-> "AppProtocol", notifyReadable |-> TRUE]}

AllOptions ==
  [mode : {"Standard"}, detection : {"AppProtocol", "ReadOnly", "None"}, notifyReadable : BOOLEAN]

\* Three IVs that follow one another: an old IV can come round again.
MCLastBlock(key, iv, body) == (iv + 1) % 3

\* Noise, a short and a whole nonce, a short and two whole results.
MCPackets0100 ==
  {[prefix |-> 9, size |-> 2, op |-> 0]}
    \cup {[prefix |-> 3, size |-> n, op |-> 0] : n \in {2, 17}}
    \cup {[prefix |-> 5, size |-> 1, op |-> 0]}
    \cup {[prefix |-> 5, size |-> 2, op |-> op] : op \in {1, 2}}

MCBodies ==
  {Control("OpenSessionStep1", None, None),
   Control("OpenSessionStep2", RandomA, RotateRight(RandomB))}

MCCommands ==
  {Command("Close", None, None), Command("ReadTag", TAG_KN_KEY, None)}
    \cup {Command("WriteTag", TAG_AUDIT, <<op>>) : op \in {1, 2, 7}}
=============================================================================
