---------------------------- MODULE MCSaltoLock ----------------------------
(***************************************************************************)
(* A small instance of SaltoLock: a lock with a manufacturer record, one   *)
(* whose record is too short and that is known by its service, one whose   *)
(* record says version 0, a device that is no lock, one key, and a write   *)
(* to a tag.                                                               *)
(***************************************************************************)
EXTENDS SaltoLock

CONSTANTS l1, l2, l3, l4

MCLocks == {l1, l2, l3, l4}

MCBroadcasts ==
  [l \in MCLocks |-> CASE l = l1 -> [record |-> <<2, 0, 37>>, service |-> TRUE]
                       [] l = l2 -> [record |-> <<1, 0>>, service |-> TRUE]
                       [] l = l3 -> [record |-> <<0, 0, 0>>, service |-> TRUE]
                       [] l = l4 -> [record |-> None, service |-> FALSE]]

\* A general-purpose tag.
GeneralWrites == {[id |-> 5, data |-> <<7>>]}

IssuedKey ==
  MaterialiseSystemTags(
     [fixed |-> [id \in 0..2 |-> IF id = 2 THEN [i \in 1..16 |-> i] ELSE <<id>>],
      tags  |-> [id \in {} |-> Tag({}, <<>>)]])

\* A key as it was issued, and with the tag written.
MCKeys == {IssuedKey} \cup {SetTagData(IssuedKey, w.id, w.data) : w \in GeneralWrites}
=============================================================================
