------------------------------ MODULE Btleplug ------------------------------
(***************************************************************************)
(* The real transport (mkey-ble/src/btleplug_impl.rs): scanning, finding a *)
(* lock, bringing the link up, and letting it go, one await per step.  The *)
(* operating system's Bluetooth stack is external: any call into it may    *)
(* fail, and a link may drop at any time.                                  *)
(*                                                                         *)
(* A step of a transport call gives its caller a result: Pending while the *)
(* call still waits, None for Ok, or an error.  The caller acts on it in   *)
(* the same step.                                                          *)
(*                                                                         *)
(* The two characteristics are found, stored and cleared together, so they *)
(* are one variable.  Their properties only choose how a write is made and *)
(* are left out.                                                           *)
(***************************************************************************)
EXTENDS MobileKey, Advertisement

CONSTANTS Locks,      \* the devices in range
          Broadcasts, \* what each of them advertises
          QueueLimit  \* bound: packets waiting in the notification stream

ASSUME TransportAssumption ==
  /\ None \notin Locks /\ None \notin AdvertisementType
  /\ None \notin {"Pending", "Gatt", "NoLocksFound", "ServiceNotFound",
                  "CharacteristicNotFound", "Timeout"}
  /\ Broadcasts \in [Locks -> BroadcastType]
  /\ QueueLimit \in Nat \ {0}

VARIABLES up,         \* external: the locks to which a radio link is up
          scanning,   \* external: the adapter scans
          peripheral, \* the handle, None when there is none
          chars,      \* the lock whose two characteristics are held, or None
          stream,     \* notification_stream: the lock it listens to, or None
          queue,      \* what waits in it: packets of this session or "Stale" ones
          at,         \* the await a transport call is in
          target,     \* the peripheral that call works on, or None
          answer,     \* what it will return once the scan has been stopped
          unstopped   \* history: a stop_scan failed, or a scan was abandoned

transportVars == <<up, scanning, peripheral, chars, stream, queue, at, target, answer,
                   unstopped>>
heldVars == <<peripheral, chars, stream, queue>>

Searching == {"searching", "connecting", "discovering", "rejecting"}

TransportTypeOK ==
  /\ up \subseteq Locks
  /\ scanning \in BOOLEAN /\ unstopped \in BOOLEAN
  /\ peripheral \in Locks \cup {None}
  /\ chars \in Locks \cup {None}
  /\ peripheral # None => chars = peripheral
  /\ stream \in Locks \cup {None}
  /\ Len(queue) <= QueueLimit
  /\ stream = None => queue = <<>>
  /\ at \in Searching \cup {"idle", "starting", "stopping", "surveying", "listing",
                            "enabling", "checking", "closing"}
  /\ target \in Locks \cup {None}

TransportInit ==
  /\ up = {} /\ scanning = FALSE /\ unstopped = FALSE
  /\ peripheral = None /\ chars = None /\ stream = None /\ queue = <<>>
  /\ at = "idle" /\ target = None /\ answer = None

Pending == "Pending"

Results == {Pending, None, "Gatt", "NoLocksFound", "ServiceNotFound", "CharacteristicNotFound",
            "Timeout"}

\* The call in flight is over, and its locals with it.
Leave == at' = "idle" /\ target' = None /\ answer' = None

-----------------------------------------------------------------------------
(* Scanning *)

\* An await of stop_scan.
StopScan ==
  \/ scanning' = FALSE /\ UNCHANGED unstopped
  \/ scanning' = scanning /\ unstopped' = TRUE

\* scan and the two ways to connect all begin with start_scan.
StartScan(next) ==
  /\ at = "idle"
  /\ at' = next
  /\ UNCHANGED <<up, scanning, heldVars, target, answer, unstopped>>

ScanRefused(res) ==
  /\ at \in {"starting", "listing"}
  /\ Leave
  /\ UNCHANGED <<up, scanning, heldVars, unstopped>>
  /\ res = "Gatt"

\* scan: sleep, stop, list.  An error of stop_scan is returned.
Survey ==
  /\ at = "listing"
  /\ scanning' = TRUE /\ at' = "surveying"
  /\ UNCHANGED <<up, heldVars, target, answer, unstopped>>

SurveyEnds(res) ==
  /\ at = "surveying"
  /\ StopScan /\ Leave
  /\ UNCHANGED <<up, heldVars>>
  /\ res \in {None, "Gatt"}
  /\ scanning' => res = "Gatt"

SurveySteps(res) == \/ Survey /\ res = Pending
                    \/ at = "listing" /\ ScanRefused(res)
                    \/ SurveyEnds(res)

-----------------------------------------------------------------------------
(* scan_and_connect and connect_by_id *)

Search ==
  /\ at = "starting"
  /\ scanning' = TRUE /\ at' = "searching"
  /\ UNCHANGED <<up, heldVars, target, answer, unstopped>>

\* The first device that is recognised and passes the filter, or has the id.
\* The error of this stop_scan is ignored.
Find ==
  /\ at = "searching"
  /\ \E l \in Locks : Discover(Broadcasts[l]) # None /\ target' = l
  /\ StopScan
  /\ at' = "connecting"
  /\ UNCHANGED <<up, heldVars, answer>>

\* Mutant: what the search returns is returned without stopping the scan.
ReturnAtOnce(res) ==
  /\ Leave /\ UNCHANGED <<scanning, unstopped>>
  /\ res = answer

\* The search is over; the scan is stopped again before its result is returned.
Concludes(res) == at' = "stopping" /\ answer' = res

\* The adapter's events end.
FindNothing ==
  /\ at = "searching" /\ Concludes("NoLocksFound")
  /\ UNCHANGED <<up, scanning, heldVars, target, unstopped>>

Connect ==
  /\ at = "connecting"
  /\ up' = up \cup {target}
  /\ at' = "discovering"
  /\ UNCHANGED <<scanning, heldVars, target, answer, unstopped>>

MissService ==
  /\ at = "discovering"
  /\ at' = "rejecting"
  /\ UNCHANGED <<up, scanning, heldVars, target, answer, unstopped>>

\* Mutant: the lock is refused and its link kept.
RejectOnly ==
  /\ at = "rejecting" /\ Concludes("ServiceNotFound")
  /\ UNCHANGED <<up, scanning, heldVars, target, unstopped>>

\* A lock without the SALTO service is let go of again.
Reject ==
  /\ at = "rejecting" /\ Concludes("ServiceNotFound")
  /\ up' = up \ {target}
  /\ UNCHANGED <<scanning, heldVars, target, unstopped>>

\* Only now is anything stored: an earlier failure leaves no handle behind.
MissCharacteristic ==
  /\ at = "discovering" /\ Concludes("CharacteristicNotFound")
  /\ UNCHANGED <<up, scanning, heldVars, target, unstopped>>

\* Mutant: the stream of the previous connection is kept.
StoreBesideStream ==
  /\ at = "discovering" /\ Concludes(None)
  /\ peripheral' = target /\ chars' = target
  /\ UNCHANGED <<up, scanning, stream, queue, target, unstopped>>

\* Mutant: the characteristics of the previous connection are kept.
StoreHandleOnly ==
  /\ at = "discovering" /\ Concludes(None)
  /\ peripheral' = target /\ stream' = None /\ queue' = <<>>
  /\ UNCHANGED <<up, scanning, chars, target, unstopped>>

Store ==
  /\ at = "discovering" /\ Concludes(None)
  /\ peripheral' = target /\ chars' = target /\ stream' = None /\ queue' = <<>>
  /\ UNCHANGED <<up, scanning, target, unstopped>>

ConnectCallFails ==
  /\ at \in {"connecting", "discovering", "rejecting"} /\ Concludes("Gatt")
  /\ UNCHANGED <<up, scanning, heldVars, target, unstopped>>

\* What the operating system makes of a request nobody waits for any more.
Abandoned ==
  up' \in CASE at = "connecting"             -> {up, up \cup {target}}
            [] at \in {"rejecting", "closing"} -> {up, up \ {target}}
            [] OTHER                         -> {up}

\* The timeout around the whole search drops the inner future where it is.
ConnectTimesOut ==
  /\ at \in Searching /\ Concludes("Timeout")
  /\ Abandoned
  /\ UNCHANGED <<scanning, heldVars, target, unstopped>>

\* The error of this stop_scan is ignored too.
Conclude(res) ==
  /\ StopScan /\ Leave
  /\ res = answer

StopAndReturn(res) ==
  /\ at = "stopping" /\ Conclude(res)
  /\ UNCHANGED <<up, heldVars>>

ConnectSteps(res) ==
  \/ /\ \/ Search \/ Find \/ Connect \/ MissService
        \/ FindNothing \/ Reject \/ MissCharacteristic \/ Store
        \/ ConnectCallFails \/ ConnectTimesOut
     /\ res = Pending
  \/ at = "starting" /\ ScanRefused(res)
  \/ StopAndReturn(res)

-----------------------------------------------------------------------------
(* disconnect *)

Forget == chars' = None /\ stream' = None /\ queue' = <<>>

\* The handle is taken before anything can fail.
StartDisconnect(res) ==
  /\ at = "idle"
  /\ UNCHANGED <<up, scanning, answer, unstopped>>
  /\ \/ /\ peripheral = None
        /\ Forget /\ UNCHANGED <<at, peripheral, target>>
        /\ res = None
     \/ /\ peripheral # None
        /\ target' = peripheral /\ peripheral' = None
        /\ at' = "checking" /\ res = Pending
        /\ UNCHANGED <<chars, stream, queue>>

CheckLink(res) ==
  /\ at = "checking"
  /\ UNCHANGED <<up, scanning, peripheral, unstopped>>
  /\ \/ /\ target \in up /\ at' = "closing" /\ res = Pending
        /\ UNCHANGED <<chars, stream, queue, target, answer>>
     \/ target \notin up /\ Forget /\ Leave /\ res = None

CloseLink(res) ==
  /\ at = "closing"
  /\ up' = up \ {target}
  /\ Forget /\ Leave /\ UNCHANGED <<scanning, peripheral, unstopped>>
  /\ res = None

\* The characteristics and the stream stay.
DisconnectFails(res) ==
  /\ at \in {"checking", "closing"}
  /\ Leave /\ UNCHANGED <<up, scanning, heldVars, unstopped>>
  /\ res = "Gatt"

DisconnectSteps(res) == CheckLink(res) \/ CloseLink(res) \/ DisconnectFails(res)

-----------------------------------------------------------------------------
(* What a session calls *)

\* subscribe is idempotent: a stream that is there is kept.  Otherwise it is
\* opened before the CCCD is written, so whatever the lock sends from then on
\* is in it, and it is stored when the write has succeeded.
StartSubscribe ==
  /\ at = "idle"
  /\ stream = None /\ peripheral # None
  /\ at' = "enabling"
  /\ UNCHANGED <<up, scanning, heldVars, target, answer, unstopped>>

\* Mutant: the stream is opened after the CCCD write, and misses what came first.
EnableThenListen(sent) ==
  IF peripheral \in up THEN stream' = peripheral /\ queue' = <<>>
  ELSE UNCHANGED <<stream, queue>>

EnableNotifications(sent) ==
  IF peripheral \in up THEN stream' = peripheral /\ queue' = sent
  ELSE UNCHANGED <<stream, queue>>

\* sent: what the lock has sent in the meantime.
SubscribeEnds(sent) ==
  /\ at = "enabling"
  /\ \/ EnableNotifications(sent)
     \/ UNCHANGED <<stream, queue>>
  /\ Leave /\ UNCHANGED <<up, scanning, peripheral, chars, unstopped>>

\* The lock notifies; the packet waits in the stream.
Notify(packet) ==
  /\ stream # None /\ stream \in up /\ Len(queue) < QueueLimit
  /\ queue' = Append(queue, packet)
  /\ UNCHANGED <<up, scanning, peripheral, chars, stream, at, target, answer, unstopped>>

\* receive takes the oldest packet.
Receive ==
  /\ stream # None /\ queue # <<>>
  /\ queue' = Tail(queue)
  /\ UNCHANGED <<up, scanning, peripheral, chars, stream, at, target, answer, unstopped>>

\* The lock a write or a read reaches.
Reached == IF peripheral # None /\ chars # None THEN {peripheral} \cap up ELSE {}

\* The future of a call is dropped by whoever awaits it.
DropFuture ==
  /\ Abandoned
  /\ scanning' \in CASE at \in {"starting", "listing"}   -> {scanning, TRUE}
                     [] at \in {"stopping", "surveying"} -> {scanning, FALSE}
                     [] OTHER                           -> {scanning}
  /\ unstopped' = (unstopped \/ at \in Searching \cup {"starting", "stopping", "surveying", "listing"})
  /\ Leave /\ UNCHANGED heldVars

LinkDrops ==
  /\ \E l \in up : up' = up \ {l}
  /\ UNCHANGED <<scanning, heldVars, at, target, answer, unstopped>>
=============================================================================
