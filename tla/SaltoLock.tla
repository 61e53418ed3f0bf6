----------------------------- MODULE SaltoLock -----------------------------
(***************************************************************************)
(* SaltoLock (mkey-ble/src/lock.rs) over the real transport: connect,      *)
(* authenticate, open, disconnect, in any order a caller tries them, with  *)
(* every transport call failing and every future droppable.                *)
(*                                                                         *)
(* The session that open runs is Session and Pump; here it is any sequence *)
(* of the transport calls it can make, ended by disconnect.  Its verdict   *)
(* is left out.  The lock notifies whenever notifications are enabled.     *)
(***************************************************************************)
EXTENDS Btleplug

CONSTANTS Keys,     \* mobile keys a caller may authenticate with, before or after a write
          TagWrites \* [id, data] a caller may write

ASSUME SaltoLockAssumption ==
  /\ \A k \in Keys : /\ IsMobileKey(k)
                     /\ \A w \in TagWrites : SetTagData(k, w.id, w.data) \in Keys
  /\ None \notin Keys /\ None \notin {"scan", "connect", "open", "disconnect"}

VARIABLES state,     \* LockState
          connected, \* connected_lock: the lock, or None; its info is Discover's
          key,       \* mobile_key
          handshake, \* HandshakePlan
          call,      \* the method in flight, None between calls
          detection, \* what open resolved the plan to
          ret,       \* what the method that has just returned gave, and to which lock
          talked,    \* history: the locks the session in flight exchanged bytes with
          heard,     \* history: the packets it heard
          begun,     \* history: the lock has sent it one
          forsaken,  \* history: an open over this connection was dropped
          stranded   \* history: the locks that were given up, perhaps with their link

sessionVars == <<detection, talked, heard, begun>>
lockVars == <<state, connected, key, handshake, call, ret, sessionVars, forsaken, stranded>>
vars     == <<transportVars, lockVars>>

Plans == {"Auto", "AppProtocol", "ReadOnly", "None"}

NoAnswer == [call |-> None, err |-> None, lock |-> None]

Init ==
  /\ TransportInit
  /\ state = "Disconnected" /\ connected = None /\ key = None
  /\ handshake = "Auto"
  /\ call = None /\ detection = None
  /\ ret = NoAnswer
  /\ talked = {} /\ heard = {} /\ begun = FALSE
  /\ forsaken = FALSE /\ stranded = {}

Answer(name, err) == ret' = [call |-> name, err |-> err, lock |-> connected]

\* A method begins to wait.
Begin(name) == call' = name /\ ret' = NoAnswer

\* The method ends and holds the lock it worked on no more.
GivesUp == stranded' = stranded \cup ({target} \cap Locks)

\* Nothing of a session outlives it.
SessionOver == detection' = None /\ talked' = {} /\ heard' = {} /\ begun' = FALSE

\* expect_state
ExpectState(expected, name) ==
  /\ state # expected
  /\ Answer(name, "InvalidState")
  /\ UNCHANGED <<transportVars, state, connected, key, handshake, call, sessionVars,
                 forsaken, stranded>>

-----------------------------------------------------------------------------
(* scan, scan_and_connect_filtered, connect_by_id *)

\* scan asks for no state, and keeps nothing.
StartSurveying ==
  /\ call = None /\ Begin("scan")
  /\ StartScan("listing")
  /\ UNCHANGED <<state, connected, key, handshake, sessionVars, forsaken, stranded>>

Surveying ==
  /\ call = "scan"
  /\ \E res \in Results :
       /\ SurveySteps(res)
       /\ IF res = Pending THEN UNCHANGED <<call, ret>> ELSE call' = None /\ Answer("scan", res)
  /\ UNCHANGED <<state, connected, key, handshake, sessionVars, forsaken, stranded>>

StartConnecting ==
  /\ call = None
  /\ \/ ExpectState("Disconnected", "connect")
     \/ /\ state = "Disconnected"
        /\ Begin("connect")
        /\ StartScan("starting")
        /\ UNCHANGED <<state, connected, key, handshake, sessionVars, forsaken, stranded>>

\* after_connect, when it succeeded.  Only a lock without the SALTO service was
\* disconnected; any other failure keeps no handle and leaves the link as it is.
ConnectReturns(err) ==
  /\ call' = None /\ Answer("connect", err)
  /\ IF err = None
     THEN state' = "Connected" /\ connected' = target /\ key' = None /\ forsaken' = FALSE
     ELSE UNCHANGED <<state, connected, key, forsaken>>
  /\ IF err \in {None, "ServiceNotFound"} THEN stranded' = stranded \ {target} ELSE GivesUp
  /\ UNCHANGED <<handshake, sessionVars>>

Connecting ==
  /\ call = "connect"
  /\ \E res \in Results :
       /\ ConnectSteps(res)
       /\ IF res = Pending THEN UNCHANGED lockVars ELSE ConnectReturns(res)

-----------------------------------------------------------------------------
(* The methods that do not wait *)

\* set_handshake; with_handshake does the same before the first call.
SetHandshake ==
  /\ call = None
  /\ handshake' \in Plans
  /\ UNCHANGED <<transportVars, state, connected, key, call, ret, sessionVars, forsaken, stranded>>

Authenticate ==
  /\ call = None
  /\ \/ ExpectState("Connected", "authenticate")
     \/ /\ state = "Connected"
        /\ \E k \in Keys : key' = k
        /\ state' = "Authenticated"
        /\ Answer("authenticate", None)
        /\ UNCHANGED <<transportVars, connected, handshake, call, sessionVars, forsaken, stranded>>

WriteTag ==
  /\ call = None
  /\ \/ /\ key = None
        /\ Answer("write_tag", "InvalidMobileKey")
        /\ UNCHANGED <<key>>
     \/ /\ key # None
        /\ \E w \in TagWrites : key' = SetTagData(key, w.id, w.data)
        /\ Answer("write_tag", None)
  /\ UNCHANGED <<transportVars, state, connected, handshake, call, sessionVars, forsaken, stranded>>

-----------------------------------------------------------------------------
(* open_observed *)

\* Mutant: the two cases of Auto are swapped.
ResolveSwapped(plan, version) ==
  IF plan = "Auto" THEN (IF version = 0 THEN "AppProtocol" ELSE "ReadOnly") ELSE plan

\* HandshakePlan::resolve
Resolve(plan, version) ==
  IF plan = "Auto" THEN (IF version = 0 THEN "ReadOnly" ELSE "AppProtocol") ELSE plan

AdvertisedVersion == IF connected = None THEN 0 ELSE Discover(Broadcasts[connected]).version

\* A dropped open leaves its stream, and what is queued there is stale now.
StartOpening ==
  /\ call = None
  /\ \/ ExpectState("Authenticated", "open")
     \/ /\ state = "Authenticated" /\ key = None
        /\ Answer("open", "InvalidMobileKey")
        /\ UNCHANGED <<transportVars, state, connected, key, handshake, call, sessionVars,
                       forsaken, stranded>>
     \/ /\ state = "Authenticated" /\ key # None
        /\ Begin("open")
        /\ detection' = Resolve(handshake, AdvertisedVersion)
        /\ queue' = [i \in DOMAIN queue |-> "Stale"]
        /\ UNCHANGED <<up, scanning, peripheral, chars, stream, at, target, answer, unstopped,
                       state, connected, key, handshake, talked, heard, begun, forsaken, stranded>>

\* The session subscribes, writes, reads and receives; one that hears nothing
\* or cannot write goes on or ends as Pump says.
SessionSubscribes ==
  /\ call = "open" /\ at = "idle"
  /\ StartSubscribe
  /\ UNCHANGED lockVars

SessionListens ==
  /\ call = "open"
  /\ \E sent \in {<<>>, <<"First">>} :
       SubscribeEnds(sent) /\ begun' = (stream' # None /\ sent # <<>>)
  /\ UNCHANGED <<state, connected, key, handshake, call, ret, detection, talked, heard,
                 forsaken, stranded>>

SessionTalks ==
  /\ call = "open" /\ at = "idle"
  /\ talked' = talked \cup Reached
  /\ UNCHANGED <<transportVars, state, connected, key, handshake, call, ret, detection,
                 heard, begun, forsaken, stranded>>

SessionHears ==
  /\ call = "open" /\ at = "idle"
  /\ Receive
  /\ talked' = talked \cup {stream}
  /\ heard' = heard \cup {Head(queue)}
  /\ UNCHANGED <<state, connected, key, handshake, call, ret, detection, begun, forsaken,
                 stranded>>

\* The error of disconnect is dropped; the key stays loaded.
OpenReturns(err) ==
  /\ call' = None /\ Answer("open", None)
  /\ state' = "Disconnected" /\ connected' = None
  /\ IF err = None THEN UNCHANGED stranded ELSE GivesUp
  /\ SessionOver /\ UNCHANGED <<key, handshake, forsaken>>

SessionEnds ==
  /\ call = "open" /\ at = "idle"
  /\ \E res \in Results :
       /\ StartDisconnect(res)
       /\ IF res = Pending THEN UNCHANGED lockVars ELSE OpenReturns(res)

Closing ==
  /\ call = "open"
  /\ \E res \in Results :
       /\ DisconnectSteps(res)
       /\ IF res = Pending THEN UNCHANGED lockVars ELSE OpenReturns(res)

-----------------------------------------------------------------------------
(* disconnect *)

\* Mutant: the connection is forgotten even when the transport failed.
DisconnectForgets(err) ==
  /\ call' = None /\ Answer("disconnect", err)
  /\ connected' = None /\ key' = None
  /\ IF err = None THEN state' = "Disconnected" ELSE UNCHANGED state
  /\ IF err = None THEN UNCHANGED stranded ELSE GivesUp
  /\ UNCHANGED <<handshake, sessionVars, forsaken>>

\* A failure returns early and changes nothing here.
DisconnectReturns(err) ==
  /\ call' = None /\ Answer("disconnect", err)
  /\ IF err = None
     THEN state' = "Disconnected" /\ connected' = None /\ key' = None
     ELSE UNCHANGED <<state, connected, key>>
  /\ IF err = None THEN UNCHANGED stranded ELSE GivesUp
  /\ UNCHANGED <<handshake, sessionVars, forsaken>>

StartDisconnecting ==
  /\ call = None
  /\ \E res \in Results :
       /\ StartDisconnect(res)
       /\ IF res = Pending
          THEN /\ Begin("disconnect")
               /\ UNCHANGED <<state, connected, key, handshake, sessionVars, forsaken, stranded>>
          ELSE DisconnectReturns(res)

Disconnecting ==
  /\ call = "disconnect"
  /\ \E res \in Results :
       /\ DisconnectSteps(res)
       /\ IF res = Pending THEN UNCHANGED lockVars ELSE DisconnectReturns(res)

-----------------------------------------------------------------------------
(* The caller gives up, and the lock and the radio *)

CallerDrops ==
  /\ call # None
  /\ DropFuture
  /\ call' = None
  /\ GivesUp /\ forsaken' = (forsaken \/ call = "open")
  /\ Answer("dropped", None)
  /\ SessionOver /\ UNCHANGED <<state, connected, key, handshake>>

LockNotifies ==
  /\ Notify(IF call # "open" THEN "Stale" ELSE IF begun THEN "Later" ELSE "First")
  /\ begun' = (begun \/ call = "open")
  /\ UNCHANGED <<state, connected, key, handshake, call, ret, detection, talked, heard,
                 forsaken, stranded>>

RadioDrops == LinkDrops /\ UNCHANGED lockVars

Next ==
  \/ StartSurveying \/ Surveying \/ StartConnecting \/ Connecting
  \/ SetHandshake \/ Authenticate \/ WriteTag
  \/ StartOpening \/ SessionSubscribes \/ SessionListens \/ SessionTalks \/ SessionHears
  \/ SessionEnds \/ Closing
  \/ StartDisconnecting \/ Disconnecting
  \/ CallerDrops \/ LockNotifies \/ RadioDrops

Spec == Init /\ [][Next]_vars

-----------------------------------------------------------------------------
(* What makes the handle correct *)

\* Every variable has the type of its Rust field.
LockTypeOK ==
  /\ TransportTypeOK
  /\ state \in {"Disconnected", "Connected", "Authenticated"}
  /\ connected \in Locks \cup {None}
  /\ key # None => IsMobileKey(key)
  /\ handshake \in Plans
  /\ call \in {None, "scan", "connect", "open", "disconnect"}
  /\ heard \subseteq {"First", "Later", "Stale"}
  /\ begun \in BOOLEAN /\ forsaken \in BOOLEAN
  /\ stranded \subseteq Locks

\* The state says what is at hand: a lock and, once authenticated, a key, so
\* that open never fails for want of either; and no key outlives the
\* connection it was loaded for into the next one.
StateTellsWhatIsLoaded ==
  /\ state = "Disconnected" <=> connected = None
  /\ state = "Authenticated" => key # None
  /\ state = "Connected" => key = None

\* A session exchanges bytes with one lock only, the one the handle says it is
\* connected to, although the handle, the characteristics and the stream are
\* stored and cleared separately and any of them can survive a failure.
OneConversation == call = "open" => talked \subseteq {connected}

\* A session hears only what the lock sent to it, beginning with the first
\* packet, whatever failed before: no stream outlives its connection, and none
\* is opened too late.  Only an open dropped over this very connection leaves
\* a stream, with its packets, to the next session.
HearsItsOwn ==
  call = "open" /\ ~forsaken =>
    /\ "Stale" \notin heard
    /\ "Later" \in heard => "First" \in heard

\* The plan is resolved from the advertisement of the very lock the session
\* then talks to, whatever was connected to before: a lock is announced to
\* when its manufacturer record says a version above 0, and otherwise only
\* read.  lock.rs:46-48 and 63-64 say otherwise of a record that says version 0:
\* they take 0 to mean that there was no record.
DetectionFitsLock ==
  call = "open" /\ handshake = "Auto" =>
    \A l \in talked :
      detection = "AppProtocol" <=> /\ Broadcasts[l].record # None
                                    /\ Len(Broadcasts[l].record) >= 3
                                    /\ Broadcasts[l].record[1] > 0

\* No link is lost unnoticed, in whatever order methods are called, fail, time
\* out or are dropped: between calls a link is up only to the lock the handle
\* holds, or to one that was given up and not connected to since.  Given up is
\* a lock whose connect ended in a Bluetooth error, in Timeout or in
\* CharacteristicNotFound, whose disconnect failed, or whose connect or disconnect
\* was dropped; never one that was disconnected from or refused for its services.
\* In CharacteristicNotFound no Bluetooth call has failed: the code leaves the link
\* up there (btleplug_impl.rs:96-97), and this does not say that it should.
LinksAccountedFor ==
  call = None =>
    /\ up \subseteq {peripheral} \cup stranded
    /\ state = "Disconnected" => up \subseteq stranded

\* No way of searching, found, refused, failed or timed out, leaves the adapter
\* scanning; only a stop_scan that failed or a search nobody awaits any more does.
ScanAccountedFor == call = None /\ ~unstopped => ~scanning

\* BleTransport::disconnect: disconnect from the currently connected lock.
\* When it says it has, the lock it was connected to has no link.
DisconnectedMeansDown ==
  ret.call = "disconnect" /\ ret.err = None /\ call = None => ret.lock \notin up

-----------------------------------------------------------------------------
(* Why it is: the inductive invariant *)

PacketKinds == {"First", "Later", "Stale"}

TypesFit == LockTypeOK /\ queue \in Seq(PacketKinds) /\ key \in Keys \cup {None}

\* Each method waits where it can, in the state it asked for.
AwaitFitsCall ==
  /\ call = None => at = "idle"
  /\ call = "scan" => at \in {"listing", "surveying"}
  /\ call = "connect" => state = "Disconnected" /\ at \in Searching \cup {"starting", "stopping"}
  /\ call = "open" => /\ state = "Authenticated"
                      /\ at \in {"idle", "enabling", "checking", "closing"}
  /\ call = "disconnect" => at \in {"checking", "closing"}
  /\ at = "enabling" => stream = None

Recognised(l) == l \in Locks /\ Discover(Broadcasts[l]) # None

\* The peripheral a call works on is a lock.  One that was connected to has
\* just been stored, without a stream; one that is let go of is held no more.
TargetFits ==
  /\ at \in {"checking", "closing"} => target \in Locks /\ peripheral = None
  /\ at \in {"connecting", "discovering", "rejecting"} => Recognised(target)
  /\ at = "stopping" /\ answer = None => /\ Recognised(target) /\ peripheral = target
                                         /\ stream = None
  /\ at = "stopping" => answer \in {None, "NoLocksFound", "ServiceNotFound",
                                    "CharacteristicNotFound", "Gatt", "Timeout"}
  /\ connected # None => Recognised(connected)

\* What the transport holds, if anything, belongs to the lock the handle says
\* it is connected to; only a dropped open leaves a stream.
HandleFits ==
  state # "Disconnected" =>
    /\ peripheral \in {None, connected} /\ stream \in {None, connected}
    /\ call # "open" /\ ~forsaken => stream = None

NothingBetweenSessions == call # "open" => talked = {} /\ heard = {} /\ ~begun

\* The first packet of the session is the first in its queue until it is heard.
HeardInOrder ==
  call = "open" /\ ~forsaken =>
    /\ "Stale" \notin heard /\ \A i \in DOMAIN queue : queue[i] # "Stale"
    /\ stream = None => ~begun
    /\ IF begun THEN "First" \in heard \/ (heard = {} /\ queue # <<>> /\ queue[1] = "First")
                ELSE heard = {} /\ queue = <<>>

PlanFits == call = "open" => detection = Resolve(handshake, AdvertisedVersion)

\* Each link there may be is known at every await.
LinksFit ==
  /\ call \in {None, "scan"} => /\ up \subseteq {peripheral} \cup stranded
                                /\ state = "Disconnected" => up \subseteq stranded
  /\ at \in {"starting", "searching"} => up \subseteq stranded
  /\ at \in {"connecting", "discovering", "rejecting", "stopping", "checking", "closing"}
     => up \subseteq {target} \cup stranded
  /\ at = "stopping" /\ answer = "NoLocksFound" => up \subseteq stranded
  /\ at = "stopping" /\ answer = "ServiceNotFound" => up \subseteq stranded \ {target}
  /\ call = "open" /\ at \in {"idle", "enabling"} => up \subseteq {peripheral} \cup stranded

\* The adapter scans while it is searched with, and until it was stopped.
ScanFits == ~unstopped /\ scanning => at \in Searching \cup {"stopping", "surveying"}

LockInv ==
  /\ TypesFit /\ AwaitFitsCall /\ TargetFits /\ HandleFits /\ NothingBetweenSessions
  /\ HeardInOrder /\ PlanFits /\ LinksFit /\ ScanFits
  /\ StateTellsWhatIsLoaded /\ OneConversation
=============================================================================
