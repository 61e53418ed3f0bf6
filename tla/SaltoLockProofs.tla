-------------------------- MODULE SaltoLockProofs --------------------------
(***************************************************************************)
(* The handle is correct for every set of locks, every key and every order *)
(* of calls, failures, drops and notifications: LockInv is inductive.      *)
(***************************************************************************)
EXTENDS SaltoLock, SequenceTheorems, TLAPS

-----------------------------------------------------------------------------
(* The types of the transport *)

QueueOK == queue \in Seq(PacketKinds)

\* What a search or a disconnect does to the queue: it stays, or the stream goes.
LEMMA SurveyTypes ==
  ASSUME TransportTypeOK, QueueOK, NEW res, SurveySteps(res)
  PROVE  TransportTypeOK' /\ QueueOK'
<1>1. UNCHANGED <<up, heldVars>> /\ target' \in {target, None} /\ at' \in {"surveying", "idle"}
  BY DEF SurveySteps, Survey, ScanRefused, SurveyEnds, Leave
<1>2. scanning' \in BOOLEAN /\ unstopped' \in BOOLEAN
  BY DEF SurveySteps, Survey, ScanRefused, SurveyEnds, StopScan, TransportTypeOK
<1> QED BY <1>1, <1>2 DEF TransportTypeOK, QueueOK, heldVars

LEMMA ConnectTypes ==
  ASSUME TransportTypeOK, QueueOK, TargetFits, NEW res, ConnectSteps(res)
  PROVE  TransportTypeOK' /\ QueueOK'
<1>1. scanning' \in BOOLEAN /\ unstopped' \in BOOLEAN
  BY DEF ConnectSteps, Search, Find, FindNothing, Connect, MissService, Reject, Store,
         MissCharacteristic, ConnectCallFails, ConnectTimesOut, ScanRefused, StopAndReturn,
         Conclude, StopScan, TransportTypeOK
<1>2. target' \in Locks \cup {None} /\ at' \in Searching \cup {"idle", "stopping"}
  BY DEF ConnectSteps, Search, Find, FindNothing, Connect, MissService, Reject, Store,
         MissCharacteristic, ConnectCallFails, ConnectTimesOut, ScanRefused, StopAndReturn,
         Conclude, Concludes, Leave, Searching, TransportTypeOK
<1>3. up' \subseteq Locks
  BY DEF ConnectSteps, Search, Find, FindNothing, Connect, MissService, Reject, Store,
         MissCharacteristic, ConnectCallFails, ConnectTimesOut, ScanRefused, StopAndReturn,
         Abandoned, TransportTypeOK, TargetFits, Recognised
<1>4. \/ UNCHANGED heldVars
      \/ Recognised(target) /\ peripheral' = target /\ chars' = target
         /\ stream' = None /\ queue' = <<>>
  BY DEF ConnectSteps, Search, Find, FindNothing, Connect, MissService, Reject, Store,
         MissCharacteristic, ConnectCallFails, ConnectTimesOut, ScanRefused, StopAndReturn,
         TargetFits, heldVars
<1>5. CASE UNCHANGED heldVars
  BY <1>1, <1>2, <1>3, <1>5 DEF TransportTypeOK, QueueOK, heldVars
<1>6. CASE Recognised(target) /\ peripheral' = target /\ chars' = target
           /\ stream' = None /\ queue' = <<>>
  <2>1. queue' \in Seq(PacketKinds) /\ Len(queue') = 0
    BY <1>6
  <2> QED BY <1>1, <1>2, <1>3, <1>6, <2>1, TransportAssumption
          DEF TransportTypeOK, QueueOK, Recognised
<1> QED BY <1>4, <1>5, <1>6

\* Forgetting the stream empties its queue.
LEMMA QueueForgotten ==
  ASSUME TransportTypeOK, QueueOK,
         queue' = <<>> \/ UNCHANGED <<stream, queue>>
  PROVE  QueueOK' /\ Len(queue') <= QueueLimit /\ (stream' = None => queue' = <<>>)
<1>1. CASE queue' = <<>>
  <2>1. queue' \in Seq(PacketKinds) /\ Len(queue') = 0
    BY <1>1
  <2> QED BY <1>1, <2>1, TransportAssumption DEF QueueOK
<1>2. CASE UNCHANGED <<stream, queue>>
  BY <1>2 DEF TransportTypeOK, QueueOK
<1> QED BY <1>1, <1>2

LEMMA StartDisconnectTypes ==
  ASSUME TransportTypeOK, QueueOK, NEW res, StartDisconnect(res)
  PROVE  TransportTypeOK' /\ QueueOK'
<1>1. /\ UNCHANGED <<up, scanning, unstopped>>
      /\ target' \in {target, peripheral} /\ at' \in {at, "checking"}
      /\ peripheral' = None
      /\ \/ chars' = None /\ stream' = None /\ queue' = <<>>
         \/ UNCHANGED <<chars, stream, queue>>
  BY DEF StartDisconnect, Forget
<1>2. QueueOK' /\ Len(queue') <= QueueLimit /\ (stream' = None => queue' = <<>>)
  BY <1>1, QueueForgotten
<1> QED BY <1>1, <1>2 DEF TransportTypeOK

LEMMA DisconnectTypes ==
  ASSUME TransportTypeOK, QueueOK, TargetFits, NEW res, DisconnectSteps(res)
  PROVE  TransportTypeOK' /\ QueueOK'
<1>1. /\ up' \subseteq up /\ UNCHANGED <<scanning, peripheral, unstopped>>
      /\ target' \in {target, None} /\ at' \in {"closing", "idle"}
      /\ \/ chars' = None /\ stream' = None /\ queue' = <<>>
         \/ UNCHANGED <<chars, stream, queue>>
  BY DEF DisconnectSteps, CheckLink, CloseLink, DisconnectFails, Forget, Leave, heldVars
<1>2. QueueOK' /\ Len(queue') <= QueueLimit /\ (stream' = None => queue' = <<>>)
  BY <1>1, QueueForgotten
<1>3. peripheral = None
  BY DEF DisconnectSteps, CheckLink, CloseLink, DisconnectFails, TargetFits
<1> QED BY <1>1, <1>2, <1>3 DEF TransportTypeOK

\* Subscribing, notifying and receiving touch the stream and its queue only.
LEMMA SubscribeTypes ==
  ASSUME TransportTypeOK, QueueOK, NEW sent \in {<<>>, <<"First">>}, SubscribeEnds(sent)
  PROVE  TransportTypeOK' /\ QueueOK'
<1>1. /\ UNCHANGED <<up, scanning, peripheral, chars, unstopped>>
      /\ target' = None /\ at' = "idle"
      /\ \/ peripheral \in up /\ stream' = peripheral /\ queue' = sent
         \/ UNCHANGED <<stream, queue>>
  BY DEF SubscribeEnds, EnableNotifications, Leave
<1>2. sent \in Seq(PacketKinds) /\ Len(sent) <= 1
  <2>1. "First" \in PacketKinds
    BY DEF PacketKinds
  <2>2. CASE sent = <<>>
    BY <2>2
  <2>3. CASE sent = <<"First">>
    BY <2>1, <2>3
  <2> QED BY <2>2, <2>3
<1>3. CASE peripheral \in up /\ stream' = peripheral /\ queue' = sent
  BY <1>1, <1>2, <1>3, TransportAssumption DEF TransportTypeOK, QueueOK
<1>4. CASE UNCHANGED <<stream, queue>>
  BY <1>1, <1>4 DEF TransportTypeOK, QueueOK
<1> QED BY <1>1, <1>3, <1>4

LEMMA NotifyTypes ==
  ASSUME TransportTypeOK, QueueOK, NEW packet \in PacketKinds, Notify(packet)
  PROVE  TransportTypeOK' /\ QueueOK'
<1>1. queue' \in Seq(PacketKinds) /\ Len(queue') = Len(queue) + 1 /\ stream # None
  BY DEF Notify, QueueOK
<1>2. Len(queue') <= QueueLimit
  BY <1>1, TransportAssumption DEF Notify, QueueOK
<1> QED BY <1>1, <1>2 DEF Notify, TransportTypeOK, QueueOK

LEMMA ReceiveTypes ==
  ASSUME TransportTypeOK, QueueOK, Receive
  PROVE  TransportTypeOK' /\ QueueOK' /\ Head(queue) \in PacketKinds
<1>1. /\ queue' \in Seq(PacketKinds) /\ Len(queue') = Len(queue) - 1
      /\ Head(queue) \in PacketKinds /\ stream # None
  BY DEF Receive, QueueOK
<1> QED BY <1>1, TransportAssumption DEF Receive, TransportTypeOK, QueueOK

\* An abandoned request is done or not done.
LEMMA DropTypes ==
  ASSUME TransportTypeOK, QueueOK, TargetFits, DropFuture
  PROVE  TransportTypeOK' /\ QueueOK'
<1>1. up' \subseteq Locks
  BY DEF DropFuture, Abandoned, TransportTypeOK, TargetFits, Recognised
<1>2. scanning' \in BOOLEAN /\ unstopped' \in BOOLEAN
  BY DEF DropFuture, TransportTypeOK
<1> QED BY <1>1, <1>2 DEF DropFuture, Leave, TransportTypeOK, QueueOK, heldVars
-----------------------------------------------------------------------------
(* The parts of the invariant, as the proofs group them *)

\* The fields of the handle have their types; the key is one a caller gave.
FieldsFit ==
  /\ state \in {"Disconnected", "Connected", "Authenticated"}
  /\ connected \in Locks \cup {None} /\ key \in Keys \cup {None}
  /\ handshake \in Plans
  /\ call \in {None, "scan", "connect", "open", "disconnect"}
  /\ heard \subseteq PacketKinds
  /\ begun \in BOOLEAN /\ forsaken \in BOOLEAN /\ stranded \subseteq Locks

LEMMA TypesFitParts == TypesFit <=> TransportTypeOK /\ QueueOK /\ FieldsFit
  BY SaltoLockAssumption DEF TypesFit, LockTypeOK, FieldsFit, QueueOK, PacketKinds

\* The same of the next state.
LEMMA TypesFitPartsPrimed == TypesFit' <=> TransportTypeOK' /\ QueueOK' /\ FieldsFit'
  BY TypesFitParts, SaltoLockAssumption DEF TypesFit, LockTypeOK, FieldsFit, QueueOK, PacketKinds

Calls == AwaitFitsCall /\ TargetFits /\ StateTellsWhatIsLoaded

Conversation ==
  HandleFits /\ NothingBetweenSessions /\ HeardInOrder /\ PlanFits /\ OneConversation

LEMMA LockInvParts ==
  LockInv <=> TypesFit /\ Calls /\ Conversation /\ LinksFit /\ ScanFits
  BY DEF LockInv, Calls, Conversation

LEMMA LockInvPartsPrimed ==
  LockInv' <=> TypesFit' /\ Calls' /\ Conversation' /\ LinksFit' /\ ScanFits'
  BY DEF LockInv, Calls, Conversation

-----------------------------------------------------------------------------
(* The steps *)

\* Letting go of a lock leaves the scan alone.
LEMMA DisconnectScan == ASSUME LockInv, NEW res, DisconnectSteps(res) PROVE ScanFits'
  <1>1. UNCHANGED <<scanning, unstopped>> /\ at \in {"checking", "closing"}
    BY DEF DisconnectSteps, CheckLink, CloseLink, DisconnectFails
  <1> QED BY <1>1 DEF LockInv, ScanFits, Searching

\* What waits behind the others leaves them in their places.
LEMMA Appended ==
  ASSUME NEW T, NEW q \in Seq(T), NEW p \in T, NEW r, r = Append(q, p)
  PROVE  /\ r # <<>>
         /\ r[1] = IF q = <<>> THEN p ELSE q[1]
         /\ \A i \in DOMAIN r : r[i] = p \/ (i \in DOMAIN q /\ r[i] = q[i])
<1>1. r # <<>> /\ (q = <<>> => r[1] = p) /\ (q # <<>> => r[1] = q[1])
  OBVIOUS
<1>2. \A i \in DOMAIN r : r[i] = p \/ (i \in DOMAIN q /\ r[i] = q[i])
  OBVIOUS
<1> QED BY <1>1, <1>2

\* A refused call changes nothing but what it returned.
LEMMA RefusedKeeps ==
  ASSUME LockInv,
         UNCHANGED <<transportVars, state, connected, key, handshake, call, sessionVars,
                     forsaken, stranded>>
  PROVE  LockInv'
<1>1. TypesFit'
  BY DEF LockInv, TypesFit, LockTypeOK, TransportTypeOK, transportVars, sessionVars
<1>2. Calls' /\ LinksFit' /\ ScanFits'
  BY DEF LockInv, Calls, AwaitFitsCall, TargetFits, StateTellsWhatIsLoaded, LinksFit, ScanFits,
         transportVars
<1>3. Conversation'
  BY DEF LockInv, Conversation, HandleFits, NothingBetweenSessions, HeardInOrder, PlanFits,
         AdvertisedVersion, OneConversation, transportVars, sessionVars
<1> QED BY <1>1, <1>2, <1>3, LockInvPartsPrimed

LEMMA StartSurveyingKeeps == ASSUME LockInv, StartSurveying PROVE LockInv'
<1>1. TypesFit'
  BY DEF LockInv, TypesFit, LockTypeOK, TransportTypeOK, transportVars, lockVars,
         sessionVars, heldVars, StartSurveying, Begin, StartScan
<1>2. Calls'
  BY DEF LockInv, Calls, AwaitFitsCall, TargetFits, StateTellsWhatIsLoaded, transportVars,
         lockVars, sessionVars, heldVars, StartSurveying, Begin, StartScan
<1>3. Conversation'
  BY SaltoLockAssumption DEF LockInv, Conversation, HandleFits, NothingBetweenSessions,
         HeardInOrder, PlanFits, AdvertisedVersion, OneConversation, AwaitFitsCall,
         transportVars, lockVars, sessionVars, heldVars, StartSurveying, Begin, StartScan
<1>4. LinksFit'
  BY DEF LockInv, LinksFit, AwaitFitsCall, transportVars, lockVars, sessionVars, heldVars,
         StartSurveying, Begin, StartScan
<1>5. ScanFits'
  BY DEF LockInv, ScanFits, AwaitFitsCall, Searching, transportVars, lockVars,
         sessionVars, heldVars, StartSurveying, Begin, StartScan
<1> QED BY <1>1, <1>2, <1>3, <1>4, <1>5, LockInvPartsPrimed

LEMMA SurveyingKeeps == ASSUME LockInv, Surveying PROVE LockInv'
<1>1. TypesFit'
  <2>1. TransportTypeOK' /\ QueueOK'
    BY LockInvParts, TypesFitParts, SurveyTypes DEF Surveying
  <2>2. FieldsFit'
    BY LockInvParts, TypesFitParts DEF Surveying, Answer, FieldsFit, sessionVars
  <2> QED BY <2>1, <2>2, TypesFitPartsPrimed
<1>2. Calls'
  BY TransportAssumption, SaltoLockAssumption DEF LockInv, Calls, AwaitFitsCall,
         TargetFits, StateTellsWhatIsLoaded, Recognised, Searching, HandleFits, TypesFit,
         LockTypeOK, TransportTypeOK, transportVars, lockVars, sessionVars, heldVars,
         Surveying, SurveySteps, Survey, ScanRefused, SurveyEnds, StopScan, Leave, Answer,
         Pending, Results, NoAnswer
<1>3. Conversation'
  BY SaltoLockAssumption DEF LockInv, Conversation, HandleFits, NothingBetweenSessions,
         HeardInOrder, PlanFits, AdvertisedVersion, OneConversation, AwaitFitsCall,
         transportVars, lockVars, sessionVars, heldVars, Surveying, SurveySteps, Survey,
         ScanRefused, SurveyEnds, StopScan, Leave, Answer, Pending, Results, NoAnswer
<1>4. LinksFit'
  BY DEF LockInv, LinksFit, AwaitFitsCall, transportVars, lockVars, sessionVars, heldVars,
         Surveying, SurveySteps, Survey, ScanRefused, SurveyEnds, StopScan, Leave, Answer,
         Pending, Results, NoAnswer
<1>5. ScanFits'
  <2>1. at = "surveying" => (unstopped' \/ scanning' = FALSE)
    BY DEF Surveying, SurveySteps, Survey, ScanRefused, SurveyEnds, StopScan
  <2>2. at = "listing" => \/ at' = "surveying"
                          \/ at' = "idle" /\ UNCHANGED <<scanning, unstopped>>
    BY DEF Surveying, SurveySteps, Survey, ScanRefused, SurveyEnds, Leave
  <2>3. at \in {"surveying", "listing"}
    BY DEF Surveying, LockInv, AwaitFitsCall
  <2> QED BY <2>1, <2>2, <2>3 DEF LockInv, ScanFits, Searching
<1> QED BY <1>1, <1>2, <1>3, <1>4, <1>5, LockInvPartsPrimed

LEMMA StartConnectingKeeps == ASSUME LockInv, StartConnecting PROVE LockInv'
<1>1. CASE ExpectState("Disconnected", "connect")
  BY <1>1, RefusedKeeps DEF ExpectState
<1>2. CASE ~ExpectState("Disconnected", "connect")
  <2>1. TypesFit'
    BY <1>2, SaltoLockAssumption DEF LockInv, TypesFit, LockTypeOK, TransportTypeOK,
           AwaitFitsCall, TargetFits, StateTellsWhatIsLoaded, Recognised, Searching,
           PacketKinds, HandleFits, transportVars, lockVars, sessionVars, heldVars,
           StartConnecting, Begin, Answer, StartScan
  <2>2. Calls'
    BY <1>2, SaltoLockAssumption DEF LockInv, Calls, AwaitFitsCall, TargetFits,
           StateTellsWhatIsLoaded, transportVars, lockVars, sessionVars, heldVars,
           StartConnecting, Begin, Answer, StartScan
  <2>3. Conversation'
    BY <1>2, SaltoLockAssumption DEF LockInv, Conversation, HandleFits,
           NothingBetweenSessions, HeardInOrder, PlanFits, AdvertisedVersion,
           OneConversation, AwaitFitsCall, transportVars, sessionVars, heldVars,
           StartConnecting, Begin, Answer, StartScan
  <2>4. LinksFit'
    BY <1>2 DEF LockInv, LinksFit, AwaitFitsCall, transportVars, lockVars, sessionVars,
           heldVars, StartConnecting, Begin, Answer, StartScan
  <2>5. ScanFits'
    BY <1>2, SaltoLockAssumption DEF LockInv, TypesFit, LockTypeOK, TransportTypeOK,
           AwaitFitsCall, TargetFits, StateTellsWhatIsLoaded, Recognised, Searching,
           PacketKinds, HandleFits, transportVars, lockVars, sessionVars, heldVars,
           ScanFits, StartConnecting, Begin, Answer, StartScan
  <2> QED BY <2>1, <2>2, <2>3, <2>4, <2>5, LockInvPartsPrimed
<1> QED BY <1>1, <1>2

LEMMA ConnectingKeeps == ASSUME LockInv, Connecting PROVE LockInv'
<1>1. TypesFit'
  <2>1. TransportTypeOK' /\ QueueOK'
    BY LockInvParts, TypesFitParts, ConnectTypes DEF Connecting, Calls
  <2>2. FieldsFit'
    <3>1. target \in Locks \cup {None}
      BY DEF LockInv, TypesFit, LockTypeOK, TransportTypeOK
    <3>2. FieldsFit
      BY LockInvParts, TypesFitParts
    <3> QED BY <3>1, <3>2 DEF Connecting, ConnectReturns, GivesUp, Answer, FieldsFit, lockVars, sessionVars
  <2> QED BY <2>1, <2>2, TypesFitPartsPrimed
<1>2. Calls'
  BY TransportAssumption, SaltoLockAssumption DEF LockInv, Calls, AwaitFitsCall,
         TargetFits, StateTellsWhatIsLoaded, Recognised, Searching, HandleFits, TypesFit,
         LockTypeOK, TransportTypeOK, transportVars, lockVars, sessionVars, heldVars,
         Connecting, ConnectSteps, Search, Find, Connect, MissService, FindNothing,
         Reject, MissCharacteristic, Store, ConnectCallFails, ConnectTimesOut, Abandoned,
         ScanRefused, StopAndReturn, Conclude, Concludes, StopScan, Leave, ConnectReturns, GivesUp,
         Answer, Pending, Results
<1>3. Conversation'
  BY TransportAssumption, SaltoLockAssumption DEF LockInv, Conversation, HandleFits,
         NothingBetweenSessions, HeardInOrder, PlanFits, AdvertisedVersion,
         OneConversation, AwaitFitsCall, TargetFits, StateTellsWhatIsLoaded, TypesFit,
         LockTypeOK, TransportTypeOK, Resolve, Recognised, transportVars, lockVars,
         sessionVars, heldVars, Connecting, ConnectSteps, Search, Find, Connect,
         MissService, FindNothing, Reject, MissCharacteristic, Store, ConnectCallFails,
         ConnectTimesOut, Abandoned, ScanRefused, StopAndReturn, Conclude, Concludes,
         StopScan, Leave, ConnectReturns, GivesUp, Answer, Pending, Results
<1>4. LinksFit'
  BY SaltoLockAssumption, TransportAssumption DEF LockInv, TypesFit, LockTypeOK,
         TransportTypeOK, AwaitFitsCall, TargetFits, StateTellsWhatIsLoaded, Recognised,
         Searching, PacketKinds, HandleFits, transportVars, lockVars, sessionVars,
         heldVars, LinksFit, Connecting, ConnectSteps, Search, Find, Connect, MissService,
         FindNothing, Reject, MissCharacteristic, Store, ConnectCallFails,
         ConnectTimesOut, Abandoned, ScanRefused, StopAndReturn, Conclude, Concludes,
         StopScan, Leave, ConnectReturns, GivesUp, Answer, Pending, Results
<1>5. ScanFits'
  <2>1. PICK res \in Results : ConnectSteps(res)
    BY DEF Connecting
  <2>2. CASE StopAndReturn(res)
    <3>1. unstopped' \/ scanning' = FALSE
      BY <2>2 DEF StopAndReturn, Conclude, StopScan
    <3> QED BY <3>1 DEF ScanFits
  <2>3. CASE ScanRefused(res) /\ at = "starting"
    BY <2>3 DEF ScanRefused, ScanFits, LockInv, Searching
  <2>4. CASE at' \in Searching \cup {"stopping"}
    BY <2>4 DEF ScanFits
  <2> QED BY <2>1, <2>2, <2>3, <2>4 DEF ConnectSteps, Search, Find, Connect, MissService, FindNothing,
        Reject, MissCharacteristic, Store, ConnectCallFails, ConnectTimesOut, Concludes, Searching
<1> QED BY <1>1, <1>2, <1>3, <1>4, <1>5, LockInvPartsPrimed

LEMMA SetHandshakeKeeps == ASSUME LockInv, SetHandshake PROVE LockInv'
<1>1. TypesFit'
  BY DEF LockInv, TypesFit, LockTypeOK, TransportTypeOK, transportVars, lockVars,
         sessionVars, heldVars, SetHandshake
<1>2. Calls'
  BY DEF LockInv, Calls, AwaitFitsCall, TargetFits, StateTellsWhatIsLoaded, transportVars,
         lockVars, sessionVars, heldVars, SetHandshake
<1>3. Conversation'
  BY SaltoLockAssumption DEF LockInv, Conversation, HandleFits, NothingBetweenSessions,
         HeardInOrder, PlanFits, AdvertisedVersion, OneConversation, AwaitFitsCall,
         transportVars, lockVars, sessionVars, heldVars, SetHandshake
<1>4. LinksFit'
  BY DEF LockInv, LinksFit, AwaitFitsCall, transportVars, lockVars, sessionVars, heldVars,
         SetHandshake
<1>5. ScanFits'
  BY DEF LockInv, ScanFits, transportVars, lockVars, sessionVars, heldVars, SetHandshake
<1> QED BY <1>1, <1>2, <1>3, <1>4, <1>5, LockInvPartsPrimed

LEMMA AuthenticateKeeps == ASSUME LockInv, Authenticate PROVE LockInv'
<1>1. CASE ExpectState("Connected", "authenticate")
  BY <1>1, RefusedKeeps DEF ExpectState
<1>2. CASE ~ExpectState("Connected", "authenticate")
  <2>1. TypesFit'
    BY <1>2, SaltoLockAssumption DEF LockInv, TypesFit, LockTypeOK, TransportTypeOK,
           AwaitFitsCall, TargetFits, StateTellsWhatIsLoaded, Recognised, Searching,
           PacketKinds, HandleFits, transportVars, lockVars, sessionVars, heldVars,
           Authenticate, Answer
  <2>2. Calls'
    BY <1>2, SaltoLockAssumption DEF LockInv, Calls, AwaitFitsCall, TargetFits,
           StateTellsWhatIsLoaded, transportVars, lockVars, sessionVars, heldVars,
           Authenticate, Answer
  <2>3. Conversation'
    BY <1>2, SaltoLockAssumption DEF LockInv, Conversation, HandleFits,
           NothingBetweenSessions, HeardInOrder, PlanFits, AdvertisedVersion,
           OneConversation, AwaitFitsCall, transportVars, sessionVars, heldVars,
           Authenticate, Answer
  <2>4. LinksFit'
    BY <1>2 DEF LockInv, LinksFit, AwaitFitsCall, transportVars, lockVars, sessionVars,
           heldVars, Authenticate, Answer
  <2>5. ScanFits'
    BY <1>2, SaltoLockAssumption DEF LockInv, TypesFit, LockTypeOK, TransportTypeOK,
           AwaitFitsCall, TargetFits, StateTellsWhatIsLoaded, Recognised, Searching,
           PacketKinds, HandleFits, transportVars, lockVars, sessionVars, heldVars,
           ScanFits, Authenticate, Answer
  <2> QED BY <2>1, <2>2, <2>3, <2>4, <2>5, LockInvPartsPrimed
<1> QED BY <1>1, <1>2

LEMMA WriteTagKeeps == ASSUME LockInv, WriteTag PROVE LockInv'
<1>1. TypesFit'
  BY TransportAssumption, SaltoLockAssumption DEF LockInv, TypesFit, LockTypeOK,
         TransportTypeOK, PacketKinds, Searching, Recognised, TargetFits, AwaitFitsCall,
         StateTellsWhatIsLoaded, transportVars, lockVars, sessionVars, heldVars, WriteTag,
         Answer
<1>2. Calls'
  BY TransportAssumption, SaltoLockAssumption DEF LockInv, Calls, AwaitFitsCall,
         TargetFits, StateTellsWhatIsLoaded, Recognised, Searching, HandleFits, TypesFit,
         LockTypeOK, TransportTypeOK, transportVars, lockVars, sessionVars, heldVars,
         WriteTag, Answer
<1>3. Conversation'
  BY SaltoLockAssumption DEF LockInv, Conversation, HandleFits, NothingBetweenSessions,
         HeardInOrder, PlanFits, AdvertisedVersion, OneConversation, AwaitFitsCall,
         transportVars, lockVars, sessionVars, heldVars, WriteTag, Answer
<1>4. LinksFit'
  BY DEF LockInv, LinksFit, AwaitFitsCall, transportVars, lockVars, sessionVars, heldVars,
         WriteTag, Answer
<1>5. ScanFits'
  BY DEF LockInv, ScanFits, transportVars, lockVars, sessionVars, heldVars, WriteTag,
         Answer
<1> QED BY <1>1, <1>2, <1>3, <1>4, <1>5, LockInvPartsPrimed

LEMMA StartOpeningKeeps == ASSUME LockInv, StartOpening PROVE LockInv'
<1>1. TypesFit'
  <2>1. TransportTypeOK /\ QueueOK /\ FieldsFit
    BY LockInvParts, TypesFitParts
  <2>2. CASE UNCHANGED transportVars
    BY <2>1, <2>2, TypesFitPartsPrimed DEF StartOpening, ExpectState, Answer, Begin, sessionVars, FieldsFit, TransportTypeOK, QueueOK, transportVars
  <2>3. CASE queue' = [i \in DOMAIN queue |-> "Stale"] /\ UNCHANGED <<up, scanning, peripheral, chars, stream, at, target, answer, unstopped>>
    <3>1. queue' \in Seq(PacketKinds) /\ Len(queue') = Len(queue)
      BY <2>1, <2>3 DEF QueueOK, PacketKinds
    <3>2. queue = <<>> => queue' = <<>>
      BY <2>1, <2>3 DEF QueueOK
    <3> QED BY <2>1, <2>3, <3>1, <3>2, TypesFitPartsPrimed DEF StartOpening, Answer, Begin, ExpectState, sessionVars, FieldsFit, TransportTypeOK, QueueOK, transportVars, PacketKinds
  <2> QED BY <2>2, <2>3 DEF StartOpening, ExpectState, transportVars
<1>2. Calls'
  BY DEF LockInv, Calls, AwaitFitsCall, TargetFits, StateTellsWhatIsLoaded, transportVars,
         lockVars, sessionVars, heldVars, StartOpening, ExpectState, Answer, Begin
<1>3. Conversation'
  <2>1. HeardInOrder'
    <3>1. CASE call' = "open" /\ UNCHANGED <<stream, talked, heard, begun, forsaken>>
               /\ state = "Authenticated" /\ queue' = [i \in DOMAIN queue |-> "Stale"]
      <4>1. call # "open" /\ heard = {} /\ ~begun
        BY SaltoLockAssumption DEF LockInv, NothingBetweenSessions, StartOpening, ExpectState, TypesFit
      <4>2. ~forsaken => queue = <<>>
        BY <3>1, <4>1 DEF LockInv, HandleFits, TypesFit, LockTypeOK, TransportTypeOK
      <4>3. queue = <<>> => queue' = <<>>
        BY <3>1 DEF LockInv, TypesFit
      <4> QED BY <3>1, <4>1, <4>2, <4>3 DEF HeardInOrder
    <3>2. CASE UNCHANGED call
      BY <3>2, SaltoLockAssumption DEF StartOpening, HeardInOrder
    <3> QED BY <3>1, <3>2 DEF StartOpening, ExpectState, Begin
  <2>2. HandleFits'
    BY SaltoLockAssumption DEF LockInv, HandleFits, AwaitFitsCall, StartOpening,
           ExpectState, Answer, Begin, transportVars, sessionVars
  <2>3. NothingBetweenSessions' /\ OneConversation'
    BY SaltoLockAssumption DEF LockInv, NothingBetweenSessions, OneConversation,
           AwaitFitsCall, StartOpening, ExpectState, Answer, Begin, transportVars,
           sessionVars
  <2>4. PlanFits'
    BY SaltoLockAssumption DEF LockInv, PlanFits, AdvertisedVersion, AwaitFitsCall,
           StartOpening, ExpectState, Answer, Begin, transportVars, sessionVars
  <2> QED BY <2>1, <2>2, <2>3, <2>4 DEF Conversation
<1>4. LinksFit'
  BY DEF LockInv, LinksFit, AwaitFitsCall, transportVars, lockVars, sessionVars, heldVars,
         StartOpening, ExpectState, Answer, Begin
<1>5. ScanFits'
  BY SaltoLockAssumption DEF LockInv, TypesFit, LockTypeOK, TransportTypeOK,
         AwaitFitsCall, TargetFits, StateTellsWhatIsLoaded, Recognised, Searching,
         PacketKinds, HandleFits, transportVars, lockVars, sessionVars, heldVars,
         ScanFits, StartOpening, ExpectState, Answer, Begin
<1> QED BY <1>1, <1>2, <1>3, <1>4, <1>5, LockInvPartsPrimed

LEMMA SessionSubscribesKeeps == ASSUME LockInv, SessionSubscribes PROVE LockInv'
<1>1. TypesFit'
  BY DEF LockInv, TypesFit, LockTypeOK, TransportTypeOK, transportVars, lockVars,
         sessionVars, heldVars, SessionSubscribes, StartSubscribe
<1>2. Calls'
  BY SaltoLockAssumption DEF LockInv, Calls, AwaitFitsCall, TargetFits,
         StateTellsWhatIsLoaded, transportVars, lockVars, sessionVars, heldVars,
         SessionSubscribes, StartSubscribe
<1>3. Conversation'
  BY SaltoLockAssumption DEF LockInv, Conversation, HandleFits, NothingBetweenSessions,
         HeardInOrder, PlanFits, AdvertisedVersion, OneConversation, AwaitFitsCall,
         transportVars, lockVars, sessionVars, heldVars, SessionSubscribes, StartSubscribe
<1>4. LinksFit'
  BY DEF LockInv, LinksFit, AwaitFitsCall, transportVars, lockVars, sessionVars, heldVars,
         SessionSubscribes, StartSubscribe
<1>5. ScanFits'
  BY DEF LockInv, ScanFits, AwaitFitsCall, Searching, transportVars, lockVars,
         sessionVars, heldVars, SessionSubscribes, StartSubscribe
<1> QED BY <1>1, <1>2, <1>3, <1>4, <1>5, LockInvPartsPrimed

LEMMA SessionListensKeeps == ASSUME LockInv, SessionListens PROVE LockInv'
<1>1. TypesFit'
  <2>1. TransportTypeOK' /\ QueueOK'
    BY LockInvParts, TypesFitParts, SubscribeTypes DEF SessionListens
  <2>2. FieldsFit'
    BY LockInvParts, TypesFitParts DEF SessionListens, FieldsFit
  <2> QED BY <2>1, <2>2, TypesFitPartsPrimed
<1>2. Calls'
  BY DEF LockInv, Calls, AwaitFitsCall, TargetFits, StateTellsWhatIsLoaded, transportVars,
         lockVars, sessionVars, heldVars, SessionListens, SubscribeEnds,
         EnableNotifications, Leave
<1>3. Conversation'
  <2>1. HeardInOrder'
    <3>0. PICK sent \in {<<>>, <<"First">>} : SubscribeEnds(sent) /\ begun' = (stream' # None /\ sent # <<>>)
      BY DEF SessionListens
    <3> SUFFICES ASSUME ~forsaken PROVE HeardInOrder'
      BY DEF SessionListens, HeardInOrder
    <3>1. stream = None /\ queue = <<>>
      BY <3>0 DEF SubscribeEnds, LockInv, AwaitFitsCall, TypesFit, LockTypeOK, TransportTypeOK
    <3>2. heard = {} /\ heard' = {}
      BY <3>1 DEF SessionListens, LockInv, HeardInOrder
    <3>3. CASE stream' = None /\ queue' = <<>>
      <4>1. ~begun' /\ heard' = {} /\ queue' = <<>>
        BY <3>0, <3>2, <3>3
      <4> QED BY <4>1 DEF HeardInOrder
    <3>4. CASE stream' # None /\ queue' = <<>> /\ sent = <<>>
      <4>1. ~begun' /\ heard' = {} /\ queue' = <<>>
        BY <3>0, <3>2, <3>4
      <4> QED BY <4>1 DEF HeardInOrder
    <3>5. CASE stream' # None /\ queue' = <<"First">> /\ sent = <<"First">>
      <4>1. begun' /\ heard' = {} /\ stream' # None
        BY <3>0, <3>2, <3>5
      <4>2. DOMAIN queue' = {1} /\ queue'[1] = "First" /\ queue' # <<>>
        BY <3>5
      <4> QED BY <4>1, <4>2 DEF HeardInOrder
    <3>6. \/ stream' = None /\ queue' = <<>>
          \/ stream' # None /\ queue' = sent
      <4>1. peripheral \in up => peripheral # None
        BY TransportAssumption DEF LockInv, TypesFit, LockTypeOK, TransportTypeOK
      <4>2. \/ stream' = peripheral /\ queue' = sent /\ peripheral \in up
            \/ UNCHANGED <<stream, queue>>
        BY <3>0 DEF SubscribeEnds, EnableNotifications
      <4> QED BY <3>1, <4>1, <4>2
    <3> QED BY <3>0, <3>3, <3>4, <3>5, <3>6
  <2>2. HandleFits' /\ NothingBetweenSessions' /\ PlanFits' /\ OneConversation'
    BY TransportAssumption, SaltoLockAssumption DEF LockInv, HandleFits,
           NothingBetweenSessions, HeardInOrder, PlanFits, AdvertisedVersion,
           OneConversation, AwaitFitsCall, StateTellsWhatIsLoaded, TypesFit, LockTypeOK,
           TransportTypeOK, Resolve, TargetFits, Recognised, SessionListens, SubscribeEnds,
           EnableNotifications, Leave, transportVars, lockVars, sessionVars, heldVars
  <2> QED BY <2>1, <2>2 DEF Conversation
<1>4. LinksFit'
  BY DEF LockInv, LinksFit, AwaitFitsCall, transportVars, lockVars, sessionVars, heldVars,
         SessionListens, SubscribeEnds, EnableNotifications, Leave
<1>5. ScanFits'
  BY DEF LockInv, ScanFits, AwaitFitsCall, Searching, transportVars, lockVars,
         sessionVars, heldVars, SessionListens, SubscribeEnds, EnableNotifications, Leave
<1> QED BY <1>1, <1>2, <1>3, <1>4, <1>5, LockInvPartsPrimed

LEMMA SessionTalksKeeps == ASSUME LockInv, SessionTalks PROVE LockInv'
<1>1. TypesFit'
  BY DEF LockInv, TypesFit, LockTypeOK, TransportTypeOK, transportVars, lockVars,
         sessionVars, heldVars, SessionTalks, Reached
<1>2. Calls'
  BY DEF LockInv, Calls, AwaitFitsCall, TargetFits, StateTellsWhatIsLoaded, transportVars,
         lockVars, sessionVars, heldVars, SessionTalks, Reached
<1>3. Conversation'
  BY SaltoLockAssumption DEF LockInv, Conversation, HandleFits, NothingBetweenSessions,
         HeardInOrder, PlanFits, AdvertisedVersion, OneConversation, AwaitFitsCall,
         transportVars, lockVars, sessionVars, heldVars, SessionTalks, Reached
<1>4. LinksFit'
  BY DEF LockInv, LinksFit, AwaitFitsCall, transportVars, lockVars, sessionVars, heldVars,
         SessionTalks, Reached
<1>5. ScanFits'
  BY DEF LockInv, ScanFits, transportVars, lockVars, sessionVars, heldVars, SessionTalks,
         Reached
<1> QED BY <1>1, <1>2, <1>3, <1>4, <1>5, LockInvPartsPrimed

LEMMA SessionHearsKeeps == ASSUME LockInv, SessionHears PROVE LockInv'
<1>1. TypesFit'
  <2>1. TransportTypeOK' /\ QueueOK' /\ Head(queue) \in PacketKinds
    BY LockInvParts, TypesFitParts, ReceiveTypes DEF SessionHears
  <2>2. FieldsFit'
    BY <2>1, LockInvParts, TypesFitParts DEF SessionHears, FieldsFit
  <2> QED BY <2>1, <2>2, TypesFitPartsPrimed
<1>2. Calls'
  BY DEF LockInv, Calls, AwaitFitsCall, TargetFits, StateTellsWhatIsLoaded, transportVars,
         lockVars, sessionVars, heldVars, SessionHears, Receive
<1>3. Conversation'
  BY SaltoLockAssumption DEF LockInv, Conversation, HandleFits, NothingBetweenSessions,
         HeardInOrder, PlanFits, AdvertisedVersion, OneConversation, AwaitFitsCall,
         transportVars, lockVars, sessionVars, heldVars, SessionHears, Receive
<1>4. LinksFit'
  BY DEF LockInv, LinksFit, AwaitFitsCall, transportVars, lockVars, sessionVars, heldVars,
         SessionHears, Receive
<1>5. ScanFits'
  BY DEF LockInv, ScanFits, transportVars, lockVars, sessionVars, heldVars, SessionHears,
         Receive
<1> QED BY <1>1, <1>2, <1>3, <1>4, <1>5, LockInvPartsPrimed

LEMMA SessionEndsKeeps == ASSUME LockInv, SessionEnds PROVE LockInv'
<1>1. TypesFit'
  <2>1. TransportTypeOK' /\ QueueOK'
    BY LockInvParts, TypesFitParts, StartDisconnectTypes DEF SessionEnds
  <2>2. FieldsFit'
    BY LockInvParts, TypesFitParts DEF SessionEnds, FieldsFit, OpenReturns, GivesUp, Answer, SessionOver, lockVars, sessionVars
  <2> QED BY <2>1, <2>2, TypesFitPartsPrimed
<1>2. Calls'
  BY SaltoLockAssumption DEF LockInv, Calls, AwaitFitsCall, TargetFits,
         StateTellsWhatIsLoaded, Recognised, Searching, HandleFits, transportVars,
         lockVars, sessionVars, heldVars, SessionEnds, StartDisconnect, Forget,
         OpenReturns, GivesUp, SessionOver, Answer, Pending, Results
<1>3. Conversation'
  BY SaltoLockAssumption, TransportAssumption DEF LockInv, TypesFit, LockTypeOK,
         TransportTypeOK, AwaitFitsCall, TargetFits, StateTellsWhatIsLoaded, Recognised,
         Searching, PacketKinds, HandleFits, transportVars, lockVars, sessionVars,
         heldVars, Conversation, NothingBetweenSessions, HeardInOrder, PlanFits, Resolve,
         AdvertisedVersion, OneConversation, SessionEnds, StartDisconnect, Forget,
         OpenReturns, GivesUp, SessionOver, Answer, Pending, Results
<1>4. LinksFit'
  BY TransportAssumption, SaltoLockAssumption DEF LockInv, LinksFit, AwaitFitsCall,
         TargetFits, Searching, HandleFits, StateTellsWhatIsLoaded, TypesFit, LockTypeOK,
         TransportTypeOK, Recognised, transportVars, lockVars, sessionVars, heldVars,
         SessionEnds, StartDisconnect, Forget, OpenReturns, GivesUp, SessionOver, Answer, Pending,
         Results
<1>5. ScanFits'
  BY DEF LockInv, ScanFits, AwaitFitsCall, Searching, transportVars, lockVars,
         sessionVars, heldVars, SessionEnds, StartDisconnect, Forget, OpenReturns, GivesUp,
         SessionOver, Answer, Pending, Results
<1> QED BY <1>1, <1>2, <1>3, <1>4, <1>5, LockInvPartsPrimed

LEMMA ClosingKeeps == ASSUME LockInv, Closing PROVE LockInv'
<1>1. TypesFit'
  <2>1. TransportTypeOK' /\ QueueOK'
    BY LockInvParts, TypesFitParts, DisconnectTypes DEF Closing, Calls
  <2>2. FieldsFit'
    BY LockInvParts, TypesFitParts DEF Closing, FieldsFit, OpenReturns, GivesUp, Answer, SessionOver, lockVars, sessionVars
  <2> QED BY <2>1, <2>2, TypesFitPartsPrimed
<1>2. Calls'
  BY SaltoLockAssumption DEF LockInv, Calls, AwaitFitsCall, TargetFits,
         StateTellsWhatIsLoaded, transportVars, lockVars, sessionVars, heldVars, Closing,
         DisconnectSteps, CheckLink, CloseLink, DisconnectFails, Forget, Leave,
         OpenReturns, GivesUp, SessionOver, Answer, Pending, Results
<1>3. Conversation'
  BY SaltoLockAssumption, TransportAssumption DEF LockInv, TypesFit, LockTypeOK,
         TransportTypeOK, AwaitFitsCall, TargetFits, StateTellsWhatIsLoaded, Recognised,
         Searching, PacketKinds, HandleFits, transportVars, lockVars, sessionVars,
         heldVars, Conversation, NothingBetweenSessions, HeardInOrder, PlanFits, Resolve,
         AdvertisedVersion, OneConversation, Closing, DisconnectSteps, CheckLink,
         CloseLink, DisconnectFails, Forget, Leave, OpenReturns, GivesUp, SessionOver, Answer,
         Pending, Results
<1>4. LinksFit'
  BY SaltoLockAssumption, TransportAssumption DEF LockInv, TypesFit, LockTypeOK,
         TransportTypeOK, AwaitFitsCall, TargetFits, StateTellsWhatIsLoaded, Recognised,
         Searching, PacketKinds, HandleFits, transportVars, lockVars, sessionVars,
         heldVars, LinksFit, Closing, DisconnectSteps, CheckLink, CloseLink,
         DisconnectFails, Forget, Leave, OpenReturns, GivesUp, SessionOver, Answer, Pending,
         Results
<1>5. ScanFits'
  BY DisconnectScan DEF Closing
<1> QED BY <1>1, <1>2, <1>3, <1>4, <1>5, LockInvPartsPrimed

LEMMA StartDisconnectingKeeps == ASSUME LockInv, StartDisconnecting PROVE LockInv'
<1>1. TypesFit'
  <2>1. TransportTypeOK' /\ QueueOK'
    BY LockInvParts, TypesFitParts, StartDisconnectTypes DEF StartDisconnecting
  <2>2. FieldsFit'
    BY LockInvParts, TypesFitParts DEF StartDisconnecting, FieldsFit, DisconnectReturns, GivesUp, Begin, Answer, sessionVars
  <2> QED BY <2>1, <2>2, TypesFitPartsPrimed
<1>2. Calls'
  BY TransportAssumption, SaltoLockAssumption DEF LockInv, Calls, AwaitFitsCall,
         TargetFits, StateTellsWhatIsLoaded, Recognised, Searching, HandleFits, TypesFit,
         LockTypeOK, TransportTypeOK, transportVars, lockVars, sessionVars, heldVars,
         StartDisconnecting, StartDisconnect, Forget, DisconnectReturns, GivesUp, Begin, Answer,
         Pending, Results
<1>3. Conversation'
  BY SaltoLockAssumption DEF LockInv, Conversation, HandleFits, NothingBetweenSessions,
         HeardInOrder, PlanFits, AdvertisedVersion, OneConversation, AwaitFitsCall,
         transportVars, lockVars, sessionVars, heldVars, StartDisconnecting,
         StartDisconnect, Forget, DisconnectReturns, GivesUp, Begin, Answer, Pending, Results
<1>4. LinksFit'
  BY TransportAssumption, SaltoLockAssumption DEF LockInv, LinksFit, AwaitFitsCall,
         TargetFits, Searching, HandleFits, StateTellsWhatIsLoaded, TypesFit, LockTypeOK,
         TransportTypeOK, Recognised, transportVars, lockVars, sessionVars, heldVars,
         StartDisconnecting, StartDisconnect, Forget, DisconnectReturns, GivesUp, Begin, Answer,
         Pending, Results
<1>5. ScanFits'
  BY DEF LockInv, ScanFits, AwaitFitsCall, Searching, transportVars, lockVars,
         sessionVars, heldVars, StartDisconnecting, StartDisconnect, Forget,
         DisconnectReturns, GivesUp, Begin, Answer, Pending, Results
<1> QED BY <1>1, <1>2, <1>3, <1>4, <1>5, LockInvPartsPrimed

LEMMA DisconnectingKeeps == ASSUME LockInv, Disconnecting PROVE LockInv'
<1>1. TypesFit'
  <2>1. TransportTypeOK' /\ QueueOK'
    BY LockInvParts, TypesFitParts, DisconnectTypes DEF Disconnecting, Calls
  <2>2. FieldsFit'
    BY LockInvParts, TypesFitParts DEF Disconnecting, FieldsFit, DisconnectReturns, GivesUp, Answer, sessionVars, lockVars
  <2> QED BY <2>1, <2>2, TypesFitPartsPrimed
<1>2. Calls'
  BY TransportAssumption, SaltoLockAssumption DEF LockInv, Calls, AwaitFitsCall,
         TargetFits, StateTellsWhatIsLoaded, Recognised, Searching, HandleFits, TypesFit,
         LockTypeOK, TransportTypeOK, transportVars, lockVars, sessionVars, heldVars,
         Disconnecting, DisconnectSteps, CheckLink, CloseLink, DisconnectFails, Forget,
         Leave, DisconnectReturns, GivesUp, Answer, Pending, Results
<1>3. Conversation'
  BY SaltoLockAssumption DEF LockInv, Conversation, HandleFits, NothingBetweenSessions,
         HeardInOrder, PlanFits, AdvertisedVersion, OneConversation, AwaitFitsCall,
         transportVars, lockVars, sessionVars, heldVars, Disconnecting, DisconnectSteps,
         CheckLink, CloseLink, DisconnectFails, Forget, Leave, DisconnectReturns, GivesUp, Answer,
         Pending, Results
<1>4. LinksFit'
  BY SaltoLockAssumption, TransportAssumption DEF LockInv, TypesFit, LockTypeOK,
         TransportTypeOK, AwaitFitsCall, TargetFits, StateTellsWhatIsLoaded, Recognised,
         Searching, PacketKinds, HandleFits, transportVars, lockVars, sessionVars,
         heldVars, LinksFit, Disconnecting, DisconnectSteps, CheckLink, CloseLink,
         DisconnectFails, Forget, Leave, DisconnectReturns, GivesUp, Answer, Pending, Results
<1>5. ScanFits'
  BY DisconnectScan DEF Disconnecting
<1> QED BY <1>1, <1>2, <1>3, <1>4, <1>5, LockInvPartsPrimed

LEMMA CallerDropsKeeps == ASSUME LockInv, CallerDrops PROVE LockInv'
<1>1. TypesFit'
  BY SaltoLockAssumption, TransportAssumption DEF LockInv, TypesFit, LockTypeOK,
         TransportTypeOK, AwaitFitsCall, TargetFits, StateTellsWhatIsLoaded, Recognised,
         Searching, PacketKinds, HandleFits, transportVars, lockVars, sessionVars,
         heldVars, CallerDrops, GivesUp, DropFuture, Abandoned, Leave, Answer, SessionOver
<1>2. Calls'
  BY SaltoLockAssumption DEF LockInv, Calls, AwaitFitsCall, TargetFits,
         StateTellsWhatIsLoaded, transportVars, lockVars, sessionVars, heldVars,
         CallerDrops, GivesUp, DropFuture, Abandoned, Leave, Answer, SessionOver
<1>3. Conversation'
  BY SaltoLockAssumption DEF LockInv, TypesFit, LockTypeOK, TransportTypeOK,
         AwaitFitsCall, TargetFits, StateTellsWhatIsLoaded, Recognised, Searching,
         PacketKinds, HandleFits, transportVars, lockVars, sessionVars, heldVars,
         Conversation, NothingBetweenSessions, HeardInOrder, PlanFits, Resolve,
         AdvertisedVersion, OneConversation, CallerDrops, GivesUp, DropFuture, Abandoned, Leave,
         Answer, SessionOver
<1>4. LinksFit'
  BY SaltoLockAssumption DEF LockInv, TypesFit, LockTypeOK, TransportTypeOK,
         AwaitFitsCall, TargetFits, StateTellsWhatIsLoaded, Recognised, Searching,
         PacketKinds, HandleFits, transportVars, lockVars, sessionVars, heldVars,
         LinksFit, CallerDrops, GivesUp, DropFuture, Abandoned, Leave, Answer, SessionOver
<1>5. ScanFits'
  BY SaltoLockAssumption DEF LockInv, TypesFit, LockTypeOK, TransportTypeOK,
         AwaitFitsCall, TargetFits, StateTellsWhatIsLoaded, Recognised, Searching,
         PacketKinds, HandleFits, transportVars, lockVars, sessionVars, heldVars,
         ScanFits, CallerDrops, GivesUp, DropFuture, Abandoned, Leave, Answer, SessionOver
<1> QED BY <1>1, <1>2, <1>3, <1>4, <1>5, LockInvPartsPrimed

LEMMA LockNotifiesKeeps == ASSUME LockInv, LockNotifies PROVE LockInv'
<1>1. TypesFit'
  BY TransportAssumption, SaltoLockAssumption DEF LockInv, TypesFit, LockTypeOK,
         TransportTypeOK, PacketKinds, Searching, Recognised, TargetFits, AwaitFitsCall,
         StateTellsWhatIsLoaded, transportVars, lockVars, sessionVars, heldVars,
         LockNotifies, Notify
<1>2. Calls'
  BY DEF LockInv, Calls, AwaitFitsCall, TargetFits, StateTellsWhatIsLoaded, transportVars,
         lockVars, sessionVars, heldVars, LockNotifies, Notify
<1>3. Conversation'
  <2>1. HeardInOrder'
    <3>1. PICK packet \in PacketKinds :
            /\ Notify(packet)
            /\ call = "open" => packet = IF begun THEN "Later" ELSE "First"
      BY DEF LockNotifies, PacketKinds
    <3>2. queue \in Seq(PacketKinds) /\ queue' = Append(queue, packet)
      BY <3>1 DEF LockInv, TypesFit, Notify
    <3>3. /\ queue' # <<>>
          /\ queue'[1] = IF queue = <<>> THEN packet ELSE queue[1]
          /\ \A i \in DOMAIN queue' : queue'[i] = packet \/ (i \in DOMAIN queue /\ queue'[i] = queue[i])
      BY <3>2, Appended
    <3> QED BY <3>1, <3>3 DEF LockNotifies, Notify, LockInv, HeardInOrder
  <2>2. HandleFits' /\ NothingBetweenSessions' /\ PlanFits' /\ OneConversation'
    BY TransportAssumption, SaltoLockAssumption DEF LockInv, HandleFits,
           NothingBetweenSessions, HeardInOrder, PlanFits, AdvertisedVersion,
           OneConversation, AwaitFitsCall, StateTellsWhatIsLoaded, TypesFit, LockTypeOK,
           TransportTypeOK, Resolve, TargetFits, Recognised, LockNotifies, Notify,
           transportVars, lockVars, sessionVars, heldVars
  <2> QED BY <2>1, <2>2 DEF Conversation
<1>4. LinksFit'
  BY DEF LockInv, LinksFit, AwaitFitsCall, transportVars, lockVars, sessionVars, heldVars,
         LockNotifies, Notify
<1>5. ScanFits'
  BY DEF LockInv, ScanFits, transportVars, lockVars, sessionVars, heldVars, LockNotifies,
         Notify
<1> QED BY <1>1, <1>2, <1>3, <1>4, <1>5, LockInvPartsPrimed

LEMMA RadioDropsKeeps == ASSUME LockInv, RadioDrops PROVE LockInv'
<1>1. TypesFit'
  BY DEF LockInv, TypesFit, LockTypeOK, TransportTypeOK, transportVars, lockVars,
         sessionVars, heldVars, RadioDrops, LinkDrops
<1>2. Calls'
  BY DEF LockInv, Calls, AwaitFitsCall, TargetFits, StateTellsWhatIsLoaded, transportVars,
         lockVars, sessionVars, heldVars, RadioDrops, LinkDrops
<1>3. Conversation'
  BY SaltoLockAssumption DEF LockInv, Conversation, HandleFits, NothingBetweenSessions,
         HeardInOrder, PlanFits, AdvertisedVersion, OneConversation, AwaitFitsCall,
         transportVars, lockVars, sessionVars, heldVars, RadioDrops, LinkDrops
<1>4. LinksFit'
  BY DEF LockInv, LinksFit, AwaitFitsCall, transportVars, lockVars, sessionVars, heldVars,
         RadioDrops, LinkDrops
<1>5. ScanFits'
  BY DEF LockInv, ScanFits, transportVars, lockVars, sessionVars, heldVars, RadioDrops,
         LinkDrops
<1> QED BY <1>1, <1>2, <1>3, <1>4, <1>5, LockInvPartsPrimed

-----------------------------------------------------------------------------
(* The invariant *)

LEMMA InitLockInv == Init => LockInv
<1> SUFFICES ASSUME Init PROVE LockInv
  OBVIOUS
<1>1. TypesFit
  <2>1. queue \in Seq(PacketKinds) /\ Len(queue) = 0
    BY DEF Init, TransportInit
  <2>2. TransportTypeOK
    <3>1. Len(queue) <= QueueLimit /\ queue = <<>>
      BY <2>1, TransportAssumption DEF Init, TransportInit
    <3> QED BY <3>1 DEF Init, TransportInit, TransportTypeOK
  <2>3. FieldsFit
    BY DEF Init, FieldsFit, Plans
  <2> QED BY <2>1, <2>2, <2>3, TypesFitParts DEF QueueOK
<1>2. Calls /\ LinksFit /\ ScanFits
  BY SaltoLockAssumption, TransportAssumption
     DEF Init, TransportInit, Calls, AwaitFitsCall, TargetFits, StateTellsWhatIsLoaded,
         LinksFit, ScanFits
<1>3. Conversation
  BY SaltoLockAssumption DEF Init, TransportInit, Conversation, HandleFits,
         NothingBetweenSessions, HeardInOrder, PlanFits, OneConversation
<1> QED BY <1>1, <1>2, <1>3, LockInvParts

LEMMA NextLockInv == LockInv /\ [Next]_vars => LockInv'
<1> SUFFICES ASSUME LockInv, [Next]_vars PROVE LockInv'
  OBVIOUS
<1>1. CASE Next
  BY <1>1, StartSurveyingKeeps, SurveyingKeeps, StartConnectingKeeps, ConnectingKeeps,
     SetHandshakeKeeps, AuthenticateKeeps, WriteTagKeeps, StartOpeningKeeps,
     SessionSubscribesKeeps, SessionListensKeeps, SessionTalksKeeps, SessionHearsKeeps,
     SessionEndsKeeps, ClosingKeeps, StartDisconnectingKeeps, DisconnectingKeeps,
     CallerDropsKeeps, LockNotifiesKeeps, RadioDropsKeeps DEF Next
<1>2. CASE UNCHANGED vars
  BY <1>2, RefusedKeeps DEF vars, lockVars
<1> QED BY <1>1, <1>2 DEF vars

\* Whatever is called in whatever order, fails, is dropped or drops out, each
\* method waits where it can, and what the handle and the transport store
\* belongs together.
THEOREM LockInvariant == Spec => []LockInv
  BY InitLockInv, NextLockInv, PTL DEF Spec

-----------------------------------------------------------------------------
(* What it promises *)

\* Every field keeps its type.
THEOREM LockTypes == Spec => []LockTypeOK
<1>1. LockInv => LockTypeOK
  BY DEF LockInv, TypesFit
<1> QED BY <1>1, LockInvariant, PTL

\* LockState says whether there is a lock and a key to open it with: open never
\* fails for want of either, and no key reaches the next connection.
THEOREM StateIsTruthful == Spec => []StateTellsWhatIsLoaded
<1>1. LockInv => StateTellsWhatIsLoaded
  BY DEF LockInv
<1> QED BY <1>1, LockInvariant, PTL

\* A session's bytes go to, and come from, the connected lock only.
THEOREM TalksToOneLock == Spec => []OneConversation
<1>1. LockInv => OneConversation
  BY DEF LockInv
<1> QED BY <1>1, LockInvariant, PTL

\* A session hears the lock from its first packet on and nothing older, unless
\* an open was dropped over this connection.
THEOREM HearsFromTheStart == Spec => []HearsItsOwn
<1>1. LockInv => HearsItsOwn
  <2> SUFFICES ASSUME LockInv, call = "open", ~forsaken
               PROVE  "Stale" \notin heard /\ ("Later" \in heard => "First" \in heard)
    BY DEF HearsItsOwn
  <2>1. HeardInOrder
    BY DEF LockInv
  <2> QED BY <2>1 DEF HeardInOrder
<1> QED BY <1>1, LockInvariant, PTL

\* What discovery concludes from what a device broadcasts: a lock is recognised
\* with a version above zero exactly when its record is long enough and says so.
LEMMA DiscoveredVersion ==
  ASSUME NEW b \in BroadcastType, Discover(b) # None
  PROVE  Discover(b).version # 0 <=> b.record # None /\ Len(b.record) >= 3 /\ b.record[1] > 0
<1>1. b.record \in Seq(Byte) \cup {None}
  BY DEF BroadcastType
<1>2. CASE b.record # None /\ Len(b.record) >= 3
  <2>1. b.record[1] \in 0..255 /\ b.record[3] \in 0..255
    <3>1. b.record \in Seq(0..255)
      BY <1>1, <1>2 DEF Byte
    <3>2. Len(b.record) \in Nat /\ 1 \in 1..Len(b.record) /\ 3 \in 1..Len(b.record)
      BY <1>2, <3>1
    <3> QED BY <3>1, <3>2, ElementOfSeq, Zenon
  <2>2. ParseSaltoAdvertisement(b.record)
          = [version |-> b.record[1], flags |-> ProtocolFlags(b.record[3])]
    BY <1>1, <1>2 DEF ParseSaltoAdvertisement
  <2>3. ProtocolFlags(b.record[3]).rf3 \in {"Off", "Ini", "Link", "Lost"}
    <3>1. (b.record[3] \div 16) % 4 \in 0..3
      BY <2>1
    <3> QED BY <3>1 DEF ProtocolFlags
  <2>4. ProtocolFlags(b.record[3])
          \in [remote : BOOLEAN, hasMessages : BOOLEAN, rf3 : {"Off", "Ini", "Link", "Lost"}]
    BY <2>3 DEF ProtocolFlags
  <2>5. ParseSaltoAdvertisement(b.record) \in AdvertisementType
    BY <2>1, <2>2, <2>4 DEF AdvertisementType, Byte
  <2>6. Discover(b).version = b.record[1]
    BY <1>2, <2>2, <2>5, TransportAssumption DEF Discover
  <2>7. b.record[1] # 0 <=> b.record[1] > 0
    BY <2>1
  <2> QED BY <1>2, <2>6, <2>7
<1>3. CASE ~(b.record # None /\ Len(b.record) >= 3)
  <2>1. b.record # None => ParseSaltoAdvertisement(b.record) = None
    BY <1>1, <1>3 DEF ParseSaltoAdvertisement
  <2>2. Discover(b).version = 0
    BY <2>1 DEF Discover
  <2> QED BY <1>3, <2>2
<1> QED BY <1>2, <1>3

\* A lock is announced to exactly when the very record it broadcasts says a
\* version above 0.
THEOREM AnnouncesToTheRightLock == Spec => []DetectionFitsLock
<1>1. LockInv => DetectionFitsLock
  <2> SUFFICES ASSUME LockInv, call = "open", handshake = "Auto", NEW l \in talked
               PROVE  detection = "AppProtocol" <=> /\ Broadcasts[l].record # None
                                                    /\ Len(Broadcasts[l].record) >= 3
                                                    /\ Broadcasts[l].record[1] > 0
    BY DEF DetectionFitsLock
  <2>1. l = connected
    BY DEF LockInv, OneConversation
  <2>2. connected \in Locks /\ Discover(Broadcasts[connected]) # None
    BY <2>1, SaltoLockAssumption
       DEF LockInv, AwaitFitsCall, StateTellsWhatIsLoaded, TargetFits, Recognised
  <2>3. detection = "AppProtocol" <=> Discover(Broadcasts[connected]).version # 0
    <3>1. detection = Resolve("Auto", Discover(Broadcasts[connected]).version)
      BY <2>2, TransportAssumption DEF LockInv, PlanFits, AdvertisedVersion
    <3> QED BY <3>1 DEF Resolve
  <2>4. Broadcasts[connected] \in BroadcastType
    BY <2>2, TransportAssumption
  <2> QED BY <2>1, <2>2, <2>3, <2>4, DiscoveredVersion
<1> QED BY <1>1, LockInvariant, PTL

\* A link is up only to the lock the handle holds or to one that was given up: one
\* whose connect failed other than for its services, or whose disconnect failed, or
\* whose connect or disconnect was dropped, and that was not connected to since.
THEOREM NoLinkIsLost == Spec => []LinksAccountedFor
<1>1. LockInv => LinksAccountedFor
  BY DEF LockInv, LinksFit, LinksAccountedFor
<1> QED BY <1>1, LockInvariant, PTL

\* No search that is awaited leaves the adapter scanning while stop_scan works.
THEOREM NoScanIsLeftOn == Spec => []ScanAccountedFor
<1>1. LockInv => ScanAccountedFor
  <2> SUFFICES ASSUME LockInv, call = None, ~unstopped PROVE ~scanning
    BY DEF ScanAccountedFor
  <2>1. at = "idle"
    BY DEF LockInv, AwaitFitsCall
  <2> QED BY <2>1 DEF LockInv, ScanFits, Searching
<1> QED BY <1>1, LockInvariant, PTL
=============================================================================
