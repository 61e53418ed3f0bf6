------------------------------ MODULE SspLink ------------------------------
(***************************************************************************)
(* The phone's stack and an honest v0200 lock over a reliable, ordered     *)
(* link: do the two ends of the SSP layer stay in step?                    *)
(*                                                                         *)
(* The lock is not part of the repository.  It is modelled from what the   *)
(* phone's handlers and their tests require of it: it opens the session,   *)
(* seals its requests under the key and the IV it shares with the phone,   *)
(* and never has two sealed requests outstanding, because each side's      *)
(* encryption moves the one IV both of them chain.  Plain requests do not  *)
(* touch the IV; the lock sends them whenever it likes.                    *)
(***************************************************************************)
EXTENDS Stack

CONSTANTS SharedKey,   \* the mobile key both ends know
          LockRandoms, \* what the lock can draw as RandomA
          Randoms,     \* what the phone can draw as RandomB
          NewKeys,     \* keys the lock may install with SetKeyValue
          DataCommands,\* commands the lock may send, sealed or plain
          MaxRequests, \* requests in one attempt
          MaxInFlight  \* requests not yet answered

ASSUME LinkAssumption ==
  /\ IsMobileKey(SharedKey) /\ Kn(SharedKey) \in Block
  /\ LockRandoms \subseteq Block /\ Randoms \subseteq Block /\ NewKeys \subseteq Block
  /\ \A c \in DataCommands : c \in CommandType /\ c.op # "Unknown"
  /\ MaxRequests \in Nat /\ MaxInFlight \in Nat

VARIABLES phone,     \* the phone's stack
          phoneErr,  \* what handle_packet failed with; it ends the session
          lock,      \* the lock: [step, key, iv, randomA, randomB]
          lockErr,   \* the lock could not open or did not accept a reply
          toPhone,   \* requests on their way
          toLock,    \* replies on their way
          requests   \* how many requests the lock has sent

linkVars == <<phone, phoneErr, lock, lockErr, toPhone, toLock, requests>>

\* One sealed request at a time: the lock waits for its reply.
Outstanding == lock.step \in {"SentStep1", "SentStep2", "SentData", "SentKey"}

Init ==
  /\ phone = NewStack(SharedKey)
  /\ phoneErr = None
  /\ lock = [step |-> "Idle", key |-> Kn(SharedKey), iv |-> ZeroIv,
             randomA |-> None, randomB |-> None]
  /\ lockErr = None
  /\ toPhone = <<>>
  /\ toLock = <<>>
  /\ requests = 0

-----------------------------------------------------------------------------
(* The lock *)

Send(p) ==
  /\ lockErr = None /\ requests < MaxRequests
  /\ Len(toPhone) + Len(toLock) < MaxInFlight
  /\ toPhone' = Append(toPhone, p)
  /\ requests' = requests + 1
  /\ UNCHANGED <<phone, phoneErr, lockErr, toLock>>

\* Seal a request and wait for its reply, in step next, under key nextKey.
SendSealed(control, body, next, nextKey) ==
  /\ Send(Sealed(control, body, lock.key, lock.iv))
  /\ lock' = [lock EXCEPT !.step = next, !.key = nextKey,
                          !.iv = LastBlock(lock.key, lock.iv, body)]

OpenSession ==
  /\ lock.step = "Idle"
  /\ Send(Plain(TRUE, Control("OpenSessionStep1", None, None)))
  /\ lock' = [lock EXCEPT !.step = "SentStep1"]

ProveKey ==
  /\ lock.step = "GotRandomB"
  /\ \E a \in LockRandoms :
       /\ Send(Sealed(TRUE, Control("OpenSessionStep2", a, RotateRight(lock.randomB)),
                      lock.key, lock.iv))
       /\ lock' = [lock EXCEPT !.step = "SentStep2", !.randomA = a,
                     !.iv = LastBlock(lock.key, lock.iv,
                              Control("OpenSessionStep2", a, RotateRight(lock.randomB)))]

SendData ==
  /\ lock.step = "InSession"
  /\ \E c \in DataCommands : SendSealed(FALSE, c, "SentData", lock.key)

\* The reply will come under the new key, so the lock switches at once.
InstallKey ==
  /\ lock.step = "InSession"
  /\ \E k \in NewKeys : SendSealed(TRUE, Control("SetKeyValue", k, None), "SentKey", k)

SendPlain ==
  /\ \/ Send(Plain(TRUE, Control("GetVersion", None, None)))
     \/ \E c \in DataCommands : Send(Plain(FALSE, c))
  /\ UNCHANGED lock

\* The lock takes the next reply.  A plain one answers a plain request; a
\* sealed one must open, and must be the reply it waits for.
Accepts(p) ==
  /\ p.key = lock.key /\ p.iv = lock.iv
  /\ \/ lock.step = "SentStep1" /\ p.control /\ p.body.op = "OpenSessionStep1"
     \/ /\ lock.step = "SentStep2" /\ p.control /\ p.body.op = "OpenSessionStep2"
        /\ p.body.a = RotateRight(lock.randomA)
     \/ lock.step = "SentKey" /\ p.control /\ p.body.op = "SetKeyValue"
     \/ lock.step = "SentData" /\ ~p.control

TakeReply ==
  /\ lockErr = None /\ toLock # <<>>
  /\ toLock' = Tail(toLock)
  /\ LET p == Head(toLock) IN
     \/ p.form = "plain" /\ UNCHANGED <<lock, lockErr>>
     \/ /\ p.form = "sealed" /\ ~Accepts(p)
        /\ lockErr' = "BadReply"
        /\ UNCHANGED lock
     \/ /\ p.form = "sealed" /\ Accepts(p)
        /\ lock' = [lock EXCEPT
             !.iv = LastBlock(p.key, p.iv, p.body),
             !.step = IF @ = "SentStep1" THEN "GotRandomB" ELSE "InSession",
             !.randomB = IF lock.step = "SentStep1" THEN p.body.a ELSE @,
             !.key = IF lock.step = "SentStep2"
                     THEN DeriveSessionKey(lock.randomA, lock.randomB) ELSE @]
        /\ UNCHANGED lockErr
  /\ UNCHANGED <<phone, phoneErr, toPhone, requests>>

-----------------------------------------------------------------------------
(* The phone *)

PhoneHandles ==
  /\ phoneErr = None /\ toPhone # <<>>
  /\ toPhone' = Tail(toPhone)
  /\ \E randomB \in Randoms :
     \E r \in {HandlePacket(phone, Head(toPhone), randomB)} :
       /\ phone' = r.st
       /\ phoneErr' = r.err
       /\ toLock' = IF r.err = None THEN Append(toLock, r.out) ELSE toLock
  /\ UNCHANGED <<lock, lockErr, requests>>

LockSends == OpenSession \/ ProveKey \/ SendData \/ InstallKey \/ SendPlain

\* The lock has used up its requests and every reply is in.
Quiet ==
  /\ requests = MaxRequests /\ toPhone = <<>> /\ toLock = <<>>
  /\ UNCHANGED linkVars

Next == LockSends \/ TakeReply \/ PhoneHandles \/ Quiet

Spec == Init /\ [][Next]_linkVars

\* Both ends answer, and a lock that can go on with the handshake does.
FairSpec ==
  /\ Spec
  /\ WF_linkVars(TakeReply) /\ WF_linkVars(PhoneHandles)
  /\ WF_linkVars(OpenSession) /\ WF_linkVars(ProveKey)

-----------------------------------------------------------------------------
(* What keeps the two ends in step *)

\* The phone's SSP layer and the lock's have their types.
LinkTypeOK ==
  /\ phone.ssp.state \in {"Ready", "AuthStep1", "InSession"}
  /\ CurrentKey(phone.ssp) \in Block
  /\ lock.key \in Block
  /\ lock.step \in {"Idle", "GotRandomB", "InSession",
                    "SentStep1", "SentStep2", "SentData", "SentKey"}
  /\ requests \in 0..MaxRequests

\* An honest lock never makes the phone fail, nor the phone the lock: every
\* sealed packet opens at the other end, through both key switches and
\* whatever plain requests are in flight around them.
NeverOutOfStep == phoneErr = None /\ lockErr = None

\* When no sealed request is outstanding, both ends hold the same key and the
\* same IV, and agree on whether the session is open.
EndsAgree ==
  ~Outstanding =>
    /\ lock.key = CurrentKey(phone.ssp)
    /\ lock.iv = phone.ssp.iv
    /\ lock.step = "InSession" <=> phone.ssp.state = "InSession"

\* The session key is fresh in both randoms: it is the one derived from this
\* attempt's RandomA and RandomB, until the lock installs another.
KeyFromBothRandoms ==
  phone.ssp.state = "InSession" =>
    \/ phone.ssp.sessionKey = DeriveSessionKey(lock.randomA, phone.ssp.randomB)
    \/ phone.ssp.sessionKey \in NewKeys

\* A lock with requests to spare gets its session opened.
HandshakeCompletes ==
  (lock.step = "SentStep1") ~> (lock.step = "InSession" \/ requests = MaxRequests)

-----------------------------------------------------------------------------
(* Why they do: the inductive invariant *)

IsQueue(q) == q \in Seq({q[i] : i \in DOMAIN q})

\* Each end has its fields, and each link is a sequence of packets.
TypesFit ==
  /\ phone \in [ssp : {phone.ssp}, justin : {phone.justin}]
  /\ SspTypeOK(phone.ssp) /\ phone.ssp.kn = Kn(SharedKey)
  /\ JustinTypeOK(phone.justin)
  /\ lock \in [step : {"Idle", "GotRandomB", "InSession",
                      "SentStep1", "SentStep2", "SentData", "SentKey"},
               key : Block, iv : {lock.iv},
               randomA : Block \cup {None}, randomB : Block \cup {None}]
  /\ IsQueue(toPhone) /\ IsQueue(toLock)
  /\ requests \in 0..MaxRequests

\* How far the handshake is on either end, and the randoms they share by then.
StagesFit ==
  /\ phone.ssp.state = "InSession" <=> phone.ssp.sessionKey # None
  /\ phone.ssp.state # "Ready" => phone.ssp.randomB \in Block
  /\ lock.step = "Idle" => phone.ssp.state = "Ready"
  /\ lock.step = "SentStep1" => phone.ssp.state \in {"Ready", "AuthStep1"}
  /\ lock.step = "GotRandomB" => phone.ssp.state = "AuthStep1"
  /\ lock.step = "SentStep2" => phone.ssp.state \in {"AuthStep1", "InSession"}
  /\ lock.step \in {"InSession", "SentData", "SentKey"} => phone.ssp.state = "InSession"
  /\ lock.step \in {"GotRandomB", "SentStep2"} => lock.randomB = phone.ssp.randomB
  /\ lock.step = "SentStep2" => lock.randomA \in Block

\* A plain request beside the handshake; it touches neither key nor IV.
Aside(p) == \/ p = Plain(TRUE, Control("GetVersion", None, None))
            \/ \E c \in DataCommands : p = Plain(FALSE, c)

\* p is the request the lock waits on: the phone can open it, and will then
\* hold the IV that the lock already holds.
Asks(p) ==
  \/ /\ lock.step = "SentStep1" /\ phone.ssp.state = "Ready"
     /\ p = Plain(TRUE, Control("OpenSessionStep1", None, None))
     /\ lock.key = CurrentKey(phone.ssp) /\ lock.iv = phone.ssp.iv
  \/ /\ p = Sealed(p.control, p.body, CurrentKey(phone.ssp), phone.ssp.iv)
     /\ lock.iv = LastBlock(p.key, p.iv, p.body)
     /\ \/ /\ lock.step = "SentStep2" /\ phone.ssp.state = "AuthStep1"
           /\ p.control /\ lock.key = p.key
           /\ p.body = Control("OpenSessionStep2", lock.randomA, RotateRight(lock.randomB))
        \/ lock.step = "SentData" /\ ~p.control /\ p.body \in DataCommands /\ lock.key = p.key
        \/ /\ lock.step = "SentKey" /\ p.control
           /\ p.body = Control("SetKeyValue", lock.key, None) /\ lock.key \in NewKeys

\* p is the reply the lock waits for: it will accept it, and then hold the key
\* and the IV that the phone already holds.
Answers(p) ==
  /\ p.form = "sealed" /\ Accepts(p)
  /\ phone.ssp.iv = LastBlock(p.key, p.iv, p.body)
  /\ \/ /\ lock.step = "SentStep1" /\ phone.ssp.state = "AuthStep1"
        /\ p.body.a = phone.ssp.randomB /\ lock.key = CurrentKey(phone.ssp)
     \/ /\ lock.step = "SentStep2" /\ phone.ssp.state = "InSession"
        /\ CurrentKey(phone.ssp) = DeriveSessionKey(lock.randomA, lock.randomB)
     \/ lock.step \in {"SentData", "SentKey"} /\ lock.key = CurrentKey(phone.ssp)

\* At most one packet on either link is not an aside, and it is that one.
OneExchange ==
  /\ \A i \in DOMAIN toPhone :
       \/ Aside(toPhone[i])
       \/ /\ Asks(toPhone[i])
          /\ \A j \in DOMAIN toPhone \ {i} : Aside(toPhone[j])
          /\ \A j \in DOMAIN toLock : toLock[j].form = "plain"
  /\ \A i \in DOMAIN toLock :
       \/ toLock[i].form = "plain"
       \/ /\ Answers(toLock[i])
          /\ \A j \in DOMAIN toLock \ {i} : toLock[j].form = "plain"
          /\ \A j \in DOMAIN toPhone : Aside(toPhone[j])

LinkInv ==
  /\ TypesFit /\ StagesFit /\ OneExchange
  /\ NeverOutOfStep /\ EndsAgree /\ KeyFromBothRandoms
=============================================================================
