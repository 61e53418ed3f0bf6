----------------------------- MODULE PumpProofs -----------------------------
(***************************************************************************)
(* The native shell is correct for every key, every option, every lock and *)
(* every way a transport call can fail: PumpInv is inductive, and what     *)
(* run_session promises its caller follows from it.                        *)
(***************************************************************************)
EXTENDS Pump, SessionProofs

-----------------------------------------------------------------------------
(* Lists of actions *)

\* The list holds exactly the members of S, in the order of the flow.
Lists(list, S, flow) ==
  /\ list \in Seq(S)
  /\ {list[i] : i \in DOMAIN list} = S
  /\ InOrder(list, flow)

LEMMA ListsNothing == ASSUME NEW flow PROVE Lists(<<>>, {}, flow)
  BY DEF Lists, InOrder

LEMMA ListsOne == ASSUME NEW a, NEW flow PROVE Lists(<<a>>, {a}, flow)
<1>1. <<a>> \in Seq({a}) /\ DOMAIN <<a>> = {1} /\ <<a>>[1] = a
  OBVIOUS
<1>2. {<<a>>[i] : i \in DOMAIN <<a>>} = {a}
  BY <1>1
<1> QED BY <1>1, <1>2 DEF Lists, InOrder

\* A list behind another, when all of it comes later.
LEMMA ListsBoth ==
  ASSUME NEW flow, NEW S, NEW T, NEW a, NEW b, Lists(a, S, flow), Lists(b, T, flow),
         \A x \in S, y \in T : Place(x, flow) < Place(y, flow)
  PROVE  Lists(a \o b, S \cup T, flow)
<1> DEFINE U == S \cup T
           c == a \o b
           m == Len(a)
           n == Len(b)
<1>1. /\ a \in Seq(U) /\ b \in Seq(U) /\ m \in Nat /\ n \in Nat
      /\ DOMAIN a = 1..m /\ DOMAIN b = 1..n
      /\ \A i \in 1..m : a[i] \in S
      /\ \A i \in 1..n : b[i] \in T
  BY DEF Lists
<1> HIDE DEF U
<1>2. /\ c \in Seq(U) /\ Len(c) = m + n
      /\ \A i \in 1..m : c[i] = a[i]
      /\ \A i \in 1..n : c[m + i] = b[i]
  BY <1>1, Joined
<1>3. DOMAIN c = 1..(m + n)
  BY <1>2
<1> HIDE DEF c, m, n
<1>4. \A i \in 1..(m + n) : (i \in 1..m /\ c[i] = a[i]) \/ (i - m \in 1..n /\ c[i] = b[i - m])
  <2> TAKE i \in 1..(m + n)
  <2>1. CASE i \in 1..m
    BY <1>2, <2>1
  <2>2. CASE i \notin 1..m
    <3>1. i - m \in 1..n /\ m + (i - m) = i
      BY <1>1, <2>2
    <3> QED BY <1>2, <3>1
  <2> QED BY <2>1, <2>2
<1>5. {c[i] : i \in DOMAIN c} = S \cup T
  <2>1. \A i \in DOMAIN c : c[i] \in S \cup T
    BY <1>1, <1>3, <1>4
  <2>2. ASSUME NEW x \in S PROVE \E i \in DOMAIN c : c[i] = x
    <3>1. PICK i \in 1..m : a[i] = x
      BY <1>1 DEF Lists
    <3>2. i \in DOMAIN c /\ c[i] = x
      BY <1>1, <1>2, <1>3, <3>1
    <3> QED BY <3>2
  <2>3. ASSUME NEW x \in T PROVE \E i \in DOMAIN c : c[i] = x
    <3>1. PICK i \in 1..n : b[i] = x
      BY <1>1 DEF Lists
    <3>2. m + i \in DOMAIN c /\ c[m + i] = x
      BY <1>1, <1>2, <1>3, <3>1
    <3> QED BY <3>2
  <2> QED BY <2>1, <2>2, <2>3
<1>6. InOrder(c, flow)
  <2> SUFFICES ASSUME NEW i \in 1..(m + n), NEW j \in 1..(m + n), i < j
               PROVE  Place(c[i], flow) < Place(c[j], flow)
    BY <1>3 DEF InOrder
  <2>1. CASE i \in 1..m /\ j \in 1..m
    BY <1>1, <1>2, <2>1 DEF Lists, InOrder
  <2>2. CASE i \in 1..m /\ j \notin 1..m
    <3>1. c[i] \in S /\ c[j] \in T
      BY <1>1, <1>4, <2>2
    <3> QED BY <3>1
  <2>3. CASE i \notin 1..m
    <3>1. /\ i - m \in 1..n /\ j - m \in 1..n /\ i - m < j - m
          /\ c[i] = b[i - m] /\ c[j] = b[j - m]
      BY <1>1, <1>4, <2>3
    <3> QED BY <1>1, <3>1 DEF Lists, InOrder
  <2> QED BY <2>1, <2>2, <2>3
<1> QED BY <1>2, <1>5, <1>6 DEF Lists, U, c

LEMMA ListsTwo ==
  ASSUME NEW flow, NEW a, NEW b, Place(a, flow) < Place(b, flow)
  PROVE  Lists(<<a, b>>, {a, b}, flow)
<1>1. /\ <<a, b>> \in Seq({a, b}) /\ DOMAIN <<a, b>> = {1, 2}
      /\ <<a, b>>[1] = a /\ <<a, b>>[2] = b
  OBVIOUS
<1>2. {<<a, b>>[i] : i \in DOMAIN <<a, b>>} = {a, b}
  BY <1>1
<1>3. InOrder(<<a, b>>, flow)
  BY <1>1 DEF InOrder
<1> QED BY <1>1, <1>2, <1>3 DEF Lists

LEMMA ListsThree ==
  ASSUME NEW flow, NEW a, NEW b, NEW c,
         Place(a, flow) < Place(b, flow), Place(b, flow) < Place(c, flow),
         Place(a, flow) < Place(c, flow)
  PROVE  Lists(<<a, b, c>>, {a, b, c}, flow)
<1>1. /\ <<a, b, c>> \in Seq({a, b, c}) /\ DOMAIN <<a, b, c>> = {1, 2, 3}
      /\ <<a, b, c>>[1] = a /\ <<a, b, c>>[2] = b /\ <<a, b, c>>[3] = c
  OBVIOUS
<1>2. {<<a, b, c>>[i] : i \in DOMAIN <<a, b, c>>} = {a, b, c}
  BY <1>1
<1>3. InOrder(<<a, b, c>>, flow)
  BY <1>1 DEF InOrder
<1> QED BY <1>1, <1>2, <1>3 DEF Lists

-----------------------------------------------------------------------------
(* The order of the actions and of the phases *)

PhaseNames == {"DetectingVersion", "Authenticating", "Exchanging", "Finished"}

LEMMA PhaseNamesListed == {PhaseOrder[k] : k \in 1..4} = PhaseNames
<1>1. 1..4 = {1, 2, 3, 4}
  OBVIOUS
<1> QED BY <1>1 DEF PhaseOrder, PhaseNames

LEMMA Ranks ==
  /\ Rank("DetectingVersion") = 1 /\ Rank("Authenticating") = 2
  /\ Rank("Exchanging") = 3 /\ Rank("Finished") = 4
<1>1. /\ PhaseOrder[1] = "DetectingVersion" /\ PhaseOrder[2] = "Authenticating"
      /\ PhaseOrder[3] = "Exchanging" /\ PhaseOrder[4] = "Finished"
  BY DEF PhaseOrder
<1>2. 1..4 = {1, 2, 3, 4}
  OBVIOUS
<1>3. ASSUME NEW k \in 1..4 PROVE Rank(PhaseOrder[k]) = k
  <2>1. \A i \in 1..4 : PhaseOrder[i] = PhaseOrder[k] <=> i = k
    BY <1>1, <1>2
  <2> QED BY <2>1 DEF Rank
<1> QED BY <1>1, <1>3

\* What an action is made of.
LEMMA ActionIs ==
  /\ \A k, x : Action(k, x).kind = k /\ Action(k, x).arg = x
  /\ \A x : /\ Phase(x) = Action("Phase", x)
            /\ SetTimer(x) = Action("SetTimer", x)
            /\ Write(x) = Action("Write", x)
  BY DEF Action, Phase, SetTimer, Write

LEMMA PlaceRange == \A a, flow : Place(a, flow) \in 1..13
  BY DEF Place

LEMMA Places ==
  ASSUME NEW flow
  PROVE  /\ Place(Phase("DetectingVersion"), flow) = 1
         /\ \A x : /\ Place(Action("AnnounceAppProtocol", x), flow) = 2
                   /\ Place(Action("ReadProtocolInfo", x), flow) = 3
                   /\ Place(Action("Subscribe", x), flow) = 4
                   /\ Place(Action("Note", x), flow) = 6
                   /\ Place(Write(x), flow) = 8
                   /\ Place(Action("Pause", x), flow) = 10
                   /\ Place(SetTimer(x), flow) = 11
                   /\ Place(Action("Done", x), flow) = 13
         /\ Place(Phase("Authenticating"), flow) = 5
         /\ Place(Phase("Exchanging"), flow) = IF flow = "V0100" THEN 7 ELSE 9
         /\ Place(Phase("Finished"), flow) = 12
  BY ActionIs DEF Place

\* Phases are listed in the order the observer knows.
LEMMA PhasePlaces ==
  ASSUME NEW flow, NEW p \in PhaseNames, NEW q \in PhaseNames,
         Place(Phase(p), flow) < Place(Phase(q), flow)
  PROVE  Rank(p) < Rank(q)
<1>1. p \in {"DetectingVersion", "Authenticating", "Exchanging", "Finished"}
      /\ q \in {"DetectingVersion", "Authenticating", "Exchanging", "Finished"}
  BY DEF PhaseNames
<1> QED BY <1>1, Places, Ranks

-----------------------------------------------------------------------------
(* Queues *)

\* Any sequence is a queue.
LEMMA SequenceIsQueue ==
  ASSUME NEW T, NEW r \in Seq(T)
  PROVE  IsQueue(r)
<1> DEFINE U == {r[i] : i \in DOMAIN r}
<1>1. DOMAIN r = 1..Len(r) /\ Len(r) \in Nat /\ \A i \in 1..Len(r) : r[i] \in U
  OBVIOUS
<1> HIDE DEF U
<1>2. r \in Seq(U)
  BY <1>1
<1> QED BY <1>2 DEF IsQueue, U

\* The first is taken off; the others move up.
IsTail(q, r, first) ==
  /\ IsQueue(r) /\ Len(r) = Len(q) - 1 /\ Len(q) \in Nat
  /\ 1 \in DOMAIN q /\ first = q[1]
  /\ \A i \in DOMAIN r : i \in Int /\ i + 1 \in DOMAIN q \ {1} /\ r[i] = q[i + 1]
  /\ \A i \in DOMAIN q \ {1} : i > 1 /\ i - 1 \in DOMAIN r /\ r[i - 1] = q[i]
  /\ DOMAIN q = 1..Len(q)

LEMMA TakenOff ==
  ASSUME NEW q, IsQueue(q), q # <<>>
  PROVE  IsTail(q, Tail(q), Head(q))
<1>0. PICK r : r = Tail(q)
  OBVIOUS
<1> DEFINE T == {q[i] : i \in DOMAIN q}
<1>1. q \in Seq(T)
  BY DEF IsQueue
<1> HIDE DEF T
<1>2. /\ r \in Seq(T) /\ DOMAIN r = 1..(Len(q) - 1) /\ DOMAIN q = 1..Len(q)
      /\ Len(q) \in Nat \ {0} /\ Len(r) = Len(q) - 1 /\ Head(q) = q[1]
      /\ \A i \in 1..(Len(q) - 1) : r[i] = q[i + 1]
  BY <1>0, <1>1
<1>3. \A i \in DOMAIN r : i \in Int /\ i + 1 \in DOMAIN q \ {1} /\ r[i] = q[i + 1]
  BY <1>2
<1>4. \A i \in DOMAIN q \ {1} : i > 1 /\ i - 1 \in DOMAIN r /\ r[i - 1] = q[i]
  BY <1>2
<1>5. r \in Seq(T)
  BY <1>2
<1>6. IsQueue(r)
  BY <1>5, SequenceIsQueue
<1> QED BY <1>0, <1>2, <1>3, <1>4, <1>6 DEF IsTail

\* One more comes behind the others.
IsLonger(q, r, p) ==
  /\ IsQueue(r) /\ Len(q) \in Nat /\ Len(r) = Len(q) + 1 /\ r # <<>>
  /\ DOMAIN q = 1..Len(q) /\ DOMAIN r = 1..(Len(q) + 1)
  /\ \A i \in 1..Len(q) : r[i] = q[i]
  /\ r[Len(q) + 1] = p

LEMMA PutOn ==
  ASSUME NEW q, IsQueue(q), NEW p
  PROVE  IsLonger(q, Append(q, p), p)
<1>0. PICK r : r = Append(q, p)
  OBVIOUS
<1> DEFINE T == {q[i] : i \in DOMAIN q}
           U == T \cup {p}
<1>1. q \in Seq(T) /\ DOMAIN q = 1..Len(q) /\ Len(q) \in Nat
  BY DEF IsQueue
<1>2. q \in Seq(U) /\ p \in U
  BY <1>1
<1> HIDE DEF T, U
<1>3. /\ r \in Seq(U) /\ DOMAIN r = 1..(Len(q) + 1) /\ Len(r) = Len(q) + 1
      /\ r[Len(q) + 1] = p
      /\ \A i \in 1..Len(q) : r[i] = q[i]
  BY <1>0, <1>2
<1>4. r \in Seq(U) /\ r # <<>>
  BY <1>1, <1>3
<1>5. IsQueue(r)
  BY <1>4, SequenceIsQueue
<1> QED BY <1>0, <1>1, <1>3, <1>4, <1>5 DEF IsLonger

-----------------------------------------------------------------------------
(* What a poll hands over *)

\* Between two polls the phases have got as far as the state says.
LEMMA PollReached ==
  ASSUME PumpInv, pc = "poll"
  PROVE  /\ todo = <<>> /\ ~finished /\ result = None
         /\ state # "V0200" => ~exchanging
         /\ state # "V0100" => step = "AwaitingNonce"
         /\ Reached = IF state \in {"V0200", "V0100"}
                      THEN IF exchanging \/ step = "AwaitingResult" THEN 3 ELSE 2
                      ELSE IF state = "Detecting" THEN 1 ELSE 0
<1>1. todo = <<>> /\ ~finished /\ result = None /\ (state # "V0100" => step = "AwaitingNonce")
  BY DEF PumpInv, PlaceFits
<1>2. state # "V0200" => ~exchanging
  BY DEF PumpInv, SessionInv, NothingBeforeV0200, ExchangingIsAuthenticated
<1> QED BY <1>1, <1>2 DEF Reached, Begun

\* What is ahead is what the poll returned.
LEMMA AheadIs ==
  ASSUME PollSession, NEW S, Lists(actions', S, state')
  PROVE  /\ Ahead' = S /\ IsQueue(todo') /\ InOrder(todo', state')
         /\ \A k : AheadOf(k)' = {a \in S : a.kind = k}
<1>1. todo' = actions' /\ Ahead' = {todo'[i] : i \in DOMAIN todo'}
  BY DEF PollSession, Ahead
<1>2. Ahead' = S /\ InOrder(todo', state') /\ todo' \in Seq(S)
  BY <1>1 DEF Lists
<1>3. PICK t : t = todo'
  OBVIOUS
<1>4. IsQueue(t)
  BY <1>2, <1>3, SequenceIsQueue
<1> QED BY <1>2, <1>3, <1>4 DEF AheadOf, IsQueue

\* A poll keeps the invariant when its actions fit and nothing is missing.
LEMMA HandedOver ==
  ASSUME PumpInv, PollSession, SessionInv', NEW S, Lists(actions', S, state'),
         \A a \in S : ActionFits(a)',
         \A a \in S : a.kind = "Phase" => Reached < Rank(a.arg),
         Reached <= Reached', Reached' \in Nat,
         finished' => Phase("Finished") \in S /\ \E a \in S : a.kind = "Done",
         state' # "Idle", state' # "V0100" => step' = "AwaitingNonce",
         Begun => state' = state,
         state' = "Detecting" /\ ~finished' => \E a \in S : a.kind = "ReadProtocolInfo",
         TimersFit', WritesFit'
  PROVE  PumpInv'
<1>1. /\ Ahead' = S /\ IsQueue(todo') /\ InOrder(todo', state')
      /\ \A k : AheadOf(k)' = {a \in S : a.kind = k}
  BY AheadIs
<1>2. /\ pc = "poll" /\ pc' = "apply" /\ info' = <<>>
      /\ UNCHANGED <<pending, deadline, expired, result, phases,
                     link, subscribed, rx, sent, writes>>
  BY DEF PollSession, transportVars
<1>3. todo = <<>> /\ ~finished /\ result = None /\ Reached \in Nat
  BY <1>2, PollReached
<1>4. ListFits'
  BY <1>1 DEF ListFits
<1>5. PhasesFit'
  <2>1. PhasesFit
    BY DEF PumpInv
  <2>2. \A i \in DOMAIN phases :
          /\ phases[i] \in {PhaseOrder[k] : k \in 1..4}
          /\ Rank(phases[i]) \in Nat /\ Rank(phases[i]) <= Reached
    BY <2>1, Ranks, PhaseNamesListed DEF PhasesFit, PhaseNames
  <2>3. \A a \in AheadOf("Phase")' : /\ a \in S /\ a.kind = "Phase"
                                     /\ Rank(a.arg) \in Nat
    <3>1. \A a \in S : a.kind = "Phase" => a.arg \in {PhaseOrder[k] : k \in 1..4}
      BY DEF ActionFits
    <3> QED BY <1>1, <3>1, Ranks, PhaseNamesListed DEF PhaseNames
  <2>4. finished' => Phase("Finished") \in Ahead'
    BY <1>1
  <2>5. /\ IsQueue(phases')
        /\ \A i \in DOMAIN phases' : /\ phases'[i] \in {PhaseOrder[k] : k \in 1..4}
                                     /\ Rank(phases'[i]) <= Reached'
    BY <1>2, <1>3, <2>1, <2>2 DEF PhasesFit, IsQueue
  <2>6. \A i, j \in DOMAIN phases' : i < j => Rank(phases'[i]) < Rank(phases'[j])
    BY <1>2, <2>1 DEF PhasesFit
  <2>7. \A i \in DOMAIN phases', a \in AheadOf("Phase")' : Rank(phases'[i]) < Rank(a.arg)
    BY <1>2, <1>3, <2>2, <2>3
  <2> QED BY <1>2, <2>4, <2>5, <2>6, <2>7 DEF PhasesFit
<1>6. PlaceFits'
  BY <1>1, <1>2, <1>3 DEF PlaceFits, PumpInv
<1>7. TransportFits'
  <2>1. TransportFits
    BY DEF PumpInv
  <2>2. (\A i \in DOMAIN rx : PacketFits(rx[i]))'
    <3>1. CASE Begun
      <4>1. \A p : PacketFits(p) => PacketFits(p)'
        BY <3>1 DEF PacketFits
      <4> QED BY <1>2, <2>1, <4>1 DEF TransportFits
    <3>2. CASE ~Begun
      BY <1>2, <2>1, <3>2 DEF TransportFits
    <3> QED BY <3>1, <3>2
  <2>3. ~Begun' => ~Begun
    BY DEF Begun
  <2> QED BY <1>2, <2>1, <2>2, <2>3 DEF TransportFits, IsQueue
<1> QED BY <1>4, <1>5, <1>6, <1>7 DEF PumpInv

\* Which actions fit after a step.
LEMMA FitsNext ==
  /\ \A p \in PhaseNames : Rank(p) <= Reached' => ActionFits(Phase(p))'
  /\ \A x : state' = "Detecting" => /\ ActionFits(Action("AnnounceAppProtocol", x))'
                                    /\ ActionFits(Action("ReadProtocolInfo", x))'
  /\ \A x : Begun' => /\ ActionFits(Action("Subscribe", x))' /\ ActionFits(Action("Note", x))'
                      /\ ActionFits(Write(x))' /\ ActionFits(Action("Pause", x))'
  /\ \A t \in Timers : Begun' => ActionFits(SetTimer(t))'
  /\ \A r : finished' /\ Finishes(r)' => ActionFits(Action("Done", r))'
<1>1. \A p \in PhaseNames : Rank(p) <= Reached' => ActionFits(Phase(p))'
  BY ActionIs, PhaseNamesListed DEF ActionFits
<1>2. \A x : state' = "Detecting" => /\ ActionFits(Action("AnnounceAppProtocol", x))'
                                     /\ ActionFits(Action("ReadProtocolInfo", x))'
  BY ActionIs DEF ActionFits
<1>3. \A x : Begun' => /\ ActionFits(Action("Subscribe", x))' /\ ActionFits(Action("Note", x))'
                       /\ ActionFits(Write(x))' /\ ActionFits(Action("Pause", x))'
  BY ActionIs DEF ActionFits
<1>4. \A t \in Timers : Begun' => ActionFits(SetTimer(t))'
  BY ActionIs DEF ActionFits
<1>5. \A r : finished' /\ Finishes(r)' => ActionFits(Action("Done", r))'
  BY ActionIs DEF ActionFits
<1> QED BY <1>1, <1>2, <1>3, <1>4, <1>5

\* What finish appends.
Ending(r) == {Phase("Finished"), Action("Done", r)}

LEMMA FinishLists ==
  ASSUME NEW flow, NEW before, NEW S, Lists(before, S, flow),
         \A a \in S : Place(a, flow) < 12, NEW r, Finish(before, r)
  PROVE  Lists(actions', S \cup Ending(r), flow)
<1>1. Lists(<<Phase("Finished"), Action("Done", r)>>, Ending(r), flow)
  BY Places, ListsTwo DEF Ending
<1>2. \A a \in Ending(r) : Place(a, flow) \in {12, 13}
  BY Places DEF Ending
<1>3. \A a \in S, b \in Ending(r) : Place(a, flow) < Place(b, flow)
  BY <1>2, PlaceRange
<1> QED BY <1>1, <1>3, ListsBoth DEF Finish

\* How far the phases may have got once a poll is over.
LEMMA ReachedNext ==
  ASSUME pc' = "apply"
  PROVE  Reached' = IF finished' THEN 4
                    ELSE IF exchanging' \/ step' = "AwaitingResult" THEN 3
                    ELSE IF Begun' THEN 2 ELSE IF state' = "Detecting" THEN 1 ELSE 0
  BY DEF Reached

\* A poll that ends the session keeps the invariant.
LEMMA EndingKeepsPumpInv ==
  ASSUME PumpInv, PollSession, SessionInv', state # "Idle", UNCHANGED <<state, step>>,
         NEW before, NEW S, Lists(before, S, state),
         \A a \in S : /\ Place(a, state) < 12 /\ a.kind # "SetTimer"
                      /\ a.kind = "Phase" => Reached < Rank(a.arg)
                      /\ Reached' = 4 => ActionFits(a)',
         NEW r, Finish(before, r), Finishes(r)', r.err # None \/ WritesFit'
  PROVE  PumpInv'
<1> DEFINE U == S \cup Ending(r)
<1>1. /\ pc = "poll" /\ pc' = "apply" /\ finished' = TRUE
      /\ UNCHANGED <<deadline, expired, result>>
  BY DEF PollSession, Finish
<1>2. /\ ~finished /\ result = None /\ todo = <<>> /\ Reached \in 0..3
      /\ (state # "V0100" => step = "AwaitingNonce")
  BY <1>1, PollReached
<1>3. Lists(actions', U, state')
  BY FinishLists
<1>4. /\ Reached' = 4
      /\ Begun' = Begun
  BY <1>1, ReachedNext DEF Begun
<1>5. /\ Phase("Finished").kind = "Phase" /\ Phase("Finished").arg = "Finished"
      /\ Action("Done", r).kind = "Done" /\ Action("Done", r).arg = r
      /\ ActionFits(Phase("Finished"))' /\ ActionFits(Action("Done", r))'
  BY <1>1, <1>4, ActionIs, FitsNext, Ranks DEF PhaseNames
<1>6. \A k : AheadOf(k)' = {a \in U : a.kind = k}
  BY <1>3, AheadIs
<1>7. TimersFit'
  <2>1. AheadOf("SetTimer")' = {}
    BY <1>5, <1>6 DEF Ending
  <2>2. AheadOf("SetTimer") = {}
    BY <1>2 DEF AheadOf, Ahead
  <2> QED BY <1>1, <1>2, <1>4, <2>1, <2>2 DEF PumpInv, TimersFit
<1>8. WritesFit'
  <2>1. CASE r.err # None
    <3>1. Action("Done", r) \in AheadOf("Done")'
      BY <1>5, <1>6 DEF Ending
    <3>2. ~Sound'
      BY <1>5, <2>1, <3>1 DEF Sound
    <3> QED BY <3>2 DEF WritesFit
  <2> QED BY <2>1
<1>9. /\ \A a \in U : ActionFits(a)'
      /\ \A a \in U : a.kind = "Phase" => Reached < Rank(a.arg)
      /\ Phase("Finished") \in U /\ \E a \in U : a.kind = "Done"
  BY <1>2, <1>4, <1>5, Ranks DEF Ending
<1> HIDE DEF U
<1> QED BY <1>1, <1>2, <1>3, <1>4, <1>7, <1>8, <1>9, HandedOver

\* The bare ending.
LEMMA BareEndingKeepsPumpInv ==
  ASSUME PumpInv, PollSession, SessionInv', state # "Idle", UNCHANGED <<state, step>>,
         NEW r, Finish(<<>>, r), Finishes(r)', r.err # None \/ WritesFit'
  PROVE  PumpInv'
<1>1. Lists(<<>>, {}, state)
  BY ListsNothing
<1> QED BY <1>1, EndingKeepsPumpInv

\* Either flow begins, from Idle or from Detecting, or the version is unknown.
LEMMA BeginKeepsPumpInv ==
  ASSUME PumpInv, PollSession, SessionInv', state \in {"Idle", "Detecting"},
         NEW before, NEW D, \A flow : Lists(before, D, flow),
         D \subseteq {Phase("DetectingVersion")}, D # {} => state = "Idle",
         NEW major, Begin(before, major), state = "Idle" => major = None
  PROVE  PumpInv'
<1> DEFINE sub == Action("Subscribe", None)
           auth == Phase("Authenticating")
           start == before \o <<sub, auth>>
<1>1. /\ pc = "poll" /\ pc' = "apply"
      /\ UNCHANGED <<pending, deadline, expired, result, link, rx, sent, writes>>
  BY DEF PollSession, transportVars
<1>2. /\ ~finished /\ result = None /\ ~exchanging /\ step = "AwaitingNonce"
      /\ Reached = (IF state = "Detecting" THEN 1 ELSE 0) /\ ~Begun
  BY <1>1, PollReached DEF Begun
<1>3. /\ deadline = None /\ expired = FALSE
      /\ sent = 0 /\ rx = <<>> /\ Len(rx) = 0 /\ writes = 0
  BY <1>2 DEF PumpInv, TimersFit, TransportFits
<1>4. \A a \in D : a = Phase("DetectingVersion") /\ state = "Idle"
  OBVIOUS
<1>5. ASSUME NEW flow PROVE Lists(start, D \cup {sub, auth}, flow)
  <2>1. Lists(<<sub, auth>>, {sub, auth}, flow)
    BY Places, ListsTwo
  <2>2. \A a \in D, b \in {sub, auth} : Place(a, flow) < Place(b, flow)
    BY <1>4, Places
  <2> QED BY <2>1, <2>2, ListsBoth
<1>6. \A a \in D \cup {sub, auth} : a.kind \in {"Phase", "Subscribe"}
  BY <1>4, ActionIs
<1>7. \A a \in D \cup {sub, auth} : a.kind = "Phase" => Reached < Rank(a.arg)
  BY <1>2, <1>4, ActionIs, Ranks
<1>8. Begun' => \A a \in D \cup {sub, auth} : Reached' >= 2 => ActionFits(a)'
  <2> SUFFICES ASSUME Begun', Reached' >= 2, NEW a \in D \cup {sub, auth}
               PROVE  ActionFits(a)'
    OBVIOUS
  <2>1. Reached' \in Nat
    BY <1>1, ReachedNext
  <2>2. CASE a = Phase("DetectingVersion")
    BY <2>1, <2>2, FitsNext, Ranks DEF PhaseNames
  <2>3. CASE a = sub
    BY <2>3, FitsNext
  <2>4. CASE a = auth
    BY <2>1, <2>4, FitsNext, Ranks DEF PhaseNames
  <2> QED BY <1>4, <2>2, <2>3, <2>4
<1>9. \A flow : \A a \in D \cup {sub, auth} : Place(a, flow) <= 5
  BY <1>4, Places
<1> HIDE DEF sub, auth, start
<1>10. CASE BeginV0200(start)
  <2> DEFINE timer == SetTimer("FirstPacket")
             S == D \cup {sub, auth} \cup {timer}
  <2>1. /\ state' = "V0200" /\ ~finished' /\ ~exchanging' /\ step' = "AwaitingNonce"
        /\ actions' = start \o <<timer>>
    BY <1>2, <1>10 DEF BeginV0200
  <2>2. Lists(actions', S, state')
    <3>1. Lists(<<timer>>, {timer}, state')
      BY ListsOne
    <3>2. \A a \in D \cup {sub, auth}, b \in {timer} : Place(a, state') < Place(b, state')
      BY <1>4, Places DEF sub, auth
    <3> QED BY <1>5, <2>1, <3>1, <3>2, ListsBoth
  <2>3. Begun' /\ Reached' = 2
    BY <1>1, <2>1, ReachedNext DEF Begun
  <2>4. timer.kind = "SetTimer" /\ ActionFits(timer)'
    BY <2>3, ActionIs, FitsNext DEF Timers
  <2>5. \A k : AheadOf(k)' = {a \in S : a.kind = k}
    BY <2>2, AheadIs
  <2> HIDE DEF timer
  <2>6. TimersFit'
    <3>1. timer \in AheadOf("SetTimer")'
      BY <2>4, <2>5
    <3> QED BY <1>1, <1>3, <2>1, <3>1 DEF TimersFit
  <2>7. WritesFit'
    <3>1. AheadOf("Write")' = {}
      BY <1>6, <2>4, <2>5
    <3>2. Due' = 0 /\ Unanswered' = 0
      BY <1>1, <3>1 DEF Due, Unanswered
    <3>3. writes' = 0 /\ sent' = 0 /\ Len(rx') = 0
      BY <1>1, <1>3
    <3> QED BY <2>1, <3>2, <3>3 DEF WritesFit
  <2>8. /\ \A a \in S : ActionFits(a)'
        /\ \A a \in S : a.kind = "Phase" => Reached < Rank(a.arg)
    BY <1>7, <1>8, <2>3, <2>4
  <2>9. Reached <= Reached' /\ Reached' \in Nat
    BY <1>2, <2>3
  <2> HIDE DEF S
  <2> QED BY <1>2, <2>1, <2>2, <2>6, <2>7, <2>8, <2>9, HandedOver
<1>11. CASE BeginV0100(start)
  <2> DEFINE identify == Write("Identify")
             pause == Action("Pause", None)
             timer == SetTimer("FirstPacket")
             S == D \cup {sub, auth} \cup {identify, pause, timer}
  <2>1. /\ state' = "V0100" /\ ~finished' /\ ~exchanging' /\ step' = "AwaitingNonce"
        /\ actions' = start \o <<identify, pause, timer>>
    BY <1>2, <1>11 DEF BeginV0100, v0200Vars
  <2>2. Lists(actions', S, state')
    <3>1. Lists(<<identify, pause, timer>>, {identify, pause, timer}, state')
      <4>1. /\ Place(identify, state') = 8 /\ Place(pause, state') = 10
            /\ Place(timer, state') = 11
        BY Places
      <4> HIDE DEF identify, pause, timer
      <4> QED BY <4>1, ListsThree
    <3>2. \A a \in D \cup {sub, auth}, b \in {identify, pause, timer} :
            Place(a, state') < Place(b, state')
      BY <1>4, Places DEF sub, auth
    <3> QED BY <1>5, <2>1, <3>1, <3>2, ListsBoth
  <2>3. Begun' /\ Reached' = 2
    BY <1>1, <2>1, ReachedNext DEF Begun
  <2>4. /\ timer.kind = "SetTimer" /\ ActionFits(timer)'
        /\ pause.kind = "Pause" /\ ActionFits(pause)'
        /\ identify.kind = "Write" /\ ActionFits(identify)'
    BY <2>3, ActionIs, FitsNext DEF Timers
  <2>5. \A k : AheadOf(k)' = {a \in S : a.kind = k}
    BY <2>2, AheadIs
  <2>6. TimersFit'
    <3>1. AheadOf("SetTimer")' = {SetTimer("FirstPacket")}
      <4> HIDE DEF identify, pause
      <4> QED BY <1>6, <2>4, <2>5
    <3> QED BY <1>1, <1>3, <2>1, <3>1 DEF TimersFit
  <2> HIDE DEF identify, pause, timer
  <2>7. WritesFit'
    <3>1. identify \in AheadOf("Write")'
      BY <2>4, <2>5
    <3> QED BY <1>1, <1>3, <2>1, <3>1 DEF WritesFit, Due, Unanswered
  <2>8. /\ \A a \in S : ActionFits(a)'
        /\ \A a \in S : a.kind = "Phase" => Reached < Rank(a.arg)
    BY <1>7, <1>8, <2>3, <2>4
  <2>9. Reached <= Reached' /\ Reached' \in Nat
    BY <1>2, <2>3
  <2> HIDE DEF S
  <2> QED BY <1>2, <2>1, <2>2, <2>6, <2>7, <2>8, <2>9, HandedOver
<1>12. CASE /\ major # None
             /\ Finish(before, Err("InvalidProtocolVersion"))
             /\ UNCHANGED <<state, v0200Vars, step>>
  <2>1. PICK r : r = Err("InvalidProtocolVersion")
    OBVIOUS
  <2>2. /\ UNCHANGED <<state, finalOpResult, exchanging, step>> /\ finished'
        /\ Finish(before, r)
    BY <1>12, <2>1 DEF Finish, v0200Vars
  <2>3. r.err # None /\ Finishes(r)'
    <3>1. finalOpResult = None
      BY NoVerdictYet DEF PumpInv
    <3>2. "InvalidProtocolVersion" # None
      BY NoneAssumption DEF ErrorCode
    <3> QED BY <2>1, <2>2, <3>1, <3>2 DEF Finishes, Err
  <2>4. Lists(before, D, state)
    OBVIOUS
  <2>5. ASSUME NEW a \in D
        PROVE  /\ Place(a, state) < 12 /\ a.kind # "SetTimer"
               /\ a.kind = "Phase" => Reached < Rank(a.arg)
               /\ Reached' = 4 => ActionFits(a)'
    BY <1>2, <1>4, ActionIs, Places, Ranks, FitsNext DEF PhaseNames
  <2>6. state # "Idle"
    BY <1>12
  <2> QED BY <2>2, <2>3, <2>4, <2>5, <2>6, EndingKeepsPumpInv
<1> QED BY <1>10, <1>11, <1>12 DEF Begin, start, sub, auth

\* The first poll: the flow begins blind, or the protocol is read first.
LEMMA IdleKeepsPumpInv ==
  ASSUME PumpInv, PollSession, SessionInv', state = "Idle", PollIdle(pending)
  PROVE  PumpInv'
<1> DEFINE detecting == <<Phase("DetectingVersion")>>
           D == {Phase("DetectingVersion")}
<1>1. /\ pc = "poll" /\ pc' = "apply"
      /\ UNCHANGED <<pending, deadline, expired, result, link, rx, sent, writes>>
  BY DEF PollSession, transportVars
<1>2. /\ ~finished /\ result = None /\ ~exchanging /\ step = "AwaitingNonce" /\ Reached = 0
      /\ ~Begun
  BY <1>1, PollReached DEF Begun
<1>3. deadline = None /\ expired = FALSE
  BY <1>2 DEF PumpInv, TimersFit
<1>4. pending.kind = "Started"
  BY <1>1 DEF PumpInv, PlaceFits, Event, Begun
<1>5. \A flow : Lists(detecting, D, flow)
  BY ListsOne
<1>6. CASE Begin(detecting, None)
  <2> HIDE DEF detecting, D
  <2>1. D \subseteq {Phase("DetectingVersion")}
    BY DEF D
  <2> QED BY <1>5, <1>6, <2>1, BeginKeepsPumpInv
<1>7. ASSUME state' = "Detecting", UNCHANGED <<finished, v0200Vars, step>>,
             NEW announce, NEW N, N \subseteq {Action("AnnounceAppProtocol", None)},
             \A flow : Lists(announce, N, flow),
             actions' = detecting \o announce \o <<Action("ReadProtocolInfo", None)>>
      PROVE  PumpInv'
  <2> DEFINE read == Action("ReadProtocolInfo", None)
             S == (D \cup N) \cup {read}
  <2>1. /\ ~finished' /\ ~exchanging' /\ step' = "AwaitingNonce" /\ Reached' = 1 /\ ~Begun'
    BY <1>1, <1>2, <1>7, ReachedNext DEF v0200Vars, Begun
  <2>2. Lists(actions', S, state')
    <3> DEFINE place(a) == Place(a, state')
    <3>1. /\ \A a \in D : place(a) = 1
          /\ \A a \in N : place(a) = 2
          /\ place(read) = 3
      BY <1>7, Places
    <3>2. /\ \A a \in D, b \in N : place(a) < place(b)
          /\ \A a \in D \cup N, b \in {read} : place(a) < place(b)
      <4> HIDE DEF place, D, read
      <4> QED BY <3>1
    <3>3. Lists(<<read>>, {read}, state')
      BY ListsOne
    <3> HIDE DEF detecting, D, read
    <3>4. Lists(detecting \o announce, D \cup N, state')
      BY <1>5, <1>7, <3>2, ListsBoth
    <3>5. Lists((detecting \o announce) \o <<read>>, S, state')
      BY <3>2, <3>3, <3>4, ListsBoth
    <3> QED BY <1>7, <3>5 DEF read
  <2>3. \A a \in S : ActionFits(a)'
    BY <1>7, <2>1, FitsNext, Ranks DEF PhaseNames
  <2>4. \A a \in S : a.kind = "Phase" => Reached < Rank(a.arg)
    BY <1>2, <1>7, ActionIs, Ranks
  <2>5. read.kind = "ReadProtocolInfo" /\ read \in S
    BY ActionIs
  <2>6. TimersFit' /\ WritesFit'
    BY <1>1, <1>3, <1>7, <2>1 DEF TimersFit, WritesFit
  <2>7. Reached <= Reached' /\ Reached' \in Nat
    BY <1>2, <2>1
  <2> HIDE DEF S
  <2> QED BY <1>2, <1>7, <2>1, <2>2, <2>3, <2>4, <2>5, <2>6, <2>7, HandedOver
<1>8. CASE /\ state' = "Detecting" /\ UNCHANGED <<finished, v0200Vars, step>>
           /\ \/ actions' = detecting \o <<Action("AnnounceAppProtocol", None)>>
                            \o <<Action("ReadProtocolInfo", None)>>
              \/ actions' = detecting \o <<>> \o <<Action("ReadProtocolInfo", None)>>
  <2>1. PICK announce :
          /\ announce \in {<<Action("AnnounceAppProtocol", None)>>, <<>>}
          /\ actions' = detecting \o announce \o <<Action("ReadProtocolInfo", None)>>
    BY <1>8
  <2>2. CASE announce = <<>>
    BY <1>7, <1>8, <2>1, <2>2, ListsNothing
  <2>3. CASE announce = <<Action("AnnounceAppProtocol", None)>>
    BY <1>7, <1>8, <2>1, <2>3, ListsOne
  <2> QED BY <2>1, <2>2, <2>3
<1> QED BY <1>4, <1>6, <1>8 DEF PollIdle, detecting

\* The poll that is given the protocol info.
LEMMA DetectingKeepsPumpInv ==
  ASSUME PumpInv, PollSession, SessionInv', state = "Detecting", PollDetecting(pending)
  PROVE  PumpInv'
<1>1. pending.kind = "ProtocolInfo"
  BY DEF PumpInv, PlaceFits, Event, Begun, PollSession
<1>2. PICK major : Begin(<<>>, major)
  BY <1>1 DEF PollDetecting
<1> QED BY <1>2, BeginKeepsPumpInv, ListsNothing

-----------------------------------------------------------------------------
(* A poll of the v0200 flow *)

\* The answer to a packet, as a list.
AnswerMembers(r) ==
  (IF r.st.justin.refusals > traced THEN {Action("Note", "KnRefused")} ELSE {})
    \cup {Write(r.out)}
    \cup (IF ~exchanging /\ r.st.ssp.state = "InSession" THEN {Phase("Exchanging")} ELSE {})

LEMMA AnswerLists ==
  ASSUME NEW r
  PROVE  Lists(AnswerActions(r), AnswerMembers(r), "V0200")
<1>1. PICK note, N : /\ note = IF r.st.justin.refusals > traced
                               THEN <<Action("Note", "KnRefused")>> ELSE <<>>
                     /\ N = IF r.st.justin.refusals > traced
                            THEN {Action("Note", "KnRefused")} ELSE {}
  OBVIOUS
<1>2. PICK phase, P : /\ phase = IF ~exchanging /\ r.st.ssp.state = "InSession"
                                 THEN <<Phase("Exchanging")>> ELSE <<>>
                      /\ P = IF ~exchanging /\ r.st.ssp.state = "InSession"
                             THEN {Phase("Exchanging")} ELSE {}
  OBVIOUS
<1>3. PICK w : w = Write(r.out)
  OBVIOUS
<1>4. /\ Lists(note, N, "V0200") /\ Lists(<<w>>, {w}, "V0200") /\ Lists(phase, P, "V0200")
  BY <1>1, <1>2, ListsNothing, ListsOne
<1>5. /\ \A a \in N : Place(a, "V0200") = 6
      /\ \A a \in P : Place(a, "V0200") = 9
      /\ Place(w, "V0200") = 8
  BY <1>1, <1>2, <1>3, Places
<1>6. Lists(note \o <<w>>, N \cup {w}, "V0200")
  BY <1>4, <1>5, ListsBoth
<1>7. Lists((note \o <<w>>) \o phase, (N \cup {w}) \cup P, "V0200")
  BY <1>4, <1>5, <1>6, ListsBoth
<1>8. AnswerActions(r) = (note \o <<w>>) \o phase /\ AnswerMembers(r) = (N \cup {w}) \cup P
  BY <1>1, <1>2, <1>3 DEF AnswerActions, AnswerMembers
<1> QED BY <1>7, <1>8

\* Each action of the answer fits, and its phase is news.
LEMMA AnswerFits ==
  ASSUME NEW r, Begun', Reached' \in Nat, ~exchanging /\ r.st.ssp.state = "InSession" =>
           3 <= Reached' /\ Reached = 2
  PROVE  \A a \in AnswerMembers(r) :
           /\ ActionFits(a)'
           /\ Place(a, "V0200") <= 9
           /\ a.kind \notin {"SetTimer", "Done"}
           /\ a.kind = "Phase" => Reached < Rank(a.arg)
<1> SUFFICES ASSUME NEW a \in AnswerMembers(r)
             PROVE  /\ ActionFits(a)' /\ Place(a, "V0200") <= 9
                    /\ a.kind \notin {"SetTimer", "Done"}
                    /\ a.kind = "Phase" => Reached < Rank(a.arg)
  OBVIOUS
<1>1. CASE a = Action("Note", "KnRefused")
  <2>1. /\ Place(a, "V0200") = 6 /\ a.kind = "Note" /\ ActionFits(a)'
    BY <1>1, ActionIs, FitsNext, Places
  <2> QED BY <2>1
<1>2. CASE a = Write(r.out)
  <2>1. /\ Place(a, "V0200") = 8 /\ a.kind = "Write" /\ ActionFits(a)'
    BY <1>2, ActionIs, FitsNext, Places
  <2> QED BY <2>1
<1>3. CASE a = Phase("Exchanging") /\ ~exchanging /\ r.st.ssp.state = "InSession"
  <2>1. /\ Rank("Exchanging") = 3 /\ "Exchanging" \in PhaseNames
        /\ Place(a, "V0200") = 9 /\ a.kind = "Phase" /\ a.arg = "Exchanging"
    BY <1>3, ActionIs, Places, Ranks DEF PhaseNames
  <2>2. ActionFits(a)'
    BY <1>3, <2>1, FitsNext
  <2> QED BY <1>3, <2>1, <2>2
<1> QED BY <1>1, <1>2, <1>3 DEF AnswerMembers

\* The bookkeeping of a v0200 answer: the packet that was taken is written.
LEMMA AnswerBooked ==
  ASSUME PumpInv, PollSession, state = "V0200", state' = "V0200",
         pending.kind = "Notification", AheadOf("Write")' # {}
  PROVE  WritesFit'
<1>1. /\ pc = "poll" /\ pc' = "apply" /\ UNCHANGED <<result, rx, sent, writes>>
  BY DEF PollSession, transportVars
<1>2. todo = <<>> /\ result = None
  BY <1>1, PollReached
<1>3. AheadOf("Write") = {} /\ Sound
  BY <1>2 DEF AheadOf, Ahead, Sound
<1>4. Due = 0 /\ Unanswered = 1 /\ Due' = 1 /\ Unanswered' = 0
  BY <1>1, <1>3 DEF Due, Unanswered
<1>5. writes + Due + Unanswered = sent - Len(rx) /\ writes \in Nat
  BY <1>3 DEF PumpInv, WritesFit, TransportFits
<1> QED BY <1>1, <1>4, <1>5 DEF WritesFit

\* A packet that is answered.
LEMMA AnswerKeepsPumpInv ==
  ASSUME PumpInv, PollSession, SessionInv', state = "V0200",
         pending.kind = "Notification", NEW p, NEW r, AnswerPacket(p, r)
  PROVE  PumpInv'
<1> DEFINE M == AnswerMembers(r)
<1>1. /\ pc = "poll" /\ pc' = "apply" /\ UNCHANGED <<deadline, expired, result>>
  BY DEF PollSession
<1>2. /\ ~finished /\ result = None /\ todo = <<>> /\ step = "AwaitingNonce"
      /\ Reached = (IF exchanging THEN 3 ELSE 2)
  BY <1>1, PollReached
<1>3. /\ state' = "V0200" /\ step' = "AwaitingNonce" /\ Begun'
      /\ exchanging => exchanging'
      /\ ~exchanging /\ r.st.ssp.state = "InSession" => exchanging'
  BY <1>2 DEF AnswerPacket, Begun, Finish
<1>4. Reached' = (IF finished' THEN 4 ELSE IF exchanging' THEN 3 ELSE 2)
  BY <1>1, <1>3, ReachedNext
<1>5. \A a \in M : /\ ActionFits(a)' /\ Place(a, state) <= 9
                   /\ a.kind \notin {"SetTimer", "Done"}
                   /\ a.kind = "Phase" => Reached < Rank(a.arg)
  <2>1. Reached' \in Nat
    BY <1>4
  <2>2. ~exchanging /\ r.st.ssp.state = "InSession" => 3 <= Reached' /\ Reached = 2
    BY <1>2, <1>3, <1>4
  <2> QED BY <1>3, <2>1, <2>2, AnswerFits
<1>6. Lists(AnswerActions(r), M, state) /\ Write(r.out) \in M /\ Write(r.out).kind = "Write"
  BY AnswerLists, ActionIs DEF AnswerMembers
<1> HIDE DEF M
<1>7. CASE finished'
  <2>1. PICK v : v = Ok(OutcomeOf(2, Latch(r.st.justin.audit)))
    OBVIOUS
  <2>2. /\ Finish(AnswerActions(r), v) /\ finalOpResult' = Latch(r.st.justin.audit)
    BY <1>2, <1>7, <2>1 DEF AnswerPacket, AnswerActions
  <2>3. Finishes(v)'
    BY <1>3, <2>1, <2>2 DEF Finishes
  <2>4. Lists(actions', M \cup Ending(v), state')
    <3>1. \A a \in M : Place(a, state) < 12
      BY <1>5, PlaceRange
    <3> QED BY <1>3, <1>6, <2>2, <3>1, FinishLists
  <2>5. WritesFit'
    <3>1. Write(r.out) \in AheadOf("Write")'
      BY <1>6, <2>4, AheadIs
    <3> QED BY <1>3, <3>1, AnswerBooked
  <2>6. \A a \in M : /\ Place(a, state) < 12 /\ a.kind # "SetTimer"
                     /\ a.kind = "Phase" => Reached < Rank(a.arg)
                     /\ Reached' = 4 => ActionFits(a)'
    BY <1>5, PlaceRange
  <2> QED BY <1>2, <1>3, <1>6, <2>2, <2>3, <2>5, <2>6, EndingKeepsPumpInv
<1>8. CASE ~finished'
  <2>1. PICK timer : timer = SetTimer(NextWait(Latch(r.st.justin.audit), FALSE))
    OBVIOUS
  <2> DEFINE S == M \cup {timer}
  <2>2. actions' = AnswerActions(r) \o <<timer>>
    BY <1>8, <2>1 DEF AnswerPacket, AnswerActions, Finish
  <2>3. timer.kind = "SetTimer" /\ ActionFits(timer)' /\ \A flow : Place(timer, flow) = 11
    BY <1>3, <2>1, ActionIs, FitsNext, Places DEF NextWait, Timers
  <2>4. Lists(actions', S, state')
    <3>1. \A a \in M, b \in {timer} : Place(a, state) < Place(b, state)
      BY <1>5, <2>3, PlaceRange
    <3> QED BY <1>3, <1>6, <2>2, <3>1, ListsOne, ListsBoth
  <2>5. \A k : AheadOf(k)' = {a \in S : a.kind = k}
    BY <2>4, AheadIs
  <2>6. TimersFit'
    <3>1. timer \in AheadOf("SetTimer")'
      BY <2>3, <2>5
    <3> QED BY <1>1, <1>3, <3>1 DEF TimersFit, PumpInv
  <2>7. WritesFit'
    <3>1. Write(r.out) \in AheadOf("Write")'
      BY <1>6, <2>5
    <3> QED BY <1>3, <3>1, AnswerBooked
  <2>8. /\ \A a \in S : ActionFits(a)'
        /\ \A a \in S : a.kind = "Phase" => Reached < Rank(a.arg)
    BY <1>5, <2>3
  <2>9. Reached <= Reached' /\ Reached' \in Nat
    BY <1>2, <1>3, <1>4, <1>8
  <2> HIDE DEF S
  <2> QED BY <1>3, <1>8, <2>4, <2>6, <2>7, <2>8, <2>9, HandedOver
<1> QED BY <1>7, <1>8

\* The bookkeeping of a poll that took no packet.
LEMMA NothingTaken ==
  ASSUME PumpInv, PollSession, UNCHANGED <<state, step>>, AheadOf("Write")' = {},
         state = "V0100" \/ pending.kind # "Notification"
  PROVE  WritesFit'
<1>1. /\ pc = "poll" /\ pc' = "apply" /\ UNCHANGED <<result, rx, sent, writes>>
  BY DEF PollSession, transportVars
<1>2. todo = <<>> /\ result = None
  BY <1>1, PollReached
<1>3. AheadOf("Write") = {} /\ Sound
  BY <1>2 DEF AheadOf, Ahead, Sound
<1>4. Due = 0 /\ Due' = 0 /\ Unanswered' = 0
      /\ (state = "V0200" => Unanswered = 0)
  BY <1>1, <1>3 DEF Due, Unanswered
<1>5. CASE state = "V0200"
  <2>1. writes + Due + Unanswered = sent - Len(rx)
    BY <1>3, <1>5 DEF PumpInv, WritesFit
  <2> QED BY <1>1, <1>4, <1>5, <2>1 DEF WritesFit
<1>6. CASE state = "V0100"
  <2>1. writes + Due = IF step = "AwaitingNonce" THEN 1 ELSE 2
    BY <1>3, <1>6 DEF PumpInv, WritesFit
  <2> QED BY <1>1, <1>4, <1>6, <2>1 DEF WritesFit
<1>7. CASE state \notin {"V0200", "V0100"}
  BY <1>7 DEF WritesFit
<1> QED BY <1>5, <1>6, <1>7

\* What the bare ending leaves to write.
LEMMA BareEndingWrites ==
  ASSUME PumpInv, PollSession, UNCHANGED <<state, step>>, NEW r, Finish(<<>>, r),
         state = "V0100" \/ pending.kind # "Notification"
  PROVE  WritesFit'
<1>1. Lists(<<>>, {}, state')
  BY ListsNothing
<1>2. Lists(actions', {} \cup Ending(r), state')
  BY <1>1, FinishLists
<1>3. \A a \in {} \cup Ending(r) : a.kind # "Write"
  BY ActionIs DEF Ending
<1>4. AheadOf("Write")' = {}
  BY <1>2, <1>3, AheadIs
<1> QED BY <1>4, NothingTaken

\* An error of the session that can come at any time.
LEMMA LoudFinish ==
  ASSUME NEW e, \/ e \in PacketErrors
                \/ e \in {"Timeout", "Disconnected", "InvalidData"} /\ finalOpResult' = None
  PROVE  Finishes(Err(e))' /\ Err(e).err # None
<1>1. e # None
  BY NoneAssumption DEF ErrorCode, PacketErrors
<1>2. /\ e \in {"Timeout", "Disconnected", "InvalidData", "InvalidState", "InvalidCrc",
                "AuthenticationFailed", "InvalidProtocolVersion"}
      /\ finalOpResult' # None => e \notin {"Timeout", "Disconnected"}
  BY DEF PacketErrors
<1> QED BY <1>1, <1>2 DEF Finishes, Err

\* A poll of the v0200 flow.
LEMMA V0200KeepsPumpInv ==
  ASSUME PumpInv, PollSession, SessionInv', state = "V0200", PollV0200(pending)
  PROVE  PumpInv'
<1>1. pending.kind \in {"Notification", "Timer", "LinkClosed"}
  BY DEF PumpInv, PlaceFits, Event, PollSession
<1>2. CASE \E randomB \in Randoms : RejectPacket(HandlePacket(stack, pending.arg, randomB))
  <2>1. PICK randomB \in Randoms : RejectPacket(HandlePacket(stack, pending.arg, randomB))
    BY <1>2
  <2>2. PICK e : e = HandlePacket(stack, pending.arg, randomB).err
    OBVIOUS
  <2>3. /\ e \in PacketErrors /\ Finish(<<>>, Err(e)) /\ UNCHANGED <<state, step>>
    BY <2>1, <2>2, HandlePacketErrors DEF RejectPacket
  <2> QED BY <2>3, LoudFinish, BareEndingKeepsPumpInv
<1>3. CASE pending.kind = "Notification" /\
           \E randomB \in Randoms :
             AnswerPacket(pending.arg, HandlePacket(stack, pending.arg, randomB))
  <2>1. PICK randomB \in Randoms :
          AnswerPacket(pending.arg, HandlePacket(stack, pending.arg, randomB))
    BY <1>3
  <2>2. PICK p, r : p = pending.arg /\ r = HandlePacket(stack, pending.arg, randomB)
    OBVIOUS
  <2> QED BY <1>3, <2>1, <2>2, AnswerKeepsPumpInv
<1>4. CASE pending.kind # "Notification"
  <2>1. PICK r :
          /\ \/ r = Ok(OutcomeOf(2, finalOpResult))
             \/ r = Err("Timeout") /\ finalOpResult = None
          /\ Finish(<<>>, r) /\ UNCHANGED <<state, step, finalOpResult>>
    BY <1>1, <1>4 DEF PollV0200, Expire0200, Close0200, v0200Vars
  <2>2. Finishes(r)'
    <3>1. CASE r = Ok(OutcomeOf(2, finalOpResult))
      BY <2>1, <3>1 DEF Finishes
    <3>2. CASE r = Err("Timeout") /\ finalOpResult = None
      BY <2>1, <3>2, LoudFinish
    <3> QED BY <2>1, <3>1, <3>2
  <2>3. WritesFit'
    BY <1>4, <2>1, BareEndingWrites
  <2> QED BY <2>1, <2>2, <2>3, BareEndingKeepsPumpInv
<1> QED BY <1>1, <1>2, <1>3, <1>4 DEF PollV0200

-----------------------------------------------------------------------------
(* A poll of the v0100 flow *)

\* The nonce is signed: the second write and the second timer.
LEMMA SignKeepsPumpInv ==
  ASSUME PumpInv, PollSession, SessionInv', state = "V0100", step = "AwaitingNonce",
         UNCHANGED <<state, v0200Vars, finished>>, step' = "AwaitingResult",
         actions' = <<Phase("Exchanging"), Write("SignedNonce"), SetTimer("Packet")>>
  PROVE  PumpInv'
<1>1. PICK exch, write, timer : /\ exch = Phase("Exchanging") /\ write = Write("SignedNonce")
                                /\ timer = SetTimer("Packet")
  OBVIOUS
<1> DEFINE S == {exch, write, timer}
<1>2. /\ pc = "poll" /\ pc' = "apply"
      /\ UNCHANGED <<deadline, expired, result, rx, sent, writes>>
  BY DEF PollSession, transportVars
<1>3. /\ ~finished /\ result = None /\ todo = <<>> /\ ~exchanging /\ Reached = 2
  BY <1>2, PollReached
<1>4. Reached' = 3 /\ Begun'
  BY <1>2, <1>3, ReachedNext DEF v0200Vars, Begun
<1>5. Lists(actions', S, state')
  <2>1. Place(exch, state') = 7 /\ Place(write, state') = 8 /\ Place(timer, state') = 11
    BY <1>1, Places
  <2> QED BY <1>1, <2>1, ListsThree
<1>6. /\ exch.kind = "Phase" /\ exch.arg = "Exchanging" /\ ActionFits(exch)'
      /\ write.kind = "Write" /\ ActionFits(write)'
      /\ timer.kind = "SetTimer" /\ ActionFits(timer)'
  BY <1>1, <1>4, ActionIs, FitsNext, Ranks DEF Timers, PhaseNames
<1>7. \A k : AheadOf(k)' = {a \in S : a.kind = k}
  BY <1>5, AheadIs
<1>8. AheadOf("SetTimer") = {} /\ AheadOf("Write") = {} /\ Sound
  BY <1>3 DEF AheadOf, Ahead, Sound
<1>9. TimersFit'
  <2>1. AheadOf("SetTimer")' = {SetTimer("Packet")}
    BY <1>1, <1>6, <1>7
  <2>2. /\ deadline \in Timers \cup {None} /\ expired \in BOOLEAN
        /\ deadline = None => ~expired
    BY DEF PumpInv, TimersFit
  <2>3. deadline = "FirstPacket"
    <3>1. SetTimer("FirstPacket") \notin AheadOf("SetTimer")
      BY <1>8
    <3> QED BY <3>1 DEF PumpInv, TimersFit
  <2> QED BY <1>2, <1>4, <2>1, <2>2, <2>3 DEF TimersFit
<1>10. WritesFit'
  <2>1. AheadOf("Write")' # {}
    BY <1>6, <1>7
  <2>2. writes + Due = 1 /\ Due = 0 /\ Due' = 1 /\ writes \in Nat
    BY <1>8, <2>1 DEF PumpInv, WritesFit, Due, TransportFits
  <2> QED BY <1>2, <2>2 DEF WritesFit
<1>11. /\ \A a \in S : ActionFits(a)'
       /\ \A a \in S : a.kind = "Phase" => Reached < Rank(a.arg)
  BY <1>3, <1>6, Ranks
<1>12. Reached <= Reached' /\ Reached' \in Nat
  BY <1>3, <1>4
<1> HIDE DEF S
<1> QED BY <1>3, <1>5, <1>9, <1>10, <1>11, <1>12, HandedOver

\* Noise: nothing to do.
LEMMA NoiseKeepsPumpInv ==
  ASSUME PumpInv, PollSession, SessionInv', state = "V0100",
         UNCHANGED <<state, v0200Vars, finished, step>>, actions' = <<>>
  PROVE  PumpInv'
<1>1. /\ pc = "poll" /\ pc' = "apply"
      /\ UNCHANGED <<deadline, expired, result, rx, sent, writes>>
  BY DEF PollSession, transportVars
<1>2. /\ ~finished /\ result = None /\ todo = <<>> /\ ~exchanging
      /\ Reached = IF step = "AwaitingResult" THEN 3 ELSE 2
  BY <1>1, PollReached
<1>3. Reached' = Reached
  BY <1>1, <1>2, ReachedNext DEF v0200Vars, Begun
<1>4. Lists(actions', {}, state')
  BY ListsNothing
<1>5. \A k : AheadOf(k)' = {}
  BY <1>4, AheadIs
<1>6. AheadOf("SetTimer") = {}
  BY <1>2 DEF AheadOf, Ahead
<1>7. TimersFit'
  BY <1>1, <1>2, <1>5, <1>6 DEF PumpInv, TimersFit, Begun
<1>8. WritesFit'
  BY <1>5, NothingTaken
<1>9. Reached \in Nat
  BY <1>2
<1> QED BY <1>2, <1>3, <1>4, <1>7, <1>8, <1>9, HandedOver

LEMMA V0100KeepsPumpInv ==
  ASSUME PumpInv, PollSession, SessionInv', state = "V0100", PollV0100(pending)
  PROVE  PumpInv'
<1>1. pending.kind \in {"Notification", "Timer", "LinkClosed"}
  BY DEF PumpInv, PlaceFits, Event, PollSession
<1>2. finalOpResult = None
  BY NoVerdictYet DEF PumpInv
<1>3. CASE IgnoreNoise(pending.arg)
  BY <1>3, NoiseKeepsPumpInv DEF IgnoreNoise
<1>4. CASE SignNonce(pending.arg) /\ actions' = <<Phase("Exchanging"), Write("SignedNonce"),
                                                  SetTimer("Packet")>>
           /\ step' = "AwaitingResult" /\ UNCHANGED finished
  BY <1>4, SignKeepsPumpInv DEF SignNonce
<1>5. ASSUME NEW r, Finish(<<>>, r), UNCHANGED <<state, step, v0200Vars>>,
             \/ \E e \in {"Timeout", "Disconnected", "InvalidData"} : r = Err(e)
             \/ step = "AwaitingResult" /\ \E op \in Byte : r = Ok(OutcomeOf(1, op))
      PROVE  PumpInv'
  <2>1. finalOpResult' = None
    BY <1>2, <1>5 DEF v0200Vars
  <2>2. Finishes(r)'
    <3>1. CASE \E e \in {"Timeout", "Disconnected", "InvalidData"} : r = Err(e)
      BY <2>1, <3>1, LoudFinish
    <3>2. CASE step = "AwaitingResult" /\ \E op \in Byte : r = Ok(OutcomeOf(1, op))
      BY <1>5, <3>2 DEF Finishes
    <3> QED BY <1>5, <3>1, <3>2
  <2>3. WritesFit'
    BY <1>5, BareEndingWrites
  <2> QED BY <1>5, <2>2, <2>3, BareEndingKeepsPumpInv
<1>6. CASE SignNonce(pending.arg) /\ Finish(<<>>, Err("InvalidData")) /\ UNCHANGED step
  BY <1>5, <1>6 DEF SignNonce
<1>7. CASE pending.kind = "Notification" /\ TakeResult(pending.arg)
  <2>1. pending.arg.op \in Byte
    <3>1. pending.arg \in Packets0100
      BY <1>7 DEF PumpInv, TransportFits, PacketFits, PollSession
    <3> QED BY <3>1, SessionAssumption
  <2> QED BY <1>5, <1>7, <2>1 DEF TakeResult
<1>8. CASE pending.kind # "Notification"
  BY <1>1, <1>5, <1>8 DEF PollV0100, Disconnected
<1> QED BY <1>1, <1>3, <1>4, <1>6, <1>7, <1>8 DEF PollV0100, SignNonce

\* Whatever the session is given, what it hands over keeps the invariant.
LEMMA PollSessionKeeps == ASSUME PumpInv, PollSession PROVE PumpInv'
<1>1. ~finished /\ pending.kind # "Aborted" /\ Poll(pending)
  BY PollReached DEF PollSession, PumpInv, TransportFits
<1>2. SessionInv'
  <2>1. EventOK(pending)
    BY DEF EventOK, PollSession, PumpInv, TransportFits, PacketFits
  <2> QED BY <1>1, <2>1, PollKeepsInv DEF PumpInv
<1> QED BY <1>1, <1>2, IdleKeepsPumpInv, DetectingKeepsPumpInv, V0200KeepsPumpInv,
           V0100KeepsPumpInv
        DEF Poll, PollFinished, Abort, Dispatch

-----------------------------------------------------------------------------
(* One action is applied *)

\* The first of a list is taken; the rest comes later.
IsRest(q, r, first, flow) ==
  /\ IsQueue(r) /\ InOrder(r, flow)
  /\ {r[i] : i \in DOMAIN r} = {q[i] : i \in DOMAIN q} \ {first}
  /\ first \in {q[i] : i \in DOMAIN q}
  /\ \A i \in DOMAIN r : Place(first, flow) < Place(r[i], flow)

LEMMA HeadTaken ==
  ASSUME NEW q, IsQueue(q), q # <<>>, NEW flow, InOrder(q, flow)
  PROVE  IsRest(q, Tail(q), Head(q), flow)
<1>1. PICK r, h : r = Tail(q) /\ h = Head(q) /\ IsTail(q, r, h)
  BY TakenOff
<1>2. SUFFICES IsRest(q, r, h, flow)
  BY <1>1
<1>3. IsTail(q, r, h)
  BY <1>1
<1>4. InOrder(r, flow)
  <2> SUFFICES ASSUME NEW i \in DOMAIN r, NEW j \in DOMAIN r, i < j
               PROVE  Place(r[i], flow) < Place(r[j], flow)
    BY DEF InOrder
  <2>1. /\ i + 1 \in DOMAIN q /\ j + 1 \in DOMAIN q /\ i + 1 < j + 1
        /\ r[i] = q[i + 1] /\ r[j] = q[j + 1]
    BY <1>3 DEF IsTail
  <2>2. Place(q[i + 1], flow) < Place(q[j + 1], flow)
    BY <2>1 DEF InOrder
  <2> QED BY <2>1, <2>2
<1>5. \A i \in DOMAIN q \ {1} : Place(h, flow) < Place(q[i], flow)
  BY <1>3 DEF IsTail, InOrder
<1>6. \A i \in DOMAIN r : Place(h, flow) < Place(r[i], flow)
  BY <1>3, <1>5 DEF IsTail
<1>7. \A i \in DOMAIN q \ {1} : q[i] # h
  BY <1>5, PlaceRange
<1>8. {r[i] : i \in DOMAIN r} = {q[i] : i \in DOMAIN q} \ {h}
  <2>1. \A x : (\E i \in DOMAIN r : x = r[i]) <=> \E i \in DOMAIN q \ {1} : x = q[i]
    BY <1>3 DEF IsTail
  <2>2. \A x : (\E i \in DOMAIN q \ {1} : x = q[i]) <=>
               (x # h /\ \E i \in DOMAIN q : x = q[i])
    <3>1. h = q[1]
      BY <1>3 DEF IsTail
    <3> QED BY <1>7, <3>1
  <2> DEFINE R == {r[i] : i \in DOMAIN r}
             Q == {q[i] : i \in DOMAIN q} \ {h}
  <2>3. \A x : x \in R <=> x \in Q
    BY <2>1, <2>2
  <2> HIDE DEF R, Q
  <2>4. R = Q
    BY <2>3
  <2> QED BY <2>4 DEF R, Q
<1>9. h \in {q[i] : i \in DOMAIN q} /\ IsQueue(r)
  BY <1>3 DEF IsTail
<1> QED BY <1>4, <1>6, <1>8, <1>9 DEF IsRest

\* What applying an action does to the list.
LEMMA Taken ==
  ASSUME PumpInv, NEW kind, Apply(kind)
  PROVE  /\ pc = "apply" /\ result = None /\ UNCHANGED sessionVars
         /\ Head(todo) \in Ahead /\ Head(todo).kind = kind /\ ActionFits(Head(todo))
         /\ Ahead' = Ahead \ {Head(todo)}
         /\ \A k : AheadOf(k)' = AheadOf(k) \ {Head(todo)}
         /\ \A k : k # kind => AheadOf(k)' = AheadOf(k)
         /\ \A a \in Ahead' : Place(Head(todo), state) < Place(a, state)
         /\ IsQueue(todo') /\ InOrder(todo', state') /\ state' = state
         /\ (finished => AheadOf("Done") # {})
<1>1. /\ pc = "apply" /\ todo # <<>> /\ Head(todo).kind = kind /\ todo' = Tail(todo)
      /\ UNCHANGED sessionVars
  BY DEF Apply
<1>2. /\ IsQueue(todo) /\ InOrder(todo, state) /\ \A a \in Ahead : ActionFits(a)
      /\ (finished => AheadOf("Done") # {}) /\ result = None
  BY <1>1 DEF PumpInv, ListFits, PlaceFits
<1>3. PICK q, r, flow : q = todo /\ r = todo' /\ flow = state
  OBVIOUS
<1>4. IsRest(q, r, Head(todo), flow)
  BY <1>1, <1>2, <1>3, HeadTaken
<1>5. Ahead = {q[i] : i \in DOMAIN q} /\ Ahead' = {r[i] : i \in DOMAIN r}
  BY <1>3 DEF Ahead
<1>6. /\ Ahead' = Ahead \ {Head(todo)} /\ Head(todo) \in Ahead
      /\ \A a \in Ahead' : Place(Head(todo), state) < Place(a, state)
  BY <1>3, <1>4, <1>5 DEF IsRest
<1>7. \A k : AheadOf(k)' = AheadOf(k) \ {Head(todo)}
  BY <1>6 DEF AheadOf
<1>8. \A k : k # kind => AheadOf(k)' = AheadOf(k)
  BY <1>1, <1>7 DEF AheadOf
<1>9. state' = state
  BY <1>1 DEF sessionVars
<1>10. IsQueue(todo') /\ InOrder(todo', state')
  BY <1>3, <1>4, <1>9 DEF IsQueue, IsRest
<1> QED BY <1>1, <1>2, <1>6, <1>7, <1>8, <1>9, <1>10

\* Nothing about the session has changed.
LEMMA SessionSame ==
  ASSUME PumpInv, UNCHANGED sessionVars
  PROVE  /\ SessionInv'
         /\ UNCHANGED <<state, finished, step, finalOpResult, exchanging>>
         /\ Begun' = Begun
         /\ \A r : Finishes(r) => Finishes(r)'
         /\ \A p : PacketFits(p) => PacketFits(p)'
<1>1. SessionInv'
  BY StutterKeepsInv DEF PumpInv
<1>2. UNCHANGED <<state, finished, step, finalOpResult, exchanging>>
  BY DEF sessionVars, v0200Vars
<1> QED BY <1>1, <1>2 DEF Begun, Finishes, PacketFits

LEMMA ReachedSame ==
  ASSUME PumpInv, UNCHANGED sessionVars,
         pc \notin {"disconnect", "returned"}, pc' \notin {"disconnect", "returned"}
  PROVE  /\ Reached' = Reached /\ Reached \in 0..4
         /\ \A a : ActionFits(a) => ActionFits(a)'
<1>1. /\ UNCHANGED <<state, finished, step, exchanging>> /\ Begun' = Begun
      /\ \A r : Finishes(r) => Finishes(r)'
  BY SessionSame
<1>2. Reached' = Reached /\ Reached \in 0..4
  BY <1>1 DEF Reached
<1>3. \A a : ActionFits(a) => ActionFits(a)'
  BY <1>1, <1>2 DEF ActionFits
<1> QED BY <1>2, <1>3

LEMMA AppliedList ==
  ASSUME PumpInv, NEW kind, Apply(kind), kind # "Done", pc' \in {"apply", "finish"}
  PROVE  ListFits'
<1>1. \A a \in Ahead' : a \in Ahead /\ ActionFits(a)'
  BY Taken, ReachedSame DEF PumpInv, ListFits
<1>2. finished' => AheadOf("Done")' # {}
  BY Taken, SessionSame
<1> QED BY <1>1, <1>2, Taken DEF ListFits

LEMMA AppliedPhases ==
  ASSUME PumpInv, NEW kind, Apply(kind), kind # "Phase", pc' \in {"apply", "finish"},
         UNCHANGED phases
  PROVE  PhasesFit'
<1>1. PhasesFit /\ Reached' = Reached /\ pc = "apply" /\ finished' = finished
  BY Taken, ReachedSame, SessionSame DEF PumpInv
<1>2. AheadOf("Phase")' = AheadOf("Phase")
  BY Taken
<1>3. Phase("Finished") \in Ahead => Phase("Finished") \in Ahead'
  BY Taken, ActionIs
<1>4. IsQueue(phases')
  BY <1>1 DEF PhasesFit, IsQueue
<1> QED BY <1>1, <1>2, <1>3, <1>4 DEF PhasesFit

\* An action is applied, or the transport fails it.
AppliedOrFailed ==
  \/ UNCHANGED <<pc, result>>
  \/ Return(Err("Transport"))

LEMMA ErrIsSome == ASSUME NEW e \in ErrorCode PROVE Err(e) # None /\ Err(e).err = e /\ e # None
<1>1. Err(e) # None
  BY PumpAssumption
<1>2. Err(e).err = e /\ e # None
  BY NoneAssumption DEF Err
<1> QED BY <1>1, <1>2

LEMMA AppliedPlace ==
  ASSUME PumpInv, NEW kind, Apply(kind), kind # "Done", AppliedOrFailed, UNCHANGED pending,
         \/ kind # "ReadProtocolInfo" /\ info' = info
         \/ kind = "ReadProtocolInfo" /\ \E i \in Infos : info' = <<i>>
  PROVE  PlaceFits'
<1>1. /\ PlaceFits /\ pc = "apply" /\ result = None /\ Begun' = Begun
      /\ UNCHANGED <<state, finished, step>>
  BY Taken, SessionSame DEF PumpInv
<1>2. \/ pc' = "apply" /\ result' = None
      \/ pc' = "finish" /\ result' = Err("Transport") /\ result' # None
  BY <1>1, ErrIsSome DEF AppliedOrFailed, Return, ErrorCode
<1>3. /\ info' \in {<<>>} \cup {<<i>> : i \in Infos}
      /\ info' # <<>> => state = "Detecting"
  <2>1. CASE info' = info
    BY <1>1, <2>1 DEF PlaceFits
  <2>2. CASE kind = "ReadProtocolInfo" /\ \E i \in Infos : info' = <<i>>
    <3>1. ActionFits(Head(todo)) /\ Head(todo).kind = "ReadProtocolInfo"
      BY <2>2, Taken
    <3> QED BY <2>2, <3>1 DEF ActionFits
  <2> QED BY <2>1, <2>2
<1>4. pc' = "apply" /\ state' = "Detecting" /\ ~finished' =>
        AheadOf("ReadProtocolInfo")' # {} \/ info' # <<>>
  <2>1. CASE kind # "ReadProtocolInfo" /\ info' = info
    BY <1>1, <2>1, Taken DEF PlaceFits
  <2>2. CASE \E i \in Infos : info' = <<i>>
    BY <2>2
  <2> QED BY <2>1, <2>2
<1> QED BY <1>1, <1>2, <1>3, <1>4 DEF PlaceFits

LEMMA AppliedTimers ==
  ASSUME PumpInv, NEW kind, Apply(kind), kind # "SetTimer", UNCHANGED <<deadline, expired>>
  PROVE  TimersFit'
<1>1. /\ TimersFit /\ Begun' = Begun /\ UNCHANGED <<state, finished, step>> /\ result = None
      /\ AheadOf("SetTimer")' = AheadOf("SetTimer")
  BY Taken, SessionSame DEF PumpInv
<1> QED BY <1>1 DEF TimersFit

LEMMA AppliedTransport ==
  ASSUME PumpInv, NEW kind, Apply(kind), pc' # "poll", UNCHANGED <<pending, link, rx, sent>>,
         \/ UNCHANGED <<subscribed, writes>>
         \/ Begun /\ subscribed' \in BOOLEAN /\ writes' \in Nat
  PROVE  TransportFits'
<1>1. /\ TransportFits /\ Begun' = Begun /\ \A p : PacketFits(p) => PacketFits(p)'
  BY Taken, SessionSame DEF PumpInv
<1>2. (\A i \in DOMAIN rx : PacketFits(rx[i]))'
  BY <1>1 DEF TransportFits
<1>3. IsQueue(rx')
  BY <1>1 DEF TransportFits, IsQueue
<1> QED BY <1>1, <1>2, <1>3 DEF TransportFits

LEMMA AppliedWrites ==
  ASSUME PumpInv, NEW kind, Apply(kind), kind \notin {"Write", "Done"}, AppliedOrFailed,
         UNCHANGED <<rx, sent, writes>>
  PROVE  WritesFit'
<1>1. /\ WritesFit /\ UNCHANGED <<state, step>> /\ pc = "apply" /\ result = None
      /\ AheadOf("Write")' = AheadOf("Write") /\ AheadOf("Done")' = AheadOf("Done")
  BY Taken, SessionSame DEF PumpInv
<1>2. CASE UNCHANGED <<pc, result>>
  <2>1. Due' = Due /\ Unanswered' = Unanswered /\ Sound' = Sound
    BY <1>1, <1>2 DEF Due, Unanswered, Sound
  <2> QED BY <1>1, <2>1 DEF WritesFit
<1>3. CASE Return(Err("Transport"))
  <2>1. ~Sound'
    BY <1>3, ErrIsSome DEF Sound, Return, ErrorCode
  <2> QED BY <2>1 DEF WritesFit
<1> QED BY <1>2, <1>3 DEF AppliedOrFailed

\* The actions that only ask the transport something.
LEMMA ApplyAnnounceKeeps ==
  ASSUME PumpInv, ApplyAnnounce \/ ApplyPauseOrNote
  PROVE  PumpInv'
<1>1. PICK kind \in {"AnnounceAppProtocol", "Pause", "Note"} : Apply(kind)
  BY DEF ApplyAnnounce, ApplyPauseOrNote
<1>2. /\ UNCHANGED <<pc, pending, info, deadline, expired, result, phases,
                     link, subscribed, rx, sent, writes>>
      /\ pc = "apply"
  BY <1>1, Taken DEF ApplyAnnounce, ApplyPauseOrNote, transportVars
<1>3. SessionInv'
  BY <1>1, Taken, SessionSame
<1>4. ListFits' /\ PhasesFit'
  BY <1>1, <1>2, AppliedList, AppliedPhases
<1>5. PlaceFits' /\ TimersFit'
  BY <1>1, <1>2, AppliedPlace, AppliedTimers DEF AppliedOrFailed
<1>6. TransportFits' /\ WritesFit'
  BY <1>1, <1>2, AppliedTransport, AppliedWrites DEF AppliedOrFailed
<1> QED BY <1>3, <1>4, <1>5, <1>6 DEF PumpInv

LEMMA ApplyReadKeeps == ASSUME PumpInv, ApplyReadProtocolInfo PROVE PumpInv'
<1>1. Apply("ReadProtocolInfo")
  BY DEF ApplyReadProtocolInfo
<1>2. /\ UNCHANGED <<pc, pending, deadline, expired, result, phases,
                     link, subscribed, rx, sent, writes>>
      /\ pc = "apply" /\ \E i \in Infos : info' = <<i>>
  BY <1>1, Taken DEF ApplyReadProtocolInfo, transportVars
<1>3. SessionInv'
  BY <1>1, Taken, SessionSame
<1>4. ListFits' /\ PhasesFit'
  BY <1>1, <1>2, AppliedList, AppliedPhases
<1>5. PlaceFits' /\ TimersFit'
  BY <1>1, <1>2, AppliedPlace, AppliedTimers DEF AppliedOrFailed
<1>6. TransportFits' /\ WritesFit'
  BY <1>1, <1>2, AppliedTransport, AppliedWrites DEF AppliedOrFailed
<1> QED BY <1>3, <1>4, <1>5, <1>6 DEF PumpInv

LEMMA ApplySubscribeKeeps == ASSUME PumpInv, ApplySubscribe PROVE PumpInv'
<1>1. Apply("Subscribe")
  BY DEF ApplySubscribe
<1>2. /\ UNCHANGED <<pending, info, deadline, expired, phases, link, rx, sent, writes>>
      /\ pc = "apply" /\ pc' \in {"apply", "finish"} /\ AppliedOrFailed
      /\ subscribed' \in {TRUE, subscribed}
  BY <1>1, Taken DEF ApplySubscribe, AppliedOrFailed, Return
<1>3. SessionInv'
  BY <1>1, Taken, SessionSame
<1>4. ListFits' /\ PhasesFit'
  BY <1>1, <1>2, AppliedList, AppliedPhases
<1>5. PlaceFits' /\ TimersFit'
  BY <1>1, <1>2, AppliedPlace, AppliedTimers
<1>6. Begun /\ subscribed' \in BOOLEAN /\ writes' \in Nat
  <2>1. Begun
    BY <1>1, Taken DEF ActionFits
  <2>2. subscribed \in BOOLEAN /\ writes \in Nat
    BY DEF PumpInv, TransportFits
  <2>3. subscribed' = TRUE \/ subscribed' = subscribed
    BY <1>2
  <2>4. subscribed' \in BOOLEAN
    BY <2>2, <2>3
  <2> QED BY <1>2, <2>1, <2>2, <2>4
<1>7. TransportFits' /\ WritesFit'
  BY <1>1, <1>2, <1>6, AppliedTransport, AppliedWrites
<1> QED BY <1>3, <1>4, <1>5, <1>7 DEF PumpInv

LEMMA ApplyWriteKeeps == ASSUME PumpInv, ApplyWrite PROVE PumpInv'
<1>1. Apply("Write")
  BY DEF ApplyWrite
<1>2. /\ UNCHANGED <<pending, info, deadline, expired, phases, link, subscribed, rx, sent>>
      /\ pc = "apply" /\ pc' \in {"apply", "finish"} /\ AppliedOrFailed /\ result = None
      /\ \/ writes' = writes + 1 /\ UNCHANGED <<pc, result>>
         \/ writes' = writes /\ Return(Err("Transport"))
  BY <1>1, Taken DEF ApplyWrite, AppliedOrFailed, Return
<1>3. SessionInv'
  BY <1>1, Taken, SessionSame
<1>4. ListFits' /\ PhasesFit'
  BY <1>1, <1>2, AppliedList, AppliedPhases
<1>5. PlaceFits' /\ TimersFit'
  BY <1>1, <1>2, AppliedPlace, AppliedTimers
<1>6. Begun /\ writes \in Nat /\ subscribed \in BOOLEAN
  BY <1>1, Taken DEF ActionFits, PumpInv, TransportFits
<1>7. TransportFits'
  BY <1>1, <1>2, <1>6, AppliedTransport
<1>8. WritesFit'
  <2>1. CASE writes' = writes + 1 /\ UNCHANGED <<pc, result>>
    <3>1. /\ Head(todo) \in AheadOf("Write") /\ AheadOf("Write")' = AheadOf("Write") \ {Head(todo)}
          /\ AheadOf("Done")' = AheadOf("Done") /\ UNCHANGED <<state, step>>
      BY <1>1, Taken, SessionSame DEF AheadOf
    <3>2. AheadOf("Write")' = {}
      <4> SUFFICES ASSUME NEW a \in AheadOf("Write")' PROVE FALSE
        OBVIOUS
      <4>1. /\ a = Action("Write", a.arg) /\ Head(todo) = Action("Write", Head(todo).arg)
            /\ Place(Head(todo), state) < Place(a, state)
        <5>1. a \in Ahead' /\ a \in Ahead /\ a.kind = "Write"
          BY <1>1, Taken DEF AheadOf
        <5>2. ActionFits(a) /\ ActionFits(Head(todo)) /\ Head(todo).kind = "Write"
          BY <1>1, <5>1, Taken DEF PumpInv, ListFits
        <5> QED BY <1>1, <5>1, <5>2, Taken DEF ActionFits
      <4>2. Place(Head(todo), state) = 8 /\ Place(a, state) = 8
        BY <4>1, Places, ActionIs
      <4> QED BY <4>1, <4>2
    <3>3. Due = 1 /\ Due' = 0 /\ Unanswered = 0 /\ Unanswered' = 0 /\ Sound' = Sound
      BY <1>2, <2>1, <3>1, <3>2 DEF Due, Unanswered, Sound
    <3> QED BY <1>2, <1>6, <2>1, <3>1, <3>3 DEF PumpInv, WritesFit
  <2>2. CASE Return(Err("Transport"))
    <3>1. ~Sound'
      BY <2>2, ErrIsSome DEF Sound, Return, ErrorCode
    <3> QED BY <3>1 DEF WritesFit
  <2> QED BY <1>2, <2>1, <2>2
<1> QED BY <1>3, <1>4, <1>5, <1>7, <1>8 DEF PumpInv

LEMMA ApplySetTimerKeeps == ASSUME PumpInv, ApplySetTimer PROVE PumpInv'
<1>1. Apply("SetTimer")
  BY DEF ApplySetTimer
<1>2. /\ UNCHANGED <<pc, pending, info, result, phases, link, subscribed, rx, sent, writes>>
      /\ pc = "apply" /\ deadline' = Head(todo).arg /\ expired' = FALSE
  BY <1>1, Taken DEF ApplySetTimer, transportVars
<1>3. SessionInv'
  BY <1>1, Taken, SessionSame
<1>4. ListFits' /\ PhasesFit'
  BY <1>1, <1>2, AppliedList, AppliedPhases
<1>5. PlaceFits'
  BY <1>1, <1>2, AppliedPlace DEF AppliedOrFailed
<1>6. TransportFits' /\ WritesFit'
  BY <1>1, <1>2, AppliedTransport, AppliedWrites DEF AppliedOrFailed
<1>7. TimersFit'
  <2>1. PICK h : h = Head(todo)
    OBVIOUS
  <2>2. /\ h = Action("SetTimer", h.arg) /\ h.arg \in Timers /\ Begun /\ h \in AheadOf("SetTimer")
    BY <1>1, <2>1, Taken DEF ActionFits, AheadOf
  <2>3. /\ AheadOf("SetTimer")' = AheadOf("SetTimer") \ {h} /\ Begun'
        /\ UNCHANGED <<state, finished, step>>
    BY <1>1, <2>1, <2>2, Taken, SessionSame
  <2>4. deadline' = h.arg /\ h.arg # None
    BY <1>2, <2>1, <2>2, PumpAssumption
  <2>5. ASSUME state = "V0100"
        PROVE  \/ step = "AwaitingNonce" /\ deadline' = "FirstPacket" /\ AheadOf("SetTimer")' = {}
               \/ step = "AwaitingResult" /\ deadline' = "Packet" /\ AheadOf("SetTimer")' = {}
    <3>1. \/ step = "AwaitingNonce" /\ AheadOf("SetTimer") = {SetTimer("FirstPacket")}
          \/ step = "AwaitingResult" /\ AheadOf("SetTimer") = {SetTimer("Packet")}
      BY <2>2, <2>5 DEF PumpInv, TimersFit
    <3> QED BY <2>2, <2>3, <2>4, <3>1, ActionIs
  <2> QED BY <1>2, <2>2, <2>3, <2>4, <2>5 DEF TimersFit
<1> QED BY <1>3, <1>4, <1>5, <1>6, <1>7 DEF PumpInv

LEMMA ApplyPhaseKeeps == ASSUME PumpInv, ApplyPhase PROVE PumpInv'
<1>1. Apply("Phase")
  BY DEF ApplyPhase
<1>2. /\ UNCHANGED <<pc, pending, info, deadline, expired, result,
                     link, subscribed, rx, sent, writes>>
      /\ pc = "apply" /\ phases' = Append(phases, Head(todo).arg)
  BY <1>1, Taken DEF ApplyPhase, transportVars
<1>3. SessionInv'
  BY <1>1, Taken, SessionSame
<1>4. ListFits'
  BY <1>1, <1>2, AppliedList
<1>5. PlaceFits' /\ TimersFit'
  BY <1>1, <1>2, AppliedPlace, AppliedTimers DEF AppliedOrFailed
<1>6. TransportFits' /\ WritesFit'
  BY <1>1, <1>2, AppliedTransport, AppliedWrites DEF AppliedOrFailed
<1>7. PhasesFit'
  <2>1. PICK h, p : h = Head(todo) /\ p = h.arg
    OBVIOUS
  <2>2. PICK q, r : q = phases /\ r = phases'
    OBVIOUS
  <2>3. /\ h = Phase(p) /\ p \in PhaseNames /\ Rank(p) <= Reached /\ h \in AheadOf("Phase")
    BY <1>1, <2>1, Taken, ActionIs, PhaseNamesListed DEF ActionFits, AheadOf
  <2>4. /\ IsQueue(r) /\ Len(q) \in Nat /\ DOMAIN q = 1..Len(q) /\ DOMAIN r = 1..(Len(q) + 1)
        /\ \A i \in 1..Len(q) : r[i] = q[i]
        /\ r[Len(q) + 1] = p
    <3>1. IsQueue(q) /\ r = Append(q, p)
      BY <1>2, <2>1, <2>2 DEF PumpInv, PhasesFit, IsQueue
    <3>2. IsLonger(q, r, p)
      BY <3>1, PutOn
    <3> QED BY <3>2 DEF IsLonger
  <2>5. /\ \A i \in 1..Len(q) : q[i] \in PhaseNames /\ Rank(q[i]) <= Reached /\ Rank(q[i]) < Rank(p)
        /\ \A i, j \in 1..Len(q) : i < j => Rank(q[i]) < Rank(q[j])
    BY <1>2, <2>1, <2>2, <2>3, <2>4, PhaseNamesListed DEF PumpInv, PhasesFit
  <2>6. /\ Reached' = Reached /\ UNCHANGED finished /\ Ahead' = Ahead \ {h}
        /\ AheadOf("Phase")' = AheadOf("Phase") \ {h}
    BY <1>1, <1>2, <2>1, Taken, ReachedSame, SessionSame
  <2>7. \A a \in AheadOf("Phase")' :
          Rank(p) < Rank(a.arg) /\ \A i \in 1..Len(q) : Rank(q[i]) < Rank(a.arg)
    <3> SUFFICES ASSUME NEW a \in AheadOf("Phase")'
                 PROVE  Rank(p) < Rank(a.arg) /\ \A i \in 1..Len(q) : Rank(q[i]) < Rank(a.arg)
      OBVIOUS
    <3>1. a \in Ahead' /\ a \in AheadOf("Phase") /\ a.kind = "Phase" /\ a \in Ahead
      BY <2>6 DEF AheadOf
    <3>2. a = Phase(a.arg) /\ a.arg \in PhaseNames
      BY <3>1, ActionIs, PhaseNamesListed DEF PumpInv, ListFits, ActionFits
    <3>3. Place(h, state) < Place(a, state)
      BY <1>1, <2>1, <3>1, Taken
    <3>4. Rank(p) < Rank(a.arg)
      BY <2>3, <3>2, <3>3, PhasePlaces
    <3>5. \A i \in 1..Len(q) : Rank(q[i]) < Rank(a.arg)
      BY <1>2, <2>2, <2>4, <3>1 DEF PumpInv, PhasesFit
    <3> QED BY <3>4, <3>5
  <2>8. \A i \in 1..(Len(q) + 1) : r[i] \in PhaseNames /\ Rank(r[i]) <= Reached
    BY <2>3, <2>4, <2>5
  <2>9. \A i, j \in 1..(Len(q) + 1) : i < j => Rank(r[i]) < Rank(r[j])
    BY <2>4, <2>5
  <2>10. \A i \in 1..(Len(q) + 1) : \A a \in AheadOf("Phase")' : Rank(r[i]) < Rank(a.arg)
    BY <2>4, <2>7
  <2>11. finished => Phase("Finished") \in Ahead' \/ \E i \in 1..(Len(q) + 1) : r[i] = "Finished"
    <3>1. CASE p = "Finished"
      BY <2>4, <3>1
    <3>2. CASE p # "Finished"
      <4>1. Phase("Finished") # h
        BY <2>3, <3>2, ActionIs
      <4> QED BY <2>2, <2>4, <2>6, <4>1 DEF PumpInv, PhasesFit
    <3> QED BY <3>1, <3>2
  <2>12. IsQueue(phases')
    BY <2>2, <2>4 DEF IsQueue
  <2> QED BY <1>2, <2>2, <2>4, <2>6, <2>8, <2>9, <2>10, <2>11, <2>12, PhaseNamesListed
          DEF PhasesFit
<1> QED BY <1>3, <1>4, <1>5, <1>6, <1>7 DEF PumpInv

\* A result is never absent.
LEMMA FinishesIsSome == ASSUME PumpInv, NEW r, Finishes(r) PROVE r # None
<1>1. finalOpResult \in Byte \cup {None}
  BY DEF PumpInv, SessionInv, TypeOK
<1>2. CASE \E v \in {1, 2}, op \in Byte \cup {None} : r = Ok(OutcomeOf(v, op))
  BY <1>2, PumpAssumption
<1>3. CASE \E e \in ErrorCode : r = Err(e)
  BY <1>3, PumpAssumption
<1> QED BY <1>1, <1>2, <1>3 DEF Finishes, ErrorCode

LEMMA ApplyDoneKeeps == ASSUME PumpInv, ApplyDone PROVE PumpInv'
<1>1. Apply("Done")
  BY DEF ApplyDone
<1>2. PICK h : h = Head(todo)
  OBVIOUS
<1>3. /\ UNCHANGED <<pending, info, deadline, expired, phases, link, subscribed, rx, sent, writes>>
      /\ pc = "apply" /\ pc' = "finish" /\ result = None /\ result' = h.arg
  BY <1>1, <1>2, Taken DEF ApplyDone, Return, transportVars
<1>4. SessionInv'
  BY <1>1, Taken, SessionSame
<1>5. /\ h = Action("Done", h.arg) /\ finished /\ Finishes(h.arg)
      /\ h \in AheadOf("Done") /\ AheadOf("Done")' = AheadOf("Done") \ {h}
  BY <1>1, <1>2, Taken DEF ActionFits, AheadOf
<1>6. todo' = <<>> /\ Ahead' = {}
  <2>1. Ahead' = {}
    <3>1. \A a \in Ahead' : Place(h, state) < Place(a, state)
      BY <1>1, <1>2, Taken
    <3>2. Place(h, state) = 13
      BY <1>5, Places
    <3> QED BY <3>1, <3>2, PlaceRange
  <2>2. IsQueue(todo')
    BY <1>1, Taken
  <2>3. PICK q : q = todo'
    OBVIOUS
  <2>4. q \in Seq({q[i] : i \in DOMAIN q}) /\ {q[i] : i \in DOMAIN q} = {}
    BY <2>1, <2>2, <2>3 DEF IsQueue, Ahead
  <2>5. q = <<>>
    BY <2>4
  <2> QED BY <2>1, <2>3, <2>5
<1>7. result' # None /\ Finishes(result)' /\ finished' /\ UNCHANGED <<state, step>>
  <2>1. PICK v : v = h.arg
    OBVIOUS
  <2>2. Finishes(v)' /\ result' = v /\ v # None
    BY <1>1, <1>3, <1>5, <2>1, FinishesIsSome, Taken, SessionSame
  <2>3. Finishes(result)'
    BY <2>2 DEF Finishes
  <2> QED BY <1>1, <1>5, <2>2, <2>3, Taken, SessionSame
<1>8. ListFits'
  BY <1>1, <1>6, <1>7, Taken DEF ListFits
<1>9. PhasesFit'
  BY <1>1, <1>3, AppliedPhases
<1>10. PlaceFits'
  BY <1>1, <1>3, <1>6, <1>7, Taken, SessionSame DEF PumpInv, PlaceFits
<1>11. TimersFit' /\ TransportFits'
  BY <1>1, <1>3, AppliedTimers, AppliedTransport
<1>12. WritesFit'
  <2>1. Sound' => Sound
    <3>1. \A a \in AheadOf("Done") : a = h \/ a \in AheadOf("Done")'
      BY <1>5
    <3> QED BY <1>3, <1>7, <3>1 DEF Sound
  <2>2. AheadOf("Write")' = AheadOf("Write")
    BY <1>1, Taken
  <2>3. Due' = Due /\ Unanswered' = 0 /\ Unanswered = 0
    BY <1>3, <2>2 DEF Due, Unanswered
  <2> QED BY <1>3, <1>7, <2>1, <2>3 DEF PumpInv, WritesFit
<1> QED BY <1>4, <1>8, <1>9, <1>10, <1>11, <1>12 DEF PumpInv

-----------------------------------------------------------------------------
(* Between the lists, and at the end *)

LEMMA SameAhead ==
  ASSUME UNCHANGED todo
  PROVE  Ahead' = Ahead /\ \A k : AheadOf(k)' = AheadOf(k)
  BY DEF Ahead, AheadOf

\* The phases get no less far.
LEMMA ReachedGrows ==
  ASSUME PumpInv, UNCHANGED sessionVars,
         pc \in {"disconnect", "returned"} => pc' \in {"disconnect", "returned"}
  PROVE  /\ Reached \in 0..4 /\ Reached' \in 0..4 /\ Reached <= Reached'
         /\ \A a : ActionFits(a) => ActionFits(a)'
<1>1. /\ UNCHANGED <<state, finished, step, exchanging>> /\ Begun' = Begun
      /\ \A r : Finishes(r) => Finishes(r)'
  BY SessionSame
<1>2. Reached \in 0..4 /\ Reached' \in 0..4 /\ Reached <= Reached'
  BY <1>1 DEF Reached
<1>3. \A p \in {PhaseOrder[k] : k \in 1..4} : Rank(p) <= Reached => Rank(p) <= Reached'
  BY <1>2, Ranks, PhaseNamesListed DEF PhaseNames
<1>4. \A a : ActionFits(a) => ActionFits(a)'
  BY <1>1, <1>3 DEF ActionFits
<1> QED BY <1>2, <1>4

LEMMA ListStays ==
  ASSUME PumpInv, UNCHANGED <<sessionVars, todo>>, result # None => result' # None,
         pc \in {"disconnect", "returned"} => pc' \in {"disconnect", "returned"}
  PROVE  ListFits'
<1>1. ListFits /\ UNCHANGED <<state, finished>>
  BY SessionSame DEF PumpInv
<1>2. \A a \in Ahead' : ActionFits(a)'
  BY <1>1, SameAhead, ReachedGrows DEF ListFits
<1>3. IsQueue(todo') /\ InOrder(todo', state')
  BY <1>1 DEF ListFits, IsQueue
<1>4. AheadOf("Done")' = AheadOf("Done")
  BY SameAhead
<1> QED BY <1>1, <1>2, <1>3, <1>4 DEF ListFits, IsQueue

LEMMA PhasesStay ==
  ASSUME PumpInv, UNCHANGED <<sessionVars, todo, phases>>, pc' = "apply" => pc = "apply",
         pc \in {"disconnect", "returned"} <=> pc' \in {"disconnect", "returned"}
  PROVE  PhasesFit'
<1>1. PhasesFit /\ UNCHANGED finished
  BY SessionSame DEF PumpInv
<1>2. Reached' = Reached
  BY SessionSame DEF Reached
<1>3. IsQueue(phases')
  BY <1>1 DEF PhasesFit, IsQueue
<1> QED BY <1>1, <1>2, <1>3, SameAhead DEF PhasesFit

LEMMA EndOfActionsKeeps == ASSUME PumpInv, EndOfActions PROVE PumpInv'
<1>1. /\ pc = "apply" /\ todo = <<>>
      /\ UNCHANGED <<sessionVars, todo, info, deadline, expired, phases,
                     link, subscribed, rx, sent, writes>>
  BY DEF EndOfActions, transportVars
<1>2. /\ result = None /\ \A k : AheadOf(k) = {} /\ ~finished /\ state # "Idle"
  <2>1. result = None /\ state # "Idle" /\ \A k : AheadOf(k) = {}
    BY <1>1 DEF PumpInv, PlaceFits, AheadOf, Ahead
  <2> QED BY <2>1 DEF PumpInv, ListFits
<1>3. /\ SessionInv' /\ UNCHANGED <<state, finished, step>> /\ Begun' = Begun
      /\ \A p : PacketFits(p) => PacketFits(p)'
      /\ \A k : AheadOf(k)' = {}
  BY <1>1, <1>2, SessionSame, SameAhead
<1>4. \/ /\ state = "Detecting" /\ info # <<>> /\ pc' = "poll" /\ UNCHANGED result
         /\ \E i \in Infos : pending' = Event("ProtocolInfo", i)
      \/ Begun /\ info = <<>> /\ pc' = "wait" /\ UNCHANGED <<pending, result>>
  <2>1. CASE info # <<>>
    <3>1. state = "Detecting" /\ \E i \in Infos : info = <<i>>
      BY <2>1 DEF PumpInv, PlaceFits
    <3>2. \E i \in Infos : info[1] = i
      BY <3>1
    <3> QED BY <2>1, <3>1, <3>2 DEF EndOfActions
  <2>2. CASE info = <<>>
    <3>1. state # "Detecting"
      BY <1>1, <1>2, <2>2 DEF PumpInv, PlaceFits
    <3>2. Begun
      BY <1>2, <3>1 DEF PumpInv, SessionInv, TypeOK, Begun
    <3>3. deadline # None
      BY <1>2, <3>2 DEF PumpInv, TimersFit
    <3> QED BY <2>2, <3>2, <3>3 DEF EndOfActions
  <2> QED BY <2>1, <2>2
<1>5. ListFits' /\ PhasesFit'
  BY <1>1, <1>2, <1>4, ListStays, PhasesStay
<1>6. PlaceFits'
  BY <1>1, <1>2, <1>3, <1>4 DEF PumpInv, PlaceFits, Begun
<1>7. TimersFit'
  BY <1>1, <1>2, <1>3, <1>4 DEF PumpInv, TimersFit
<1>8. TransportFits'
  <2>1. (\A i \in DOMAIN rx : PacketFits(rx[i]))' /\ IsQueue(rx')
    BY <1>1, <1>3 DEF PumpInv, TransportFits, IsQueue
  <2>2. /\ pending'.kind \in {"Started", "ProtocolInfo", "Notification", "Timer", "LinkClosed"}
        /\ pc' = "poll" => pending'.kind # "Notification"
    BY <1>4 DEF PumpInv, TransportFits, Event
  <2> QED BY <1>1, <1>3, <2>1, <2>2 DEF PumpInv, TransportFits, IsQueue
<1>9. WritesFit'
  <2>1. /\ Due = 0 /\ Due' = 0 /\ Unanswered = 0 /\ Sound
    BY <1>1, <1>2, <1>3 DEF Due, Unanswered, Sound
  <2>2. Unanswered' = 0
    BY <1>4 DEF Unanswered, Event
  <2> QED BY <1>1, <1>3, <2>1, <2>2 DEF PumpInv, WritesFit
<1> QED BY <1>3, <1>5, <1>6, <1>7, <1>8, <1>9 DEF PumpInv

\* What ends the wait.
LEMMA DeliverKeeps ==
  ASSUME PumpInv, NEW e, Deliver(e), e.kind \in {"Notification", "Timer", "LinkClosed"},
         \/ e.kind # "Notification" /\ UNCHANGED rx
         \/ /\ e.kind = "Notification" /\ rx # <<>> /\ rx' = Tail(rx)
            /\ e.arg = Head(rx)
  PROVE  PumpInv'
<1>1. /\ pc = "wait" /\ pc' = "poll" /\ pending' = e
      /\ UNCHANGED <<sessionVars, todo, info, deadline, expired, result, phases,
                     link, subscribed, sent, writes>>
  BY DEF Deliver
<1>2. /\ result = None /\ todo = <<>> /\ ~finished /\ Begun
  BY <1>1 DEF PumpInv, PlaceFits
<1>3. /\ SessionInv' /\ UNCHANGED <<state, finished, step>> /\ Begun' = Begun
      /\ \A p : PacketFits(p) => PacketFits(p)'
      /\ \A k : AheadOf(k)' = AheadOf(k)
  BY <1>1, SessionSame, SameAhead
<1>4. ListFits' /\ PhasesFit'
  BY <1>1, <1>2, ListStays, PhasesStay
<1>5. PlaceFits'
  BY <1>1, <1>2, <1>3 DEF PumpInv, PlaceFits, Begun
<1>6. TimersFit'
  BY <1>1, <1>2, <1>3 DEF PumpInv, TimersFit
<1>7. PICK q, r : q = rx /\ r = rx'
  OBVIOUS
<1>8. /\ IsQueue(r) /\ \A i \in DOMAIN r : \E j \in DOMAIN q : r[i] = q[j]
      /\ e.kind = "Notification" => /\ 1 \in DOMAIN q /\ e.arg = q[1]
                                    /\ Len(r) = Len(q) - 1 /\ Len(q) \in Nat
      /\ e.kind # "Notification" => r = q
  <2>1. IsQueue(q)
    BY <1>7 DEF PumpInv, TransportFits, IsQueue
  <2>2. CASE e.kind # "Notification" /\ UNCHANGED rx
    BY <1>7, <2>1, <2>2
  <2>3. CASE e.kind = "Notification" /\ rx # <<>> /\ rx' = Tail(rx) /\ e.arg = Head(rx)
    <3>1. IsTail(q, r, e.arg)
      BY <1>7, <2>1, <2>3, TakenOff
    <3> QED BY <2>3, <3>1 DEF IsTail
  <2> QED BY <2>2, <2>3
<1>9. \A i \in DOMAIN q : PacketFits(q[i])
  BY <1>7 DEF PumpInv, TransportFits
<1>10. TransportFits'
  <2>1. (\A i \in DOMAIN rx : PacketFits(rx[i]))' /\ IsQueue(rx')
    BY <1>3, <1>7, <1>8, <1>9 DEF IsQueue
  <2>2. e.kind = "Notification" => PacketFits(e.arg)'
    BY <1>3, <1>8, <1>9
  <2>3. (pc = "poll" /\ pending.kind = "Notification" => PacketFits(pending.arg))'
    BY <1>1, <2>2 DEF PacketFits
  <2>4. Begun'
    BY <1>2, <1>3
  <2> QED BY <1>1, <2>1, <2>3, <2>4 DEF PumpInv, TransportFits
<1>11. WritesFit'
  <2>1. /\ Due' = Due /\ Sound' = Sound /\ Due \in {0, 1} /\ Unanswered = 0
        /\ Unanswered' = IF e.kind = "Notification" THEN 1 ELSE 0
    BY <1>1, <1>3 DEF Due, Unanswered, Sound
  <2>2. writes \in Nat /\ sent \in Nat
    BY PumpAssumption DEF PumpInv, TransportFits
  <2>3. Len(rx') + Unanswered' = Len(rx) /\ Len(rx) \in Nat
    <3>1. Len(q) \in Nat
      BY <1>7 DEF PumpInv, TransportFits, IsQueue
    <3> QED BY <1>7, <1>8, <2>1, <3>1
  <2>4. writes' = writes /\ sent' = sent /\ Len(rx') \in Int
    BY <1>1, <2>1, <2>3
  <2> QED BY <1>3, <2>1, <2>2, <2>3, <2>4 DEF PumpInv, WritesFit
<1> QED BY <1>3, <1>4, <1>5, <1>6, <1>10, <1>11 DEF PumpInv

LEMMA ReceiveKeeps == ASSUME PumpInv, Receive PROVE PumpInv'
<1>1. \A k, x : Event(k, x).kind = k /\ Event(k, x).arg = x
  BY DEF Event
<1>2. CASE ReceiveNotification
  <2>1. PICK e : e = Event("Notification", Head(rx))
    OBVIOUS
  <2> QED BY <1>1, <1>2, <2>1, DeliverKeeps DEF ReceiveNotification
<1>3. CASE ReceiveLinkClosed
  BY <1>1, <1>3, DeliverKeeps DEF ReceiveLinkClosed
<1>4. CASE TimerFires
  <2>1. PICK e : e = Event("Timer", deadline)
    OBVIOUS
  <2> QED BY <1>1, <1>4, <2>1, DeliverKeeps DEF TimerFires
<1> QED BY <1>2, <1>3, <1>4 DEF Receive

LEMMA ReportFinishedKeeps == ASSUME PumpInv, ReportFinished PROVE PumpInv'
<1>1. /\ pc = "finish" /\ pc' = "disconnect"
      /\ phases' = IF finished THEN phases ELSE Append(phases, "Finished")
      /\ UNCHANGED <<sessionVars, pending, todo, info, deadline, expired, result,
                     link, subscribed, rx, sent, writes>>
  BY DEF ReportFinished, transportVars
<1>2. result # None
  BY <1>1 DEF PumpInv, PlaceFits
<1>3. /\ SessionInv' /\ UNCHANGED <<state, finished, step>> /\ Begun' = Begun
      /\ \A r : Finishes(r) => Finishes(r)'
      /\ \A p : PacketFits(p) => PacketFits(p)'
      /\ Ahead' = Ahead /\ \A k : AheadOf(k)' = AheadOf(k)
  BY <1>1, SessionSame, SameAhead
<1>4. ListFits'
  BY <1>1, ListStays
<1>5. PlaceFits'
  <2>1. Finishes(result) => Finishes(result)'
    BY <1>1, <1>3 DEF Finishes
  <2> QED BY <1>1, <1>3, <2>1 DEF PumpInv, PlaceFits
<1>6. TimersFit'
  BY <1>1, <1>2, <1>3 DEF PumpInv, TimersFit
<1>7. TransportFits'
  <2>1. (\A i \in DOMAIN rx : PacketFits(rx[i]))' /\ IsQueue(rx')
    BY <1>1, <1>3 DEF PumpInv, TransportFits, IsQueue
  <2> QED BY <1>1, <1>3, <2>1 DEF PumpInv, TransportFits
<1>8. WritesFit'
  BY <1>1, <1>3 DEF PumpInv, WritesFit, Due, Unanswered, Sound
<1>9. PhasesFit'
  <2>1. Reached' = 4 /\ Reached \in 0..4 /\ (~finished => Reached \in 0..3)
    BY <1>1 DEF Reached
  <2>2. \A p \in PhaseNames : Rank(p) \in Nat
    BY Ranks DEF PhaseNames
  <2>3. CASE finished
    <3>1. phases' = phases
      BY <1>1, <2>3
    <3>2. IsQueue(phases')
      BY <3>1 DEF PumpInv, PhasesFit, IsQueue
    <3> QED BY <1>1, <1>3, <2>1, <2>2, <2>3, <3>1, <3>2, PhaseNamesListed
            DEF PumpInv, PhasesFit
  <2>4. CASE ~finished
    <3>1. PICK q, r : q = phases /\ r = phases'
      OBVIOUS
    <3>2. /\ IsQueue(q)
          /\ \A i \in DOMAIN q : q[i] \in PhaseNames /\ Rank(q[i]) <= 3
          /\ \A i, j \in DOMAIN q : i < j => Rank(q[i]) < Rank(q[j])
      BY <2>1, <2>2, <2>4, <3>1, PhaseNamesListed DEF PumpInv, PhasesFit, IsQueue
    <3>3. IsLonger(q, r, "Finished")
      BY <1>1, <2>4, <3>1, <3>2, PutOn
    <3>4. /\ IsQueue(r)
          /\ \A i \in DOMAIN r : r[i] \in PhaseNames /\ Rank(r[i]) <= 4
          /\ \A i, j \in DOMAIN r : i < j => Rank(r[i]) < Rank(r[j])
          /\ \E i \in DOMAIN r : r[i] = "Finished"
      <4>1. Rank("Finished") = 4 /\ "Finished" \in PhaseNames
        BY Ranks DEF PhaseNames
      <4> QED BY <2>2, <3>2, <3>3, <4>1 DEF IsLonger
    <3>5. IsQueue(phases')
      BY <3>1, <3>4 DEF IsQueue
    <3> QED BY <1>1, <1>3, <2>1, <2>4, <3>1, <3>4, <3>5, PhaseNamesListed DEF PhasesFit
  <2> QED BY <2>3, <2>4
<1> QED BY <1>3, <1>4, <1>5, <1>6, <1>7, <1>8, <1>9 DEF PumpInv

-----------------------------------------------------------------------------
(* The lock, the clock and the teardown *)

\* Steps that leave the pump where it is, but for the teardown.
LEMMA OutsideKeeps ==
  ASSUME PumpInv, UNCHANGED <<sessionVars, pending, todo, info, deadline, result, phases>>,
         UNCHANGED pc \/ (pc = "disconnect" /\ pc' = "returned"),
         expired' \in BOOLEAN, deadline = None => expired' = expired,
         TransportFits', WritesFit'
  PROVE  PumpInv'
<1>1. /\ SessionInv' /\ UNCHANGED <<state, finished, step>> /\ Begun' = Begun
      /\ \A r : Finishes(r) => Finishes(r)'
      /\ Ahead' = Ahead /\ \A k : AheadOf(k)' = AheadOf(k)
  BY SessionSame, SameAhead
<1>2. ListFits' /\ PhasesFit'
  BY ListStays, PhasesStay
<1>3. PlaceFits'
  <2>1. Finishes(result) => Finishes(result)'
    BY <1>1 DEF Finishes
  <2>2. CASE UNCHANGED pc
    BY <1>1, <2>1, <2>2 DEF PumpInv, PlaceFits
  <2>3. CASE pc = "disconnect" /\ pc' = "returned"
    BY <1>1, <2>1, <2>3 DEF PumpInv, PlaceFits
  <2> QED BY <2>2, <2>3
<1>4. TimersFit'
  BY <1>1 DEF PumpInv, TimersFit
<1> QED BY <1>1, <1>2, <1>3, <1>4 DEF PumpInv

\* The bookkeeping only looks at the list, the results and the counts.
LEMMA CountsStay ==
  ASSUME PumpInv, UNCHANGED <<sessionVars, todo, result, pending, writes>>,
         (pc = "poll") <=> (pc' = "poll"), sent' - Len(rx') = sent - Len(rx)
  PROVE  WritesFit'
<1>1. /\ UNCHANGED <<state, step>> /\ \A k : AheadOf(k)' = AheadOf(k)
  BY SessionSame, SameAhead
<1>2. Due' = Due /\ Unanswered' = Unanswered /\ Sound' = Sound
  BY <1>1 DEF Due, Unanswered, Sound
<1> QED BY <1>1, <1>2 DEF PumpInv, WritesFit

LEMMA LockSendsKeeps == ASSUME PumpInv, LockSends PROVE PumpInv'
<1>1. /\ subscribed /\ sent < MaxPackets /\ sent' = sent + 1
      /\ UNCHANGED <<sessionVars, pc, pending, todo, info, deadline, expired, result, phases,
                     link, subscribed, writes>>
  BY DEF LockSends, pumpVars
<1>2. PICK p \in Packets : rx' = Append(rx, p)
  BY DEF LockSends
<1>3. /\ Begun' = Begun /\ UNCHANGED state /\ \A x : PacketFits(x) => PacketFits(x)'
  BY <1>1, SessionSame
<1>4. Begun
  BY <1>1 DEF PumpInv, TransportFits
<1>5. PacketFits(p)
  BY PacketsAreOK DEF PacketFits, Packets
<1>6. PICK q, r : q = rx /\ r = rx'
  OBVIOUS
<1>7. IsQueue(q) /\ \A i \in DOMAIN q : PacketFits(q[i])
  BY <1>6 DEF PumpInv, TransportFits, IsQueue
<1>8. IsLonger(q, r, p)
  BY <1>2, <1>6, <1>7, PutOn
<1>9. /\ IsQueue(r) /\ Len(r) = Len(q) + 1 /\ Len(q) \in Nat
      /\ \A i \in DOMAIN r : r[i] = p \/ \E j \in DOMAIN q : r[i] = q[j]
  BY <1>8 DEF IsLonger
<1>10. sent \in Nat /\ sent' \in 0..MaxPackets
  BY <1>1, PumpAssumption DEF PumpInv, TransportFits
<1>11. TransportFits'
  <2>1. (\A i \in DOMAIN rx : PacketFits(rx[i]))' /\ IsQueue(rx')
    BY <1>3, <1>5, <1>6, <1>7, <1>9 DEF IsQueue
  <2>2. (pc = "poll" /\ pending.kind = "Notification" => PacketFits(pending.arg))'
    BY <1>1, <1>3 DEF PumpInv, TransportFits, PacketFits
  <2>3. Begun'
    BY <1>3, <1>4
  <2> QED BY <1>1, <1>10, <2>1, <2>2, <2>3 DEF PumpInv, TransportFits
<1>12. WritesFit'
  <2>1. sent' - Len(rx') = sent - Len(rx)
    BY <1>1, <1>6, <1>9, <1>10
  <2> QED BY <1>1, <2>1, CountsStay
<1>13. expired' \in BOOLEAN
  BY <1>1 DEF PumpInv, TimersFit
<1> QED BY <1>1, <1>11, <1>12, <1>13, OutsideKeeps

\* The link and the clock.
LEMMA LinkAndClockKeep ==
  ASSUME PumpInv, LockDropsLink \/ DeadlinePasses \/ Disconnect \/ UNCHANGED vars
  PROVE  PumpInv'
<1>1. /\ UNCHANGED <<sessionVars, pending, todo, info, deadline, result, phases,
                     subscribed, rx, sent, writes>>
      /\ UNCHANGED pc \/ (pc = "disconnect" /\ pc' = "returned")
      /\ deadline = None => expired' = expired
      /\ expired' = expired \/ expired' = TRUE
      /\ link' = link \/ link' = "down"
  BY DEF LockDropsLink, DeadlinePasses, Disconnect, vars, pumpVars, transportVars
<1>2. expired' \in BOOLEAN
  BY <1>1 DEF PumpInv, TimersFit
<1>3. /\ Begun' = Begun /\ \A x : PacketFits(x) => PacketFits(x)'
  BY <1>1, SessionSame
<1>4. TransportFits'
  <2>1. (\A i \in DOMAIN rx : PacketFits(rx[i]))' /\ IsQueue(rx')
    BY <1>1, <1>3 DEF PumpInv, TransportFits, IsQueue
  <2>2. (pc = "poll" /\ pending.kind = "Notification" => PacketFits(pending.arg))'
    BY <1>1, <1>3 DEF PumpInv, TransportFits, PacketFits
  <2> QED BY <1>1, <1>3, <2>1, <2>2 DEF PumpInv, TransportFits
<1>5. WritesFit'
  BY <1>1, CountsStay
<1> QED BY <1>1, <1>2, <1>4, <1>5, OutsideKeeps

-----------------------------------------------------------------------------
(* The invariant *)

LEMMA InitPumpInv == ASSUME PumpInit PROVE PumpInv
<1>1. /\ state = "Idle" /\ ~finished /\ ~exchanging /\ step = "AwaitingNonce"
      /\ pc = "poll" /\ pending = Event("Started", None) /\ todo = <<>> /\ info = <<>>
      /\ deadline = None /\ expired = FALSE /\ result = None /\ phases = <<>>
      /\ link = "up" /\ subscribed = FALSE /\ rx = <<>> /\ sent = 0 /\ writes = 0
  BY DEF PumpInit, Init
<1>2. SessionInv
  BY InitInv DEF PumpInit
<1>3. IsQueue(<<>>) /\ DOMAIN <<>> = {}
  BY DEF IsQueue
<1>4. ~Begun /\ Ahead = {} /\ \A k : AheadOf(k) = {}
  BY <1>1, <1>3 DEF Begun, Ahead, AheadOf
<1>5. ListFits /\ PhasesFit
  BY <1>1, <1>3, <1>4 DEF ListFits, PhasesFit, InOrder
<1>6. PlaceFits
  BY <1>1, <1>4 DEF PlaceFits
<1>7. TimersFit
  BY <1>1, <1>4 DEF TimersFit
<1>8. TransportFits
  <2>1. pending.kind = "Started" /\ 0 \in 0..MaxPackets
    BY <1>1, PumpAssumption DEF Event
  <2>2. IsQueue(rx) /\ DOMAIN rx = {}
    BY <1>1, <1>3
  <2> QED BY <1>1, <1>4, <2>1, <2>2 DEF TransportFits
<1>9. WritesFit
  BY <1>1 DEF WritesFit
<1> QED BY <1>2, <1>5, <1>6, <1>7, <1>8, <1>9 DEF PumpInv

LEMMA NextPumpInv == ASSUME PumpInv, [PumpNext \/ Returned]_vars PROVE PumpInv'
<1>1. CASE ApplyAction
  BY <1>1, ApplyAnnounceKeeps, ApplyReadKeeps, ApplySubscribeKeeps, ApplyWriteKeeps,
     ApplySetTimerKeeps, ApplyPhaseKeeps, ApplyDoneKeeps DEF ApplyAction
<1>2. CASE PollSession \/ EndOfActions \/ Receive \/ ReportFinished
  BY <1>2, PollSessionKeeps, EndOfActionsKeeps, ReceiveKeeps, ReportFinishedKeeps
<1>3. CASE LockSends
  BY <1>3, LockSendsKeeps
<1>4. CASE LockDropsLink \/ DeadlinePasses \/ Disconnect \/ Returned \/ UNCHANGED vars
  BY <1>4, LinkAndClockKeep DEF Returned
<1> QED BY <1>1, <1>2, <1>3, <1>4 DEF PumpNext, PumpStep

\* The inductive invariant holds in every state of every run of run_session,
\* for every key, every option, every notification the lock may send and every
\* way a transport call may fail (pump, run_session).
THEOREM PumpInvariant == PumpSpec => []PumpInv
<1>1. PumpInit => PumpInv
  BY InitPumpInv
<1>2. PumpInv /\ [PumpNext \/ Returned]_vars => PumpInv'
  BY NextPumpInv
<1> QED BY <1>1, <1>2, PTL DEF PumpSpec

\* Every variable of the pump keeps the type of its Rust counterpart.
THEOREM PumpTypes == PumpSpec => []PumpTypeOK
<1>1. PumpInv => PumpTypeOK
  <2> SUFFICES ASSUME PumpInv PROVE PumpTypeOK
    OBVIOUS
  <2>1. /\ TypeOK /\ info \in {<<>>} \cup {<<i>> : i \in Infos}
        /\ deadline \in Timers \cup {None} /\ expired \in BOOLEAN
        /\ \A i \in DOMAIN phases : phases[i] \in {PhaseOrder[k] : k \in 1..4}
        /\ link \in {"up", "down"} /\ subscribed \in BOOLEAN
        /\ sent \in 0..MaxPackets /\ writes \in Nat
        /\ pending.kind \in {"Started", "ProtocolInfo", "Notification", "Timer", "LinkClosed"}
    BY DEF PumpInv, SessionInv, PlaceFits, TimersFit, PhasesFit, TransportFits
  <2>2. pc \in {"poll", "apply", "wait", "finish", "disconnect", "returned"}
    BY DEF PumpInv, PlaceFits
  <2> QED BY <2>1, <2>2 DEF PumpTypeOK
<1> QED BY <1>1, PumpInvariant, PTL

-----------------------------------------------------------------------------
(* What run_session promises *)

\* run_session returns Ok for a v0200 lock only with the first final result
\* that lock recorded, or with none when it recorded none, and for a v0100
\* lock only after both writes were made (run_session, Session::poll).
THEOREM PumpReturnsVerdict == PumpSpec => []ResultIsVerdict
<1>1. PumpInv => ResultIsVerdict
  <2> SUFFICES ASSUME PumpInv, result # None, result.err = None
               PROVE  IF result.outcome.version = 2
                      THEN result.outcome.op = finalOpResult /\ LatchedIsFirstFinal
                      ELSE writes = 2 /\ step = "AwaitingResult"
    BY DEF ResultIsVerdict
  <2>1. \A e \in ErrorCode : Err(e).err # None
    BY ErrIsSome
  <2>2. result # Err("Transport") /\ \A e \in ErrorCode : result # Err(e)
    BY <2>1 DEF ErrorCode
  <2>3. Finishes(result) /\ todo = <<>>
    BY <2>2 DEF PumpInv, PlaceFits
  <2>4. CASE state = "V0200" /\ result = Ok(OutcomeOf(2, finalOpResult))
    BY <2>4 DEF Ok, OutcomeOf, PumpInv, SessionInv
  <2>5. CASE /\ state = "V0100" /\ step = "AwaitingResult"
             /\ \E op \in Byte : result = Ok(OutcomeOf(1, op))
    <3>1. result.outcome.version = 1
      BY <2>5 DEF Ok, OutcomeOf
    <3>2. AheadOf("Write") = {} /\ AheadOf("Done") = {}
      BY <2>3 DEF AheadOf, Ahead
    <3>3. writes + Due = 2 /\ Due = 0 /\ writes \in Nat
      BY <2>5, <3>2 DEF PumpInv, WritesFit, Sound, Due, TransportFits
    <3> QED BY <2>5, <3>1, <3>3
  <2> QED BY <2>2, <2>3, <2>4, <2>5 DEF Finishes, ErrorCode
<1> QED BY <1>1, PumpInvariant, PTL

\* Neither side breaks the contract between shell and session: the pump never
\* feeds an event the state rules out, and the session never leaves the pump
\* with nothing to wait for (pump, Session::poll).
THEOREM PumpKeepsContract == PumpSpec => []ContractKept
<1>1. PumpInv => ContractKept
  <2> SUFFICES ASSUME PumpInv, result # None
               PROVE  result.err \notin {"Unexpected", "AskedForNothing", "Cancelled"}
    BY DEF ContractKept
  <2>1. result = Err("Transport") \/ Finishes(result)
    BY DEF PumpInv, PlaceFits
  <2>2. CASE \E o : result = Ok(o)
    <3>1. result.err = None
      BY <2>2 DEF Ok
    <3> QED BY <3>1, NoneAssumption DEF ErrorCode
  <2>3. CASE \E e \in {"Transport", "Timeout", "Disconnected", "InvalidData", "InvalidState",
                       "InvalidCrc", "AuthenticationFailed", "InvalidProtocolVersion"} :
               result = Err(e)
    BY <2>3 DEF Err
  <2> QED BY <2>1, <2>2, <2>3 DEF Finishes
<1> QED BY <1>1, PumpInvariant, PTL

\* The observer is told the phases in order, each at most once, and Finished
\* before the teardown unless a write failed after the session had decided to
\* finish (run_session, Action::Phase).
THEOREM PumpPhasesInOrder == PumpSpec => []PhasesInOrder
<1>1. PumpInv => PhasesInOrder
  <2> SUFFICES ASSUME PumpInv PROVE PhasesInOrder
    OBVIOUS
  <2>1. \A i, j \in DOMAIN phases : i < j => Rank(phases[i]) < Rank(phases[j])
    BY DEF PumpInv, PhasesFit
  <2>2. ASSUME pc \in {"disconnect", "returned"}
        PROVE  \/ phases[Len(phases)] = "Finished"
               \/ result = Err("Transport") /\ finished /\ todo # <<>>
    <3>1. CASE Phase("Finished") \in Ahead /\ finished
      <4>1. todo # <<>> /\ result # None
        BY <2>2, <3>1 DEF Ahead, PumpInv, PlaceFits
      <4> QED BY <3>1, <4>1 DEF PumpInv, PlaceFits
    <3>2. CASE \E i \in DOMAIN phases : phases[i] = "Finished"
      <4>1. PICK i \in DOMAIN phases : phases[i] = "Finished"
        BY <3>2
      <4>2. DOMAIN phases = 1..Len(phases) /\ Len(phases) \in Nat
        BY DEF PumpInv, PhasesFit, IsQueue
      <4>3. CASE i < Len(phases)
        <5>1. Len(phases) \in DOMAIN phases
          BY <4>1, <4>2
        <5>2. Rank(phases[i]) < Rank(phases[Len(phases)])
          BY <2>1, <4>1, <4>3, <5>1
        <5>3. phases[Len(phases)] \in PhaseNames
          BY <5>1, PhaseNamesListed DEF PumpInv, PhasesFit
        <5> QED BY <4>1, <5>2, <5>3, Ranks DEF PhaseNames
      <4> QED BY <4>1, <4>2, <4>3
    <3> QED BY <2>2, <3>1, <3>2 DEF PumpInv, PhasesFit
  <2> QED BY <2>1, <2>2 DEF PhasesInOrder
<1> QED BY <1>1, PumpInvariant, PTL

\* Every v0200 notification taken from the queue has been answered before the
\* pump waits again or reports success, CLOSE included (pump, apply).
THEOREM PumpAnswersFirst == PumpSpec => []AnsweredBeforeWaiting
<1>1. PumpInv => AnsweredBeforeWaiting
  <2> SUFFICES ASSUME PumpInv, state = "V0200",
                      pc = "wait" \/ (result # None /\ result.err = None)
               PROVE  writes = sent - Len(rx)
    BY DEF AnsweredBeforeWaiting
  <2>1. todo = <<>> /\ pc # "poll"
    <3>1. CASE pc = "wait"
      BY <3>1 DEF PumpInv, PlaceFits
    <3>2. CASE result # None /\ result.err = None
      <4>1. result # Err("Transport")
        BY <3>2, ErrIsSome DEF ErrorCode
      <4> QED BY <3>2, <4>1 DEF PumpInv, PlaceFits
    <3> QED BY <3>1, <3>2
  <2>2. AheadOf("Write") = {} /\ AheadOf("Done") = {}
    BY <2>1 DEF AheadOf, Ahead
  <2>3. pc = "wait" => result = None
    BY DEF PumpInv, PlaceFits
  <2>4. Sound /\ Due = 0 /\ Unanswered = 0
    BY <2>1, <2>2, <2>3 DEF Sound, Due, Unanswered
  <2>5. writes \in Nat
    BY DEF PumpInv, TransportFits
  <2> QED BY <2>4, <2>5 DEF PumpInv, WritesFit
<1> QED BY <1>1, PumpInvariant, PTL

\* In the v0100 flow a deadline that has passed gives way only to the timer of
\* the next step: noise never pushes it out (Session::poll_v0100).
THEOREM NoiseKeepsTimer == PumpSpec => NoiseKeepsDeadline
<1> DEFINE Kept == state = "V0100" /\ expired /\ ~expired' =>
                     deadline = "FirstPacket" /\ deadline' = "Packet"
<1>1. PumpInv /\ [PumpNext \/ Returned]_vars => [Kept]_vars
  <2> SUFFICES ASSUME PumpInv, PumpNext \/ Returned, state = "V0100", expired, ~expired'
               PROVE  deadline = "FirstPacket" /\ deadline' = "Packet"
    OBVIOUS
  <2>1. ApplySetTimer
    BY DEF PumpNext, PumpStep, PollSession, ApplyAction, ApplyAnnounce, ApplyReadProtocolInfo,
           ApplySubscribe, ApplyWrite, ApplyPauseOrNote, ApplyPhase, ApplyDone, EndOfActions,
           Receive, ReceiveNotification, ReceiveLinkClosed, TimerFires, Deliver,
           ReportFinished, Disconnect, LockSends, LockDropsLink, DeadlinePasses,
           Returned, vars, pumpVars
  <2>2. /\ Head(todo) \in AheadOf("SetTimer") /\ deadline' = Head(todo).arg
    BY <2>1, Taken DEF ApplySetTimer, AheadOf
  <2>3. deadline # None
    BY DEF PumpInv, TimersFit
  <2>4. deadline = "FirstPacket" /\ AheadOf("SetTimer") = {SetTimer("Packet")}
    BY <2>2, <2>3 DEF PumpInv, TimersFit
  <2> QED BY <2>2, <2>4, ActionIs
<1> QED BY <1>1, PumpInvariant, PTL DEF PumpSpec, NoiseKeepsDeadline

-----------------------------------------------------------------------------
(* The attempt as its caller sees it *)

LastPhase == IF phases = <<>> THEN "NotStarted" ELSE phases[Len(phases)]

\* What the caller sees does not change.
SeenSame == UNCHANGED <<phases, finalOpResult, result>> /\ (pc' = "returned" <=> pc = "returned")

LEMMA StuttersOutside == ASSUME SeenSame PROVE UNCHANGED Abstract!attemptVars
<1>1. (pc' = "returned") = (pc = "returned")
  BY DEF SeenSame
<1> QED BY <1>1 DEF SeenSame, Abstract!attemptVars

LEMMA BeforeIs ==
  ASSUME NEW p \in {"NotStarted"} \cup PhaseNames, NEW q \in PhaseNames,
         p # "NotStarted" => Rank(p) < Rank(q)
  PROVE  Abstract!Before(p, q) /\ q \in {Abstract!Phases[i] : i \in 2..5}
<1>1. /\ Abstract!Phases[1] = "NotStarted" /\ Abstract!Phases[2] = "DetectingVersion"
      /\ Abstract!Phases[3] = "Authenticating" /\ Abstract!Phases[4] = "Exchanging"
      /\ Abstract!Phases[5] = "Finished"
  BY DEF Abstract!Phases
<1>2. /\ \A x \in PhaseNames : Rank(x) + 1 \in 2..5 /\ Abstract!Phases[Rank(x) + 1] = x
      /\ \A x \in PhaseNames : Rank(x) \in Nat
  BY <1>1, Ranks DEF PhaseNames
<1>3. PICK i \in 1..5 : Abstract!Phases[i] = p /\ i < Rank(q) + 1
  <2>1. CASE p = "NotStarted"
    BY <1>1, <1>2, <2>1
  <2>2. CASE p # "NotStarted"
    <3>1. p \in PhaseNames /\ Rank(p) + 1 < Rank(q) + 1 /\ Rank(p) + 1 \in 1..5
      BY <1>2, <2>2
    <3> QED BY <1>2, <3>1
  <2> QED BY <2>1, <2>2
<1> QED BY <1>2, <1>3 DEF Abstract!Before

\* The last phase reported, and one more.
LEMMA LastPhaseIs ==
  ASSUME PumpInv
  PROVE  /\ LastPhase \in {"NotStarted"} \cup PhaseNames
         /\ LastPhase # "NotStarted" => \E i \in DOMAIN phases : LastPhase = phases[i]
<1>1. IsQueue(phases) /\ \A i \in DOMAIN phases : phases[i] \in PhaseNames
  BY PhaseNamesListed DEF PumpInv, PhasesFit
<1>2. phases # <<>> => Len(phases) \in DOMAIN phases
  BY <1>1 DEF IsQueue
<1> QED BY <1>1, <1>2 DEF LastPhase

LEMMA PhaseAdvances ==
  ASSUME PumpInv, NEW p \in PhaseNames, phases' = Append(phases, p),
         \A i \in DOMAIN phases : Rank(phases[i]) < Rank(p),
         result # None => p = "Finished", UNCHANGED <<finalOpResult, result>>,
         pc' = "returned" <=> pc = "returned"
  PROVE  Abstract!Next
<1>1. LastPhase' = p
  <2>1. PICK q, r : q = phases /\ r = phases'
    OBVIOUS
  <2>2. IsQueue(q)
    BY <2>1 DEF PumpInv, PhasesFit, IsQueue
  <2>3. IsLonger(q, r, p)
    BY <2>1, <2>2, PutOn
  <2> QED BY <2>1, <2>3 DEF IsLonger, LastPhase
<1>2. Abstract!Before(LastPhase, p) /\ p \in {Abstract!Phases[i] : i \in 2..5}
  <2>1. LastPhase # "NotStarted" => Rank(LastPhase) < Rank(p)
    BY LastPhaseIs
  <2> QED BY <2>1, LastPhaseIs, BeforeIs
<1>3. (pc' = "returned") = (pc = "returned")
  OBVIOUS
<1>4. Abstract!Advance
  BY <1>1, <1>2, <1>3 DEF Abstract!Advance, LastPhase
<1> QED BY <1>4 DEF Abstract!Next

\* The lock decides in a poll, and only once.
LEMMA PollDecides ==
  ASSUME PumpInv, PumpInv', PollSession
  PROVE  [Abstract!Next]_(Abstract!attemptVars)
<1>1. /\ pc = "poll" /\ pc' = "apply" /\ UNCHANGED <<phases, result>> /\ Poll(pending)
  BY DEF PollSession
<1>2. result = None
  BY <1>1 DEF PumpInv, PlaceFits
<1>3. finalOpResult' = finalOpResult \/ finalOpResult = None
  <2>1. CASE state = "V0200"
    BY <1>1, <2>1 DEF Poll, PollFinished, Abort, Dispatch, PollV0200, RejectPacket,
       AnswerPacket, Latch, Expire0200, Close0200, Unexpected, v0200Vars
  <2>2. CASE state # "V0200"
    BY <2>2, NoVerdictYet DEF PumpInv
  <2> QED BY <2>1, <2>2
<1>4. CASE finalOpResult' = finalOpResult
  BY <1>1, <1>4, StuttersOutside DEF SeenSame
<1>5. CASE finalOpResult = None /\ finalOpResult' # None
  <2>1. finalOpResult' \in Byte /\ IsFinal(finalOpResult')
    BY <1>5 DEF PumpInv, SessionInv, TypeOK, LatchedIsFirstFinal
  <2>2. PICK op : op = finalOpResult'
    OBVIOUS
  <2>3. Abstract!IsFinal(op)
    BY <2>1, <2>2 DEF Abstract!IsFinal, Abstract!Group, IsFinal, Group
  <2>4. (pc' = "returned") = (pc = "returned")
    BY <1>1
  <2>5. op \in Abstract!Byte
    BY <2>1, <2>2 DEF Abstract!Byte, Byte
  <2>6. Abstract!Decide
    BY <1>1, <1>2, <1>5, <2>2, <2>3, <2>4, <2>5 DEF Abstract!Decide
  <2> QED BY <2>6 DEF Abstract!Next
<1> QED BY <1>3, <1>4, <1>5

\* What the pump returns is what the attempt allows.
LEMMA ReturnEnds ==
  ASSUME PumpInv, result = None, NEW r, result' = r, UNCHANGED <<phases, finalOpResult>>,
         r = Err("Transport") \/ Finishes(r), pc' = "returned" <=> pc = "returned"
  PROVE  Abstract!Next
<1>1. (pc' = "returned") = (pc = "returned")
  OBVIOUS
<1>2. /\ \A o : Abstract!Ok(o) = Ok(o)
      /\ \A e : Abstract!Err(e) = Err(e)
      /\ \A v, op : Abstract!OutcomeOf(v, op) = OutcomeOf(v, op)
  BY DEF Abstract!Ok, Abstract!Err, Abstract!OutcomeOf, Abstract!IsAccepted, Abstract!Group,
         Ok, Err, OutcomeOf, IsAccepted, Group
<1>3. CASE r = Ok(OutcomeOf(2, finalOpResult))
  BY <1>1, <1>2, <1>3 DEF Abstract!Next, Abstract!Succeed
<1>4. CASE state = "V0100" /\ \E op \in Byte : r = Ok(OutcomeOf(1, op))
  <2>1. finalOpResult = None /\ Abstract!Byte = Byte
    BY <1>4, NoVerdictYet DEF PumpInv, Abstract!Byte, Byte
  <2>2. Abstract!Succeed
    BY <1>1, <1>2, <1>4, <2>1 DEF Abstract!Succeed
  <2> QED BY <2>2 DEF Abstract!Next
<1>5. CASE \E e \in {"Timeout", "Disconnected", "Transport", "InvalidData", "InvalidState",
                     "InvalidCrc", "AuthenticationFailed", "InvalidProtocolVersion"} :
             /\ r = Err(e)
             /\ finalOpResult # None => e \notin {"Timeout", "Disconnected"}
  <2>1. Abstract!Fail
    BY <1>1, <1>2, <1>5 DEF Abstract!Fail
  <2> QED BY <2>1 DEF Abstract!Next
<1> QED BY <1>3, <1>4, <1>5 DEF Finishes

\* Most steps are not seen.
LEMMA UnseenSteps ==
  ASSUME PumpInv,
         \/ ApplyAnnounce \/ ApplyReadProtocolInfo \/ ApplyPauseOrNote \/ ApplySetTimer
         \/ Receive \/ LockSends \/ LockDropsLink \/ DeadlinePasses \/ Returned \/ UNCHANGED vars
  PROVE  [Abstract!Next]_(Abstract!attemptVars)
<1>1. finalOpResult' = finalOpResult /\ UNCHANGED <<phases, result>>
  BY DEF ApplyAnnounce, ApplyReadProtocolInfo, ApplyPauseOrNote, ApplySetTimer, Apply, Receive,
         ReceiveNotification, ReceiveLinkClosed, TimerFires, Deliver, LockSends, LockDropsLink,
         DeadlinePasses, Returned, vars, sessionVars, v0200Vars, pumpVars
<1>2. pc' = "returned" <=> pc = "returned"
  BY DEF ApplyAnnounce, ApplyReadProtocolInfo, ApplyPauseOrNote, ApplySetTimer, Apply, Receive,
         ReceiveNotification, ReceiveLinkClosed, TimerFires, Deliver, LockSends, LockDropsLink,
         DeadlinePasses, Returned, vars, pumpVars
<1> QED BY <1>1, <1>2, StuttersOutside DEF SeenSame

LEMMA EndOfActionsUnseen ==
  ASSUME PumpInv, PumpInv', EndOfActions
  PROVE  [Abstract!Next]_(Abstract!attemptVars)
<1>1. pc = "apply" /\ todo = <<>> /\ UNCHANGED <<sessionVars, todo, info, deadline, phases>>
  BY DEF EndOfActions
<1>2. pc' # "returned"
  BY DEF EndOfActions, Return
<1>3. result = None /\ state # "Idle" /\ \A k : AheadOf(k) = {}
  BY <1>1 DEF PumpInv, PlaceFits, AheadOf, Ahead
<1>4. ~finished
  BY <1>1, <1>3 DEF PumpInv, ListFits
<1>5. info # <<>> \/ deadline # None
  <2>1. ASSUME info = <<>> PROVE deadline # None
    <3>1. state # "Detecting"
      BY <1>1, <1>3, <1>4, <2>1 DEF PumpInv, PlaceFits
    <3>2. Begun
      BY <1>3, <3>1 DEF PumpInv, SessionInv, TypeOK, Begun
    <3> QED BY <1>3, <1>4, <3>2 DEF PumpInv, TimersFit
  <2> QED BY <2>1
<1>6. UNCHANGED result
  BY <1>5 DEF EndOfActions
<1>7. finalOpResult' = finalOpResult
  BY <1>1, SessionSame
<1> QED BY <1>1, <1>2, <1>6, <1>7, StuttersOutside DEF SeenSame

\* A phase of the session is reported.
LEMMA PhaseIsSeen ==
  ASSUME PumpInv, ApplyPhase
  PROVE  [Abstract!Next]_(Abstract!attemptVars)
<1>1. Apply("Phase") /\ UNCHANGED <<pc, result>>
  BY DEF ApplyPhase
<1>2. PICK h, p : h = Head(todo) /\ p = h.arg
  OBVIOUS
<1>3. h \in AheadOf("Phase") /\ p \in PhaseNames /\ pc = "apply" /\ result = None
  BY <1>1, <1>2, Taken, ActionIs, PhaseNamesListed DEF ActionFits, AheadOf
<1>4. \A i \in DOMAIN phases : Rank(phases[i]) < Rank(p)
  BY <1>2, <1>3 DEF PumpInv, PhasesFit
<1>5. phases' = Append(phases, p) /\ finalOpResult' = finalOpResult
  BY <1>1, <1>2, Taken, SessionSame DEF ApplyPhase
<1>6. Abstract!Next
  BY <1>1, <1>3, <1>4, <1>5, PhaseAdvances
<1> QED BY <1>6

\* The pump's own report of the last phase.
LEMMA ReportIsSeen ==
  ASSUME PumpInv, ReportFinished
  PROVE  [Abstract!Next]_(Abstract!attemptVars)
<1>1. /\ pc = "finish" /\ pc' = "disconnect" /\ UNCHANGED <<sessionVars, result>>
      /\ phases' = IF finished THEN phases ELSE Append(phases, "Finished")
  BY DEF ReportFinished
<1>2. finalOpResult' = finalOpResult
  BY <1>1, SessionSame
<1>3. CASE finished
  BY <1>1, <1>2, <1>3, StuttersOutside DEF SeenSame
<1>4. CASE ~finished
  <2>1. Reached \in 0..3
    BY <1>1, <1>4 DEF Reached
  <2>2. Rank("Finished") = 4 /\ "Finished" \in PhaseNames
    BY Ranks DEF PhaseNames
  <2>3. \A i \in DOMAIN phases : phases[i] \in PhaseNames /\ Rank(phases[i]) <= Reached
    BY PhaseNamesListed DEF PumpInv, PhasesFit
  <2>4. \A i \in DOMAIN phases : Rank(phases[i]) < Rank("Finished")
    BY <2>1, <2>2, <2>3, Ranks DEF PhaseNames
  <2>5. Abstract!Next
    BY <1>1, <1>2, <1>4, <2>2, <2>4, PhaseAdvances
  <2> QED BY <2>5
<1> QED BY <1>3, <1>4

\* The session is done, or a transport call fails.
LEMMA EndingIsSeen ==
  ASSUME PumpInv, ApplySubscribe \/ ApplyWrite \/ ApplyDone
  PROVE  [Abstract!Next]_(Abstract!attemptVars)
<1>1. PICK kind \in {"Subscribe", "Write", "Done"} : Apply(kind) /\ (ApplyDone <=> kind = "Done")
  BY DEF ApplySubscribe, ApplyWrite, ApplyDone, Apply
<1>2. pc = "apply" /\ result = None /\ UNCHANGED phases /\ finalOpResult' = finalOpResult
  BY <1>1, Taken, SessionSame DEF ApplySubscribe, ApplyWrite, ApplyDone
<1>3. CASE UNCHANGED <<pc, result>>
  BY <1>2, <1>3, StuttersOutside DEF SeenSame
<1>4. CASE Return(Err("Transport"))
  <2>1. Abstract!Next
    BY <1>2, <1>4, ReturnEnds DEF Return
  <2> QED BY <2>1
<1>5. CASE ApplyDone
  <2>1. PICK r : r = Head(todo).arg
    OBVIOUS
  <2>2. Finishes(r)
    BY <1>1, <1>5, <2>1, Taken, ActionIs DEF ActionFits
  <2>3. pc' = "finish" /\ result' = r
    BY <1>5, <2>1 DEF ApplyDone, Return
  <2>4. Abstract!Next
    BY <1>2, <2>2, <2>3, ReturnEnds
  <2> QED BY <2>4
<1> QED BY <1>3, <1>4, <1>5 DEF ApplySubscribe, ApplyWrite

LEMMA DisconnectIsSeen ==
  ASSUME PumpInv, PhasesInOrder, Disconnect
  PROVE  [Abstract!Next]_(Abstract!attemptVars)
<1>1. pc = "disconnect" /\ pc' = "returned" /\ UNCHANGED <<sessionVars, result, phases>>
  BY DEF Disconnect
<1>2. finalOpResult' = finalOpResult /\ result # None
  BY <1>1, SessionSame DEF PumpInv, PlaceFits
<1>3. LastPhase = "Finished" \/ result.err = "Transport"
  <2>1. CASE phases[Len(phases)] = "Finished" /\ phases # <<>>
    BY <2>1 DEF LastPhase
  <2>2. CASE phases = <<>>
    <3>1. ~(\E i \in DOMAIN phases : phases[i] = "Finished")
      BY <2>2
    <3>2. finished /\ Phase("Finished") \in Ahead
      BY <1>1, <3>1 DEF PumpInv, PhasesFit
    <3>3. todo # <<>>
      BY <3>2 DEF Ahead
    <3>4. result = Err("Transport")
      BY <1>2, <3>3 DEF PumpInv, PlaceFits
    <3> QED BY <3>4, ErrIsSome DEF ErrorCode
  <2>3. CASE result = Err("Transport")
    BY <2>3, ErrIsSome DEF ErrorCode
  <2> QED BY <1>1, <2>1, <2>2, <2>3 DEF PhasesInOrder
<1>4. Abstract!End
  BY <1>1, <1>2, <1>3 DEF Abstract!End, LastPhase
<1> QED BY <1>4 DEF Abstract!Next

\* run_session implements one opening attempt: the phases the observer is told
\* only move forward, the lock's verdict is latched once, what is returned is
\* that verdict or an error the verdict does not rule out, and nothing is
\* returned without it (run_session, pump, Session::poll).
THEOREM PumpImplementsAttempt == PumpSpec => AttemptSpec
<1>1. PumpInit => Abstract!Init
  <2> SUFFICES ASSUME PumpInit PROVE Abstract!Init
    OBVIOUS
  <2>1. phases = <<>> /\ finalOpResult = None /\ result = None /\ pc # "returned"
    BY DEF PumpInit, Init
  <2>2. (pc = "returned") = FALSE
    BY <2>1
  <2> QED BY <2>1, <2>2 DEF Abstract!Init
<1>2. PumpInv /\ PumpInv' /\ PhasesInOrder /\ [PumpNext \/ Returned]_vars
        => [Abstract!Next]_(Abstract!attemptVars)
  <2> SUFFICES ASSUME PumpInv, PumpInv', PhasesInOrder, [PumpNext \/ Returned]_vars
               PROVE  [Abstract!Next]_(Abstract!attemptVars)
    OBVIOUS
  <2>1. CASE PollSession
    BY <2>1, PollDecides
  <2>2. CASE EndOfActions
    BY <2>2, EndOfActionsUnseen
  <2>3. CASE ReportFinished
    BY <2>3, ReportIsSeen
  <2>4. CASE Disconnect
    BY <2>4, DisconnectIsSeen
  <2>5. CASE ApplyPhase
    BY <2>5, PhaseIsSeen
  <2>6. CASE ApplySubscribe \/ ApplyWrite \/ ApplyDone
    BY <2>6, EndingIsSeen
  <2>7. CASE \/ ApplyAnnounce \/ ApplyReadProtocolInfo \/ ApplyPauseOrNote \/ ApplySetTimer
             \/ Receive \/ LockSends \/ LockDropsLink \/ DeadlinePasses \/ Returned
             \/ UNCHANGED vars
    BY <2>7, UnseenSteps
  <2> QED BY <2>1, <2>2, <2>3, <2>4, <2>5, <2>6, <2>7 DEF PumpNext, PumpStep, ApplyAction
<1> QED BY <1>1, <1>2, PumpInvariant, PumpPhasesInOrder, PTL
        DEF PumpSpec, AttemptSpec, Abstract!Spec
=============================================================================
