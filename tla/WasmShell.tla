----------------------------- MODULE WasmShell -----------------------------
(***************************************************************************)
(* The browser's shell (mkey-wasm): a page builds a Session from a key and *)
(* options of its own, and then calls its methods whenever it likes. Each  *)
(* call is one event; it throws, traps, or returns the session's actions.  *)
(* What a page may do is not in the repository: here it does anything.     *)
(*                                                                         *)
(* The actions cross into JavaScript one by one with their content, so the *)
(* session's own `actions` stand for them; only the names of timers make   *)
(* the way back.                                                           *)
(***************************************************************************)
EXTENDS Session

CONSTANTS JsOptions,  \* what a page may pass: None for a field left out, and
                      \* whether every field has the type it should
          TimerIds    \* the strings it may pass as a timer's id

VARIABLES handle,   \* "absent" before the constructor, then "session" or "trapped"
          random,   \* FixedRandom: its values and the next one, or None
          thrown    \* what the last call threw, or None

shellVars == <<sessionVars, handle, random, thrown>>

-----------------------------------------------------------------------------
\* JsOptions::into_options: the names a page may use, and the defaults.
ModeNamed(name) ==
  CASE name \in {None, "standard"} -> "Standard"
    [] name = "office"             -> "Office"
    [] OTHER                       -> None

DetectionNamed(name) ==
  CASE name \in {None, "app-protocol"} -> "AppProtocol"
    [] name = "read-only"              -> "ReadOnly"
    [] name = "none"                   -> "None"
    [] OTHER                           -> None

IntoOptions(js) ==
  [mode           |-> ModeNamed(js.mode),
   detection      |-> DetectionNamed(js.detection),
   notifyReadable |-> js.notifyReadable \in {None, TRUE}]

Refusals == {"not a mobile key", "invalid type", "unknown opening mode", "unknown detection mode",
             "every random value must be 16 bytes"}

ASSUME WasmAssumption ==
  /\ None \notin Refusals
  /\ \A js \in JsOptions :
       /\ js.random # None => js.random \in Seq(Seq(Byte))
       /\ js.typed /\ ModeNamed(js.mode) # None /\ DetectionNamed(js.detection) # None
          => IntoOptions(js) \in Options

\* What the constructor throws, in the order it looks at things: the key, the
\* types of the options (serde), their names, the random values.
Refuses(isKey, js) ==
  IF ~isKey THEN "not a mobile key"
  ELSE IF ~js.typed THEN "invalid type"
  ELSE IF ModeNamed(js.mode) = None THEN "unknown opening mode"
  ELSE IF DetectionNamed(js.detection) = None THEN "unknown detection mode"
  ELSE IF js.random # None /\ \E i \in DOMAIN js.random : Len(js.random[i]) # 16
  THEN "every random value must be 16 bytes"
  ELSE None

Throw(message) == thrown' = message /\ UNCHANGED <<sessionVars, handle, random>>

New(isKey, js) ==
  /\ handle = "absent"
  /\ \/ Refuses(isKey, js) # None /\ Throw(Refuses(isKey, js))
     \/ /\ Refuses(isKey, js) = None
        /\ handle' = "session" /\ thrown' = None
        /\ options' = IntoOptions(js)
        /\ stack' = NewStack(SessionKey(options'))
        /\ random' = IF js.random = None THEN None ELSE [values |-> js.random, next |-> 1]
        /\ UNCHANGED <<state, finished, firstPacket, finalOpResult, exchanging, traced,
                       reported, step, actions>>

-----------------------------------------------------------------------------
\* Does this event make the session draw a challenge?
Draws(e) ==
  /\ ~finished /\ state = "V0200" /\ e.kind = "Notification"
  /\ LET r == HandlePacket(stack, e.arg, None)
     IN  r.err = None /\ e.arg.control /\ r.out.body.op = "OpenSessionStep1"

\* FixedRandom::random16 gives the values in order.
Replays ==
  /\ random.next <= Len(random.values)
  /\ stack'.ssp.randomB = random.values[random.next]
  /\ random' = [random EXCEPT !.next = @ + 1]

\* poll: started, protocolInfo, notification, linkClosed, aborted, and timer
\* once its id has been parsed. A draw beyond the end of the list panics, and
\* the object is of no use after that.
PollWith(e) ==
  /\ handle = "session"
  /\ \/ /\ Poll(e)
        /\ IF random # None /\ Draws(e) THEN Replays ELSE UNCHANGED random
        /\ thrown' = None /\ UNCHANGED handle
     \/ /\ random # None /\ Draws(e) /\ random.next > Len(random.values)
        /\ handle' = "trapped" /\ thrown' = "unreachable"
        /\ UNCHANGED <<sessionVars, random>>

\* timer_id and parse_timer_id.
ParseTimerId(id) ==
  CASE id = "first-packet"       -> "FirstPacket"
    [] id = "packet"             -> "Packet"
    [] id = "after-final-result" -> "AfterFinalResult"
    [] OTHER                     -> None

Timer(id) ==
  /\ handle = "session"
  /\ \/ ParseTimerId(id) = None /\ Throw("unknown timer id")
     \/ ParseTimerId(id) # None /\ PollWith(Event("Timer", ParseTimerId(id)))

\* The trap left the object borrowed.
CallTrapped == handle = "trapped" /\ Throw("recursive use of an object")

ShellInit ==
  /\ Init
  /\ options = CHOOSE o \in Options : TRUE   \* not there yet
  /\ handle = "absent" /\ random = None /\ thrown = None

ShellNext ==
  \/ \E isKey \in BOOLEAN, js \in JsOptions : New(isKey, js)
  \/ \E e \in Events : e.kind # "Timer" /\ PollWith(e)
  \/ \E id \in TimerIds : Timer(id)
  \/ CallTrapped

ShellSpec == ShellInit /\ [][ShellNext]_shellVars

-----------------------------------------------------------------------------
\* One value is enough to replay an attempt, whatever the lock sends: a second
\* challenge is never drawn, because a handshake that fails, or that starts
\* again, ends the session, although SSP itself would go back to Ready for
\* another. Only a page that passed no value at all can make the call trap.
OneValueIsEnough ==
  /\ handle = "trapped" => random.values = <<>>
  /\ random # None => random.next <= 2

\* The inductive invariant: a challenge that has been sent is never sent again.
ChallengeSent ==
  finished \/ (state \notin {"Idle", "Detecting"} /\ (state = "V0200" => stack.ssp.state # "Ready"))

ShellInv ==
  /\ SessionInv
  /\ handle = "absent" => state = "Idle"
  /\ random # None => /\ random \in [values : Seq(Seq(Byte)), next : {1, 2}]
                      /\ random.next = 2 => ChallengeSent
  /\ handle = "trapped" => random.values = <<>>
=============================================================================
