----------------------------- MODULE MCSession -----------------------------
(***************************************************************************)
(* A small instance of Session under the browser's shell, whose page makes *)
(* any call at any time.                                                   *)
(***************************************************************************)
EXTENDS WasmShell

CONSTANTS MaxReports,  \* audit results recorded in one attempt
          MaxRefusals  \* kN reads refused in one attempt

Fill(n) == [i \in 1..16 |-> n + i]

RandomA == Fill(60)
RandomB == Fill(100)

MCRandoms == {RandomB}

\* Tag 4 needs a secure session for reading; tag 5 is readable by any lock.
MCKey ==
  MaterialiseSystemTags(
    [fixed |-> [id \in 0..2 |-> IF id = 2 THEN Fill(20) ELSE <<id>>],
     tags  |-> [id \in {4} |-> Tag({"READABLE", "WRITABLE"}, <<40>>)]])

\* Every way of detecting the version, and office mode once.
MCOptions == {o \in OptionsType :
                o.mode = "Office" => o.detection = "None" /\ o.notifyReadable}

\* Three IVs that follow one another: an old IV can come round again.
MCLastBlock(key, iv, body) == (iv + 1) % 3

MCPackets0100 ==
  {[prefix |-> None, size |-> 0, op |-> 0]}
    \cup [prefix : {3, 5, 9}, size : {1, 2, 17}, op : {2, 3}]

MCBodies ==
  {Control(op, None, None) :
     op \in {"OpenSessionStep1", "OpenSessionStep2", "SetKeyValue", "GetVersion", "Error"}}
    \cup {Control("OpenSessionStep2", RandomA, b) : b \in {RandomB, RotateRight(RandomB)}}
    \cup {Control("SetKeyValue", Fill(200), None)}

MCCommands ==
  {Command("Close", None, None), Command("Open", None, <<1>>), Command("Unknown", None, None)}
    \cup {Command("ReadTag", t, None) : t \in {None, 1, 2, 4, 9, 11, 16}}
    \cup {Command("WriteTag", 11, <<op>>) : op \in {1, 2, 7}}
    \cup {Command("WriteTag", t, <<1>>) : t \in {1, 4, 9}}
    \cup {Command("WriteTag", 11, None)}

\* No other tag holds the bytes of kN.
ASSUME MCKnIsUnique == KnIsUnique

\* The pages: every way of detecting the version and office mode, most of them
\* replaying a recorded exchange, and four that the constructor refuses.
MCJsOptions ==
  LET Page(mode, detection, notify, replay) ==
        [typed |-> TRUE, mode |-> mode, detection |-> detection, notifyReadable |-> notify,
         random |-> replay]
  IN  {Page(None, d, FALSE, <<RandomB>>) : d \in {None, "read-only"}}
        \cup {Page("standard", "app-protocol", TRUE, None),
              Page(None, "none", None, <<>>), Page("office", "none", None, <<RandomB, RandomA>>)}
        \cup {[Page(None, None, None, None) EXCEPT !.typed = FALSE],
              Page("party", None, None, None), Page(None, "guess", None, None),
              Page(None, None, None, <<RandomB, <<1, 2>>>>)}

MCTimerIds == {"first-packet", "packet", "after-final-result", "lunch"}

\* A lock that has used up a bound stays silent; every other event goes on.
MCNext ==
  \/ \E isKey \in BOOLEAN, js \in JsOptions : New(isKey, js)
  \/ \E e \in Events :
       /\ e.kind # "Timer"
       /\ e.kind = "Notification" => /\ Len(reported) < MaxReports
                                     /\ stack.justin.refusals < MaxRefusals
       /\ PollWith(e)
  \/ \E id \in TimerIds : Timer(id)
  \/ CallTrapped

MCSpec == ShellInit /\ [][MCNext]_shellVars
=============================================================================
