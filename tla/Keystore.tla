------------------------------ MODULE Keystore ------------------------------
(***************************************************************************)
(* The life of a mobile key, from the desk to the door, over Virgil:       *)
(* keystore_gen writes a keystore, its public key is registered with the   *)
(* backend, which issues mobile keys to it; keystore_check tells whether   *)
(* the keystore is usable, mkey_decode turns an issued key into TLV hex,   *)
(* and mkey_open loads that and opens a lock (src/examples). Programs run  *)
(* one at a time; each can fail or be killed between any two of its steps, *)
(* and keystore_gen --force overwrites the files one by one.               *)
(***************************************************************************)
EXTENDS Virgil

CONSTANT Cuts   \* where a container or a TLV may be cut short on its way

\* No program, no function and no verdict is not one of them.
ASSUME KeystoreAssumption ==
  /\ Cuts \subseteq Nat
  /\ None # "ok"
  /\ None \notin {"gen", "check", "decode", "open"}
  /\ None \notin {"generate", "derive", "roundtrip", "decrypt"}

VARIABLES
  disk,       \* the keystore directory: a content, or None, per file
  program,    \* the program that runs, or None
  step,       \* the step it is at
  work,       \* its locals
  cut,        \* history: did the last keystore_gen stop among its writes?
  verdict,    \* what keystore_check last said of the files as they are
  device,     \* the pair registered with the backend, or None
  tlv         \* the TLV mkey_decode printed, with the pair it was issued to

diskVars == <<disk, cut, device>>
toolVars == <<program, step, work>>
outVars  == <<verdict, tlv>>
vars     == <<virgilVars, diskVars, toolVars, outVars>>

\* The files of keystore_gen, in the order it writes them.
Files == <<"private_key.der", "sdk.txt", "virgil_private_sec1.der",
           "virgil_public_spki.der", "virgil_public_key.b64", "virgil_public_key.pem">>

FileNames == {Files[i] : i \in DOMAIN Files}

Content(g) ==
  [f \in FileNames |-> CASE f = "private_key.der"         -> Rsa(g)
                         [] f = "sdk.txt"                 -> Wrapped(g, g)
                         [] f = "virgil_private_sec1.der" -> Sec1(g)
                         [] OTHER                         -> Spki(g)]

NoWork == [rsa |-> None, pair |-> None, files |-> None, next |-> 1,
           checked |-> TRUE, for |-> None, key |-> None, whole |-> FALSE]

Init ==
  /\ VirgilInit
  /\ disk = [f \in FileNames |-> None]
  /\ program = None /\ step = "off" /\ work = NoWork
  /\ cut = FALSE
  /\ verdict = None
  /\ device = None
  /\ tlv = None

-----------------------------------------------------------------------------
Runs(p, s) == program = p /\ step = s /\ Idle

Continues(s, w) == /\ step' = s
                   /\ work' = w
                   /\ UNCHANGED program

\* The process ends: what was in its memory is gone.
Exits == /\ program' = None /\ step' = "off" /\ work' = NoWork
         /\ call' = NoCall /\ regs' = NoRegs /\ live' = {} /\ ret' = None
         /\ UNCHANGED misuse

\* A step of the library function the program has called.
LibraryStep == VirgilNext /\ UNCHANGED <<diskVars, toolVars, outVars>>

Answer(x) == "ok" \in DOMAIN x   \* Ok, and not an error that `?` passes on

\* A keystore_gen that has touched a file.
Overwriting == /\ program = "gen" /\ step = "write"
               /\ work.next > 1 \/ disk[Files[1]] = Torn

\* An I/O error that `?` passes on, an error of the library, or a process that
\* is killed: what is on disk stays as it is.
Stops ==
  /\ program # None
  /\ Exits
  /\ cut' = (cut \/ Overwriting)
  /\ UNCHANGED <<disk, device, outVars>>

-----------------------------------------------------------------------------
\* A new random pair is one that nothing refers to yet.
New(g) == /\ \A f \in FileNames : disk[f] # None => disk[f].of # g
          /\ device # g
          /\ tlv # None => tlv.for # g

\* keystore_gen. Without --force it only starts in an empty directory.
StartGen(force) ==
  /\ program = None
  /\ force \/ \A f \in FileNames : disk[f] = None
  /\ \E g \in Pairs : New(g) /\ work' = [NoWork EXCEPT !.pair = g]
  /\ program' = "gen" /\ step' = "rsa"
  /\ UNCHANGED <<virgilVars, diskVars, outVars>>

\* Mutant: the wrapping key is written as soon as it is there.
GenerateAndWriteRsa ==
  /\ Runs("gen", "rsa")
  /\ Enter("generate", work.pair)
  /\ Continues("wrap", [work EXCEPT !.rsa = Rsa(work.pair)])
  /\ disk' = [disk EXCEPT !["private_key.der"] = Rsa(work.pair)]
  /\ UNCHANGED <<cut, device, outVars>>

\* generate_rsa_private_key, then generate_virgil_key_pair.
GenerateRsa ==
  /\ Runs("gen", "rsa")
  /\ Enter("generate", work.pair)
  /\ Continues("wrap", [work EXCEPT !.rsa = Rsa(work.pair)])
  /\ UNCHANGED <<diskVars, outVars>>

\* All six contents exist before the first file is touched.
WrapPair ==
  /\ Runs("gen", "wrap") /\ Answer(ret)
  /\ LET blob == EncryptPrivateKey(work.rsa, ret.ok.private)
     IN  /\ Answer(blob)
         /\ Continues("write",
              [work EXCEPT !.files = [Content(work.pair) EXCEPT
                 !["private_key.der"]         = work.rsa,
                 !["sdk.txt"]                 = blob.ok,
                 !["virgil_private_sec1.der"] = ret.ok.private,
                 !["virgil_public_spki.der"]  = ret.ok.public]])
  /\ UNCHANGED <<virgilVars, diskVars, outVars>>

\* write_file: opening truncates, the data follow. The verdict of an earlier
\* check is about files that are no longer there.
TruncateFile ==
  /\ Runs("gen", "write")
  /\ disk[Files[work.next]] # Torn
  /\ disk' = [disk EXCEPT ![Files[work.next]] = Torn]
  /\ verdict' = None
  /\ UNCHANGED <<virgilVars, cut, device, toolVars, tlv>>

WriteFile ==
  /\ Runs("gen", "write")
  /\ LET f == Files[work.next]
     IN  /\ disk[f] = Torn
         /\ disk' = [disk EXCEPT ![f] = work.files[f]]
  /\ IF work.next = Len(Files) THEN /\ Exits
                                    /\ cut' = FALSE
     ELSE /\ Continues("write", [work EXCEPT !.next = @ + 1])
          /\ UNCHANGED <<virgilVars, cut>>
  /\ verdict' = None
  /\ UNCHANGED <<device, tlv>>

-----------------------------------------------------------------------------
\* keystore_check: it needs three of the files, and looks at the plaintext copy
\* when there is one.
StartCheck ==
  /\ program = None
  /\ \A f \in {"private_key.der", "sdk.txt", "virgil_public_spki.der"} : disk[f] # None
  /\ program' = "check" /\ step' = "unwrap" /\ work' = NoWork
  /\ UNCHANGED <<virgilVars, diskVars, outVars>>

\* A plaintext copy, if there is one, is the key that sdk.txt holds.
CopyAgrees(private) == disk["virgil_private_sec1.der"] \in {None, private}

CheckUnwraps ==
  /\ Runs("check", "unwrap")
  /\ LET key == DecryptPrivateKey(disk["private_key.der"], disk["sdk.txt"])
     IN  /\ Answer(key)
         /\ Enter("derive", key.ok)
         /\ Continues("derived", [work EXCEPT !.checked = CopyAgrees(key.ok)])
  /\ UNCHANGED <<diskVars, outVars>>

\* Mutant: the derived key is only printed.
AnyPublicKeyAgrees(spki) == spki.kind = "spki"

PublicKeyAgrees(spki) == spki = disk["virgil_public_spki.der"]

CheckDerives ==
  /\ Runs("check", "derived") /\ Answer(ret)
  /\ Enter("roundtrip", disk["virgil_public_spki.der"])
  /\ Continues("roundtripped", [work EXCEPT !.checked = @ /\ PublicKeyAgrees(ret.ok)])
  /\ UNCHANGED <<diskVars, outVars>>

CheckConcludes ==
  /\ Runs("check", "roundtripped") /\ Answer(ret)
  /\ verdict' = IF work.checked /\ PublicKeyAgrees(ret.ok) THEN "ok" ELSE "fail"
  /\ Exits
  /\ UNCHANGED <<diskVars, tlv>>

-----------------------------------------------------------------------------
\* The owner registers the device with the public key the keystore names.
Register ==
  /\ program = None
  /\ disk["virgil_public_key.b64"] \notin {None, Torn}
  /\ device' = disk["virgil_public_key.b64"].of
  /\ UNCHANGED <<virgilVars, disk, cut, toolVars, outVars>>

\* The owner deletes the plaintext copy of the private key.
RemovePlaintextCopy ==
  /\ program = None
  /\ disk["virgil_private_sec1.der"] # None
  /\ disk' = [disk EXCEPT !["virgil_private_sec1.der"] = None]
  /\ UNCHANGED <<virgilVars, cut, device, toolVars, outVars>>

\* The owner throws the keystore away.
Discard ==
  /\ program = None
  /\ \E f \in FileNames : disk[f] # None
  /\ disk' = [f \in FileNames |-> None]
  /\ cut' = FALSE
  /\ verdict' = None
  /\ UNCHANGED <<virgilVars, device, toolVars, tlv>>

\* What arrives of the bytes that were sent: all of them, or up to a cut.
Arrivals(bytes) == {SubSeq(bytes, 1, n) : n \in {m \in Cuts : m < Len(bytes)} \cup {Len(bytes)}}

\* A container without its marker is one without a header.
Containers(sent) == {Container(TRUE, b) : b \in Arrivals(sent)} \cup {Container(FALSE, <<>>)}

\* mkey_decode, on the container the backend made for the registered device.
StartDecode ==
  /\ program = None
  /\ device # None
  /\ disk["private_key.der"] # None /\ disk["sdk.txt"] # None
  /\ \E sent \in SealedTo(device) :
       \E container \in Containers(sent) :
         Enter("decrypt", [rsa  |-> disk["private_key.der"], blob |-> disk["sdk.txt"],
                           container |-> container])
  /\ program' = "decode" /\ step' = "decrypted" /\ work' = [NoWork EXCEPT !.for = device]
  /\ UNCHANGED <<diskVars, outVars>>

DecodePrints ==
  /\ Runs("decode", "decrypted") /\ Answer(ret)
  /\ \E order \in SetToSeqs(StoredTags(ret.ok)) :
       tlv' = [for |-> work.for, bytes |-> ToBytes(ret.ok, order)]
  /\ Exits
  /\ UNCHANGED <<diskVars, verdict>>

\* mkey_open, or the browser's constructor: the key that is pasted in. What
\* the door makes of it is SaltoLock and Session.
OpenLoads ==
  /\ program = None
  /\ tlv # None
  /\ \E bytes \in Arrivals(tlv.bytes) :
       LET key == FromBytes(bytes)
       IN  /\ Answer(key)
           /\ work' = [NoWork EXCEPT !.for = tlv.for, !.key = key.ok, !.whole = bytes = tlv.bytes]
  /\ program' = "open" /\ step' = "loaded"
  /\ UNCHANGED <<virgilVars, diskVars, outVars>>

Next ==
  \/ LibraryStep \/ Stops
  \/ \E force \in BOOLEAN : StartGen(force)
  \/ GenerateRsa \/ WrapPair \/ TruncateFile \/ WriteFile
  \/ StartCheck \/ CheckUnwraps \/ CheckDerives \/ CheckConcludes
  \/ Register \/ RemovePlaintextCopy \/ Discard
  \/ StartDecode \/ DecodePrints \/ OpenLoads

Spec == Init /\ [][Next]_vars

-----------------------------------------------------------------------------
\* Every file holds what it is for, in particular sdk.txt a wrapped key, and
\* the library is at a step its function has.
KeystoreTypeOK ==
  /\ DOMAIN disk = FileNames
  /\ \A f \in FileNames : disk[f] \in {None, Torn} \cup {Content(g)[f] : g \in Pairs}
  /\ program \in {None, "gen", "check", "decode", "open"}
  /\ cut \in BOOLEAN
  /\ verdict \in {None, "ok", "fail"}
  /\ device \in Pairs \cup {None}
  /\ Idle \/ call.at \in DOMAIN Methods[call.fn]
  /\ live \subseteq Objects

\* A keystore is usable when sdk.txt opens with private_key.der and holds the
\* private half of the public key that is registered.
OpensFor(g) ==
  DecryptPrivateKey(disk["private_key.der"], disk["sdk.txt"]) = Gives(Sec1(g))

\* Every file of one generation; only the plaintext copy may be missing.
Consistent ==
  \E g \in Pairs : \A f \in FileNames :
    disk[f] \in {Content(g)[f]} \cup (IF f = "virgil_private_sec1.der" THEN {None} ELSE {})

\* A failed key generation, a failed check or a killed decode leaves the old
\* keystore as it was: the files disagree only while keystore_gen is writing
\* them and after it was stopped there (it makes everything before it writes).
BrokenOnlyWhileWriting ==
  Consistent \/ cut \/ Overwriting \/ \A f \in FileNames : disk[f] = None

\* keystore_check's OK is true of the files it names, whatever mixture of two
\* generations an interrupted --force left: what is sealed to
\* virgil_public_spki.der can be opened with private_key.der and sdk.txt.
OkMeansUsable ==
  verdict = "ok" => \E g \in Pairs : /\ disk["virgil_public_spki.der"] = Spki(g)
                                     /\ OpensFor(g)

\* decrypt_mobile_key gives all of the key that was issued to the pair in
\* sdk.txt, or an error: never a part of it, and never bytes that the
\* library had not yet authenticated, although a part of a TLV reads as a key.
OnlyTheIssuedKey ==
  Runs("decode", "decrypted") /\ ret # None /\ Answer(ret) =>
    /\ ret.ok = MaterialiseSystemTags(Issued[work.for])
    /\ OpensFor(work.for)

\* part has the fixed fields of key and some of its tags.
IsPartOf(part, key) ==
  /\ part.fixed = key.fixed
  /\ DOMAIN part.tags \subseteq DOMAIN key.tags
  /\ \A id \in DOMAIN part.tags : part.tags[id] = key.tags[id]

\* A key that went through to_bytes and from_bytes is the key that was issued,
\* in any order of its tags. Reading stops at a cut without an error, so a TLV
\* cut on its way may lack tags, but no tag it has is wrong.
KeySurvivesStorage ==
  program = "open" =>
    LET sent == MaterialiseSystemTags(Issued[work.for])
    IN  /\ IsPartOf(work.key, sent)
        /\ work.whole => DOMAIN work.key.tags = DOMAIN sent.tags

\* keystore_gen.rs:15 says of virgil_public_key.b64 "this is what SaltoKS
\* registers", and keystore_check.rs:106 says "keystore is consistent and
\* usable for mkey_decode": a device registered from a keystore that was found
\* OK can have its keys decoded.
OkMeansRegistrable ==
  verdict = "ok" /\ disk["virgil_public_key.b64"] \notin {None, Torn} =>
    OpensFor(disk["virgil_public_key.b64"].of)

-----------------------------------------------------------------------------
(* Why it is: the inductive invariant *)

Steps == [gen    |-> {"rsa", "wrap", "write"},
          check  |-> {"unwrap", "derived", "roundtripped"},
          decode |-> {"decrypted"},
          open   |-> {"loaded"}]

\* The function a program waits for.
Calls == [wrap |-> "generate", derived |-> "derive",
          roundtripped |-> "roundtrip", decrypted |-> "decrypt"]

ProgramFits ==
  /\ DOMAIN work = DOMAIN NoWork
  /\ IF program = None THEN step = "off" ELSE program \in DOMAIN Steps /\ step \in Steps[program]
  /\ Idle \/ (step \in DOMAIN Calls /\ call.fn = Calls[step])

\* keystore_gen has all of one generation before it writes, and has written
\* the files before the next one.
GenFits ==
  program = "gen" =>
    /\ work.pair \in Pairs
    /\ step # "write" => work.next = 1
    /\ step = "wrap" =>
         /\ work.rsa = Rsa(work.pair)
         /\ IF Idle THEN Answer(ret) => ret = Gives([private |-> Sec1(work.pair),
                                                    public  |-> Spki(work.pair)])
            ELSE regs.arg = work.pair
    /\ step = "write" =>
         /\ work.next \in DOMAIN Files
         /\ \A f \in FileNames : work.files[f] = Content(work.pair)[f]
         /\ \A i \in DOMAIN Files :
              i < work.next => disk[Files[i]] = Content(work.pair)[Files[i]]

\* keystore_check has unwrapped the key that is on disk, and derived from it.
CheckFits ==
  program = "check" =>
    /\ disk["private_key.der"] # None /\ disk["sdk.txt"] # None
    /\ step = "derived" =>
         \E g \in Pairs :
           /\ OpensFor(g)
           /\ IF Idle THEN Answer(ret) => ret = Gives(Spki(g)) ELSE regs.arg = Sec1(g)
    /\ step = "roundtripped" /\ work.checked =>
         \E g \in Pairs : disk["virgil_public_spki.der"] = Spki(g) /\ OpensFor(g)

\* Inductive together with KeystoreTypeOK, BrokenOnlyWhileWriting and
\* OkMeansUsable.
KeystoreInv == VirgilInv /\ ProgramFits /\ GenFits /\ CheckFits

\* mkey_decode: the container came from the backend, so the recipient it names
\* is the device it was sealed to, and what comes out was sealed to it.
DecodeInv ==
  /\ DecryptFits
  /\ program = "decode" =>
       /\ work.for \in Pairs /\ disk["private_key.der"] # None /\ disk["sdk.txt"] # None
       /\ IF Idle THEN Answer(ret) => /\ OpensFor(work.for)
                                     /\ \E b \in Encodings(work.for) : ret = FromBytes(b)
          ELSE /\ regs.arg = [rsa |-> disk["private_key.der"], blob |-> disk["sdk.txt"],
                              container |-> regs.arg.container]
               /\ call.at = 1 =>
                    \E sent \in SealedTo(work.for) : regs.arg.container \in Containers(sent)
               /\ call.at > 1 => regs.parts.id = [i \in 1..32 |-> work.for]

\* What mkey_decode printed is an encoding of the key that was issued; inductive
\* together with DecodeInv.
StorageInv ==
  /\ tlv # None => tlv.for \in Pairs /\ tlv.bytes \in Encodings(tlv.for)
  /\ KeySurvivesStorage

\* The backend issues keys that to_bytes can store.
KeysAreStorable == \A g \in Pairs : Storable(Issued[g])
=============================================================================
