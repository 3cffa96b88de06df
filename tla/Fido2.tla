-------------------------------- MODULE Fido2 --------------------------------
(***************************************************************************)
(* The service and the FIDO2 authenticators (fido2.rs): unlocking in three *)
(* phases (probe, touch-select, assert with the PIN), enrolling with the   *)
(* duplicate check before it, and CheckFido2Enrolled.  Calls run at the    *)
(* same time; an authenticator that one of them has open cannot be opened  *)
(* by another, can be unplugged under it, and counts wrong PINs.  The      *)
(* authenticators, libfido2 and the person in front of them are external.  *)
(***************************************************************************)
EXTENDS Naturals, Sequences, FiniteSets

CONSTANTS
    Call,         \* calls that may be in flight together
    Manifest,     \* the authenticators, in the order libfido2 lists them
    Pins, NoPin,  \* the PINs people type; the empty one
    DevicePin,    \* the PIN set on each authenticator, or NoPin
    Enrolled,     \* what the header may hold at the start: sequences of authenticators
    Loose,        \* the authenticators that get unplugged (bound)
    MaxRetries,   \* wrong PINs before an authenticator blocks (8 on real ones)
    MaxTokens     \* systemd-fido2 tokens in the header (bound)

Device == {Manifest[i] : i \in DOMAIN Manifest}

ASSUME Fido2Constants ==
    /\ Manifest \in Seq(Device)
    /\ \A i, j \in DOMAIN Manifest : Manifest[i] = Manifest[j] => i = j
    /\ DOMAIN DevicePin = Device
    /\ Enrolled \subseteq Seq(Device) /\ \A ts \in Enrolled : Len(ts) <= MaxTokens
    /\ Loose \subseteq Device
    /\ MaxRetries \in Nat /\ MaxTokens \in Nat

VARIABLES
    plugged,   \* the authenticators that are connected
    retries,   \* PIN attempts each of them has left
    tokens,    \* the header's systemd-fido2 tokens: the authenticator each credential is on
    pc, op, pin,
    known,     \* how many tokens the header had when the call began
    paths,     \* authenticators still to open, probe or check: their places in Manifest
    devs,      \* the ones the call has open
    dead,      \* those of them that were unplugged meanwhile
    cands,     \* authenticators that may hold a credential, with the tokens to try
    murky,     \* history: authenticators with an inconclusive answer
    burnt,     \* history: authenticators this call cost a PIN attempt
    excuse     \* history: something went wrong that the service cannot help

answers == <<murky, burnt, excuse>>
working == <<paths, devs, dead, cands>>
vars == <<plugged, retries, tokens, pc, op, pin, known, working, answers>>

NoCands == <<>>
Ids(c) == 1 .. known[c]
HasCredential(d, ids) == {i \in ids : tokens[i] = d}
RangeOf(s) == {s[i] : i \in DOMAIN s}
Least(S) == CHOOSE i \in S : \A j \in S : i <= j
Places(S) == {i \in DOMAIN Manifest : Manifest[i] \in S}

Init ==
    /\ plugged \in SUBSET Device
    /\ retries = [d \in Device |-> MaxRetries]
    /\ tokens \in Enrolled
    /\ pc = [c \in Call |-> "idle"] /\ op = [c \in Call |-> "none"]
    /\ pin = [c \in Call |-> NoPin] /\ known = [c \in Call |-> 0]
    /\ paths = [c \in Call |-> {}] /\ devs = [c \in Call |-> <<>>]
    /\ dead = [c \in Call |-> {}] /\ cands = [c \in Call |-> NoCands]
    /\ murky = [c \in Call |-> {}]
    /\ burnt = [c \in Call |-> {}] /\ excuse = [c \in Call |-> FALSE]

Go(c, stage) == pc' = [pc EXCEPT ![c] = stage]
Path(c) == Manifest[Least(paths[c])]
Later(c) == paths[c] \ {Least(paths[c])}
Advance(c) == paths' = [paths EXCEPT ![c] = Later(c)]

\* libfido2 locks the hidraw node; a node that is gone cannot be opened at all.
CanOpen(c, d) ==
    d \in plugged /\ \A e \in Call \ {c} : d \notin RangeOf(devs[e]) \ dead[e]

\* The call answers; Drop closes every authenticator it has open.
Return(c) ==
    /\ Go(c, "idle")
    /\ op' = [op EXCEPT ![c] = "none"] /\ pin' = [pin EXCEPT ![c] = NoPin]
    /\ known' = [known EXCEPT ![c] = 0]
    /\ paths' = [paths EXCEPT ![c] = {}] /\ devs' = [devs EXCEPT ![c] = <<>>]
    /\ dead' = [dead EXCEPT ![c] = {}] /\ cands' = [cands EXCEPT ![c] = NoCands]
    /\ murky' = [murky EXCEPT ![c] = {}]
    /\ burnt' = [burnt EXCEPT ![c] = {}] /\ excuse' = [excuse EXCEPT ![c] = FALSE]

Called(c, o, p, places, stage, read) ==
    /\ pc[c] = "idle"
    /\ op' = [op EXCEPT ![c] = o] /\ pin' = [pin EXCEPT ![c] = p]
    /\ known' = [known EXCEPT ![c] = Len(tokens)]
    /\ paths' = [paths EXCEPT ![c] = places]
    /\ excuse' = [excuse EXCEPT ![c] = ~read]
    /\ Go(c, stage)
    /\ UNCHANGED <<plugged, retries, tokens, devs, dead, cands, murky, burnt>>

-----------------------------------------------------------------------------
(* Unlocking *)

\* An unlock or a check that cannot read the header, or finds no token in it, answers at
\* once and changes nothing.
CallUnlock(c, p) == tokens # <<>> /\ Called(c, "unlock", p, {}, "list", TRUE)

ListDevices(c) ==
    /\ pc[c] = "list"
    /\ IF plugged = {} THEN Return(c)
       ELSE /\ paths' = [paths EXCEPT ![c] = Places(plugged)] /\ Go(c, "open")
            /\ UNCHANGED <<op, pin, known, devs, dead, cands, answers>>
    /\ UNCHANGED <<plugged, retries, tokens>>

\* All of them are opened up front; one that cannot be opened is skipped.
OpenDevice(c) ==
    /\ pc[c] = "open" /\ paths[c] # {}
    /\ devs' = [devs EXCEPT ![c] = IF CanOpen(c, Path(c)) THEN Append(@, Path(c)) ELSE @]
    /\ excuse' = [excuse EXCEPT ![c] = @ \/ ~CanOpen(c, Path(c))]
    /\ Advance(c)
    /\ UNCHANGED <<plugged, retries, tokens, pc, op, pin, known, dead, cands, murky, burnt>>

AllOpened(c) ==
    /\ pc[c] = "open" /\ paths[c] = {}
    /\ IF devs[c] = <<>> THEN Return(c)
       ELSE /\ paths' = [paths EXCEPT ![c] = Places(RangeOf(devs[c]))] /\ Go(c, "probe")
            /\ UNCHANGED <<op, pin, known, devs, dead, cands, answers>>
    /\ UNCHANGED <<plugged, retries, tokens>>

\* The tokens that stay in the running on d: everything but a definite "not here".  One
\* that was unplugged answers every probe with an error.
Kept(c, d) ==
    IF d \in dead[c] THEN {Ids(c)}
    ELSE {S \in SUBSET Ids(c) : HasCredential(d, Ids(c)) \subseteq S}

ProbeDevice(c) ==
    /\ pc[c] = "probe" /\ paths[c] # {}
    /\ \E kept \in Kept(c, Path(c)) :
         /\ cands' = [cands EXCEPT ![c] =
                IF kept = {} THEN @ ELSE Append(@, [dev |-> Path(c), toks |-> kept])]
         /\ murky' = [murky EXCEPT ![c] =
                IF kept = HasCredential(Path(c), Ids(c)) THEN @ ELSE @ \cup {Path(c)}]
    /\ Advance(c)
    /\ UNCHANGED <<plugged, retries, tokens, pc, op, pin, known, devs, dead, burnt, excuse>>

\* Mutant: the position among the candidates is taken for one among the open devices.
SelectedAmongOpen(c, pos) == [dev |-> devs[c][pos], toks |-> cands[c][pos].toks]

Selected(c, pos) == cands[c][pos]

\* Mutant: several matches are reported as an error.
AllProbedOne(c) ==
    /\ pc[c] = "probe" /\ paths[c] = {}
    /\ IF Len(cands[c]) # 1 THEN Return(c)
       ELSE /\ cands' = [cands EXCEPT ![c] = <<Selected(c, 1)>>] /\ Go(c, "assert")
            /\ UNCHANGED <<op, pin, known, paths, devs, dead, answers>>
    /\ UNCHANGED <<plugged, retries, tokens>>

\* One match is selected as it is, several are left to the person.
AllProbed(c) ==
    /\ pc[c] = "probe" /\ paths[c] = {}
    /\ IF cands[c] = NoCands THEN Return(c)
       ELSE /\ IF Len(cands[c]) = 1
               THEN cands' = [cands EXCEPT ![c] = <<Selected(c, 1)>>] /\ Go(c, "assert")
               ELSE Go(c, "touch") /\ UNCHANGED cands
            /\ UNCHANGED <<op, pin, known, paths, devs, dead, answers>>
    /\ UNCHANGED <<plugged, retries, tokens>>

\* touch_select polls round and round until one of them is touched; one that is gone only
\* ever answers with an error.
TouchSelect(c, pos) ==
    /\ pc[c] = "touch" /\ pos \in DOMAIN cands[c] /\ cands[c][pos].dev \notin dead[c]
    /\ cands' = [cands EXCEPT ![c] = <<Selected(c, pos)>>]
    /\ Go(c, "assert")
    /\ UNCHANGED <<plugged, retries, tokens, op, pin, known, paths, devs, dead, answers>>

\* What an authenticator makes of a PIN: it is checked before anything else, a wrong one
\* costs an attempt, the right one restores them all.
PinOk(d, p) == p = NoPin \/ (p = DevicePin[d] /\ retries[d] > 0)
PinCosts(d, p) == p # NoPin /\ DevicePin[d] # NoPin /\ p # DevicePin[d] /\ retries[d] > 0
TryPin(c, d) ==
    retries' = [retries EXCEPT ![d] =
        IF d \in dead[c] \/ pin[c] = NoPin THEN @
        ELSE IF PinCosts(d, pin[c]) THEN @ - 1 ELSE IF PinOk(d, pin[c]) THEN MaxRetries ELSE @]

\* The tokens are tried in the header's order.
Current(c) == Least(cands[c][1].toks)

\* get_hmac_secret succeeds: PIN, credential and, within 30 seconds, a touch.
GetHmacSecret(c) ==
    LET d == cands[c][1].dev
    IN  /\ pc[c] = "assert" /\ d \notin dead[c] /\ PinOk(d, pin[c]) /\ tokens[Current(c)] = d
        /\ TryPin(c, d) /\ Return(c)
        /\ UNCHANGED <<plugged, tokens>>


Rest(c) == cands[c][1].toks \ {Current(c)}

\* Mutant: the loop runs past the last token.
NextTokenPastEnd(c) == "assert"

NextToken(c) == IF Rest(c) = {} THEN "failed" ELSE "assert"

\* It fails (gone, PIN, no such credential, no touch in time); on to the next token.
GetHmacSecretFails(c) ==
    LET d == cands[c][1].dev
    IN  /\ pc[c] = "assert"
        /\ TryPin(c, d)
        /\ burnt' = [burnt EXCEPT ![c] =
               IF d \notin dead[c] /\ PinCosts(d, pin[c]) THEN @ \cup {d} ELSE @]
        /\ excuse' = [excuse EXCEPT ![c] =
               @ \/ ~PinOk(d, pin[c]) \/ tokens[Current(c)] = d]
        /\ cands' = [cands EXCEPT ![c] = <<[dev |-> d, toks |-> Rest(c)]>>]
        /\ Go(c, NextToken(c))
        /\ UNCHANGED <<plugged, tokens, op, pin, known, paths, devs, dead, murky>>

UnlockFailed(c) ==
    /\ pc[c] = "failed" /\ Return(c) /\ UNCHANGED <<plugged, retries, tokens>>

-----------------------------------------------------------------------------
(* CheckFido2Enrolled, and enrolling *)

CallCheck(c, S) == tokens # <<>> /\ S # {} /\ Called(c, "check", NoPin, Places(S), "check", TRUE)

\* Mutant: the duplicate check is left out.
FirstEnrollStepUnchecked(read) == "make"

\* What the check compares with is empty when the header has no token, but also when it
\* could not be read or one of its tokens is malformed (unwrap_or_default): the enrollment
\* then goes on unchecked.
FirstEnrollStep(read) == IF read /\ tokens # <<>> THEN "check" ELSE "make"

Enrolling == {c \in Call : op[c] = "enroll"}

CallEnroll(c, d, p, read) ==
    /\ Len(tokens) + Cardinality(Enrolling) < MaxTokens
    /\ Called(c, "enroll", p, Places({d}), FirstEnrollStep(read), read)

\* enrolled_paths: each in turn is opened, probed and closed.  What cannot be opened, or
\* does not answer clearly, counts as not enrolled.  An enrollment has only one path to
\* check and goes on to make the credential.
NotEnrolled(c, unclear) ==
    IF op[c] = "check" /\ Later(c) = {} THEN Return(c)
    ELSE /\ devs' = [devs EXCEPT ![c] = <<>>] /\ dead' = [dead EXCEPT ![c] = {}]
         /\ IF op[c] = "check" THEN Advance(c) /\ Go(c, "check") /\ UNCHANGED murky
            ELSE /\ murky' = [murky EXCEPT ![c] = IF unclear THEN {Path(c)} ELSE @]
                 /\ Go(c, "make") /\ UNCHANGED paths
         /\ UNCHANGED <<op, pin, known, cands, burnt, excuse>>

CheckOpen(c) ==
    /\ pc[c] = "check"
    /\ IF CanOpen(c, Path(c))
       THEN /\ devs' = [devs EXCEPT ![c] = <<Path(c)>>] /\ Go(c, "checking")
            /\ UNCHANGED <<op, pin, known, paths, dead, cands, answers>>
       ELSE NotEnrolled(c, TRUE)
    /\ UNCHANGED <<plugged, retries, tokens>>

\* A definite "here" ends an enrollment; the check reports the path and goes on.
CheckProbe(c) ==
    LET here == HasCredential(Path(c), Ids(c)) # {}
    IN  /\ pc[c] = "checking"
        /\ \/ /\ here /\ Path(c) \notin dead[c]
              /\ IF op[c] = "enroll" THEN Return(c) ELSE NotEnrolled(c, FALSE)
           \/ NotEnrolled(c, here)
        /\ UNCHANGED <<plugged, retries, tokens>>

EnrollOpen(c) ==
    /\ pc[c] = "make"
    /\ IF CanOpen(c, Path(c))
       THEN /\ devs' = [devs EXCEPT ![c] = <<Path(c)>>] /\ Go(c, "cred")
            /\ UNCHANGED <<op, pin, known, paths, dead, cands, answers>>
       ELSE Return(c)
    /\ UNCHANGED <<plugged, retries, tokens>>

\* fido_dev_make_cred and the first hmac-secret assertion, after which the authenticator
\* is closed.  One with a PIN makes no credential without it.
Enroll(c) ==
    /\ pc[c] = "cred" /\ Path(c) \notin dead[c] /\ pin[c] = DevicePin[Path(c)]
    /\ PinOk(Path(c), pin[c])
    /\ TryPin(c, Path(c))
    /\ devs' = [devs EXCEPT ![c] = <<>>] /\ dead' = [dead EXCEPT ![c] = {}]
    /\ Go(c, "write")
    /\ UNCHANGED <<plugged, tokens, op, pin, known, paths, cands, answers>>

EnrollFails(c) ==
    /\ pc[c] = "cred"
    /\ TryPin(c, Path(c)) /\ Return(c) /\ UNCHANGED <<plugged, tokens>>

\* enroll_token: volume key, keyslot and token (VolumeService has them step by step); any
\* of the three may fail, and the credential then stays on the authenticator for nothing.
WriteToken(c) ==
    /\ pc[c] = "write"
    /\ tokens' \in {tokens, Append(tokens, Path(c))}
    /\ Return(c) /\ UNCHANGED <<plugged, retries>>

-----------------------------------------------------------------------------
(* The person *)

Unplug(d) ==
    /\ d \in plugged
    /\ plugged' = plugged \ {d}
    /\ dead' = [c \in Call |-> dead[c] \cup ({d} \cap RangeOf(devs[c]))]
    /\ UNCHANGED <<retries, tokens, pc, op, pin, known, paths, devs, cands, answers>>

\* It comes back under a new node: what was open stays dead.
Plug(d) ==
    /\ d \notin plugged
    /\ plugged' = plugged \cup {d}
    /\ UNCHANGED <<retries, tokens, pc, op, pin, known, working, answers>>

-----------------------------------------------------------------------------
ServiceStep(c) ==
    \/ ListDevices(c) \/ OpenDevice(c) \/ AllOpened(c) \/ ProbeDevice(c) \/ AllProbed(c)
    \/ GetHmacSecret(c) \/ GetHmacSecretFails(c) \/ UnlockFailed(c)
    \/ CheckOpen(c) \/ CheckProbe(c) \/ EnrollOpen(c) \/ Enroll(c) \/ EnrollFails(c)
    \/ WriteToken(c)

Next ==
    \/ \E c \in Call : \/ \E p \in Pins : CallUnlock(c, p)
                       \/ \E p \in Pins, d \in Device, read \in BOOLEAN : CallEnroll(c, d, p, read)
                       \/ CallCheck(c, Device)
                       \/ \E pos \in 1 .. Len(Manifest) : TouchSelect(c, pos)
                       \/ ServiceStep(c)
    \/ (\E d \in Loose : Unplug(d)) \/ (\E d \in Device : Plug(d))

\* The call waits for an authenticator's answer, or for a touch, without a time limit: the
\* only timeout is set on the authenticator an unlock has selected (fido_dev_set_timeout).
\* One that is gone, or cannot be opened, answers with an error at once.
MayWait(c) ==
    \/ pc[c] = "touch"
    \/ pc[c] \in {"open", "check", "make"} /\ paths[c] # {} /\ CanOpen(c, Path(c))
    \/ pc[c] \in {"probe", "checking", "cred"} /\ paths[c] # {} /\ Path(c) \notin dead[c]

\* The service's threads run unless such a wait holds them up; nobody has to touch, plug or
\* call anything, and no authenticator has to answer.
Fairness == \A c \in Call : WF_vars(ServiceStep(c) /\ ~MayWait(c))

Spec == Init /\ [][Next]_vars /\ Fairness
-----------------------------------------------------------------------------
(* Properties *)

\* Every variable has its type, an authenticator's count stays within its limit, and the
\* assertion loop always has one selected authenticator and a token left to try.
TypeOK ==
    /\ plugged \subseteq Device /\ retries \in [Device -> 0 .. MaxRetries]
    /\ tokens \in Seq(Device) /\ Len(tokens) <= MaxTokens
    /\ pc \in [Call -> {"idle", "list", "open", "probe", "touch", "assert", "failed",
                        "check", "checking", "make", "cred", "write"}]
    /\ op \in [Call -> {"none", "unlock", "check", "enroll"}]
    /\ pin \in [Call -> Pins \cup {NoPin}] /\ known \in [Call -> 0 .. MaxTokens]
    /\ paths \in [Call -> SUBSET DOMAIN Manifest]
    /\ \A c \in Call : dead[c] \subseteq RangeOf(devs[c])
    /\ \A c \in Call : pc[c] = "assert" => Len(cands[c]) = 1 /\ cands[c][1].toks # {}

\* "to avoid burning PIN retries on the wrong token" (unlock_from_tokens): one call costs
\* at most one authenticator attempts, and that one holds a credential of this volume or
\* answered its probe unclearly.
PinSparing ==
    \A c \in Call : op[c] = "unlock" =>
        /\ Cardinality(burnt[c]) <= 1
        /\ \A d \in burnt[c] : d \in murky[c] \/ HasCredential(d, Ids(c)) # {}

\* An unlock fails only for a reason: when every listed authenticator could be opened,
\* stayed plugged in and answered clearly, and neither PIN nor touch was missing, a failed
\* unlock_from_tokens means that none of them holds a credential of the volume.
UnlockFailsForAReason ==
    [][\A c \in Call :
           /\ op[c] = "unlock" /\ pc[c] # "assert" /\ pc'[c] = "idle"
           /\ ~excuse[c] /\ dead[c] = {} /\ murky[c] = {}
           => \A d \in RangeOf(devs[c]) : HasCredential(d, Ids(c)) = {}]_vars


\* "Reject if this physical token is already enrolled on this volume." (op_enroll_fido2):
\* an enrollment adds a second credential of an authenticator that the header named when
\* the call began only if that authenticator was busy, gone or unclear at the check, or
\* the header could not be read and the check was skipped.
AlreadyEnrolledRejected ==
    [][\A c \in Call : pc[c] = "write" /\ tokens' # tokens /\ pc'[c] = "idle"
           => \/ excuse[c] \/ Path(c) \in murky[c]
              \/ HasCredential(Path(c), Ids(c)) = {}]_vars

=============================================================================
