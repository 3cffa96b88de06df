----------------------------- MODULE Fido2Proofs -----------------------------
(***************************************************************************)
(* Proofs about Fido2: PIN attempts are spent on one authenticator that    *)
(* had to be asked, an unlock fails only for a reason, and an              *)
(* authenticator the header names is not enrolled again.                   *)
(***************************************************************************)
EXTENDS Fido2, FiniteSetTheorems, WellFoundedInduction, TLAPS

-----------------------------------------------------------------------------
(* The inductive invariant *)

Candidate == [dev : Device, toks : SUBSET Nat]

\* What TypeOK leaves open.
Shaped ==
    /\ devs \in [Call -> Seq(Device)] /\ dead \in [Call -> SUBSET Device]
    /\ cands \in [Call -> Seq(Candidate)]
    /\ murky \in [Call -> SUBSET Device] /\ burnt \in [Call -> SUBSET Device]
    /\ excuse \in [Call -> BOOLEAN]

\* Every enrollment under way has a place for its token.
PlaceForToken ==
    IsFiniteSet(Enrolling) /\ Len(tokens) + Cardinality(Enrolling) <= MaxTokens

Unlocking == {"list", "open", "probe", "touch", "assert", "failed"}

\* Which operation may be at which stage, and what it has in hand there.
Staged(c) ==
    /\ pc[c] = "idle" <=> op[c] = "none"
    /\ pc[c] \in Unlocking <=> op[c] = "unlock"
    /\ pc[c] \in {"make", "cred", "write"} => op[c] = "enroll"
    /\ pc[c] \in {"check", "checking", "make", "cred", "write"} => paths[c] # {}
    /\ pc[c] \in {"idle", "list", "check", "make", "write"} => devs[c] = <<>>
    /\ pc[c] \notin {"probe", "touch", "assert", "failed"} => cands[c] = <<>>
    /\ pc[c] \notin {"assert", "failed"} => burnt[c] = {}

\* The header a call read is still a part of the header.
StillThere(c) == known[c] <= Len(tokens)

\* An authenticator is a candidate because it holds a credential of this volume, one for
\* each token to try on it, or because it did not answer clearly.
HadToBeAsked(c) ==
    \A n \in DOMAIN cands[c] :
        LET d == cands[c][n].dev
            ids == cands[c][n].toks
        IN  /\ \/ d \in murky[c]
               \/ HasCredential(d, Ids(c)) # {} /\ ids \subseteq HasCredential(d, Ids(c))
            /\ pc[c] # "failed" => ids # {}

\* The PIN went to the selected authenticator only, and when every token has been tried on
\* it, it did not answer clearly or something else went wrong.
OnlySelected(c) ==
    /\ pc[c] \in {"assert", "failed"} => Len(cands[c]) = 1 /\ burnt[c] \subseteq {cands[c][1].dev}
    /\ pc[c] = "failed" => excuse[c] \/ cands[c][1].dev \in murky[c]

\* Every open authenticator is still to be probed, or its answer is known.
Accounted(c, d) ==
    \/ d \in {Manifest[i] : i \in paths[c]}
    \/ d \in murky[c]
    \/ HasCredential(d, Ids(c)) = {}
    \/ \E n \in DOMAIN cands[c] : cands[c][n].dev = d
Probed(c) == pc[c] = "probe" => \A d \in {devs[c][i] : i \in DOMAIN devs[c]} : Accounted(c, d)

\* No credential is made on an authenticator the header names, unless it was unclear or the
\* header could not be read.
Checked(c) ==
    pc[c] \in {"make", "cred", "write"} =>
        excuse[c] \/ Path(c) \in murky[c] \/ HasCredential(Path(c), Ids(c)) = {}

Careful(c) ==
    /\ Staged(c) /\ StillThere(c) /\ HadToBeAsked(c) /\ OnlySelected(c) /\ Probed(c) /\ Checked(c)

Sound == TypeOK /\ Shaped /\ PlaceForToken /\ \A c \in Call : Careful(c)
-----------------------------------------------------------------------------
(* First elements *)

LEMMA LeastIn ==
    ASSUME NEW S, S \subseteq Nat, S # {}
    PROVE  Least(S) \in S
<1>1. IsWellFoundedOn(OpToRel(<, Nat), Nat)
  BY NatLessThanWellFounded
<1>2. PICK n \in S : \A m \in S : ~ (<<m, n>> \in OpToRel(<, Nat))
  BY <1>1, WFMin, Zenon
<1>3. \A m \in S : ~(m < n)
  BY <1>2 DEF OpToRel
<1>4. \A m \in S : n <= m
  BY <1>3
<1>5. \E k \in S : \A m \in S : k <= m
  BY <1>4
<1> QED
  BY <1>5 DEF Least

LEMMA PathIn ==
    ASSUME TypeOK, NEW c \in Call, paths[c] # {}
    PROVE  /\ Least(paths[c]) \in paths[c] /\ paths[c] \subseteq DOMAIN Manifest
           /\ Path(c) \in Device /\ Path(c) \in {Manifest[i] : i \in paths[c]}
<1>1. paths[c] \subseteq DOMAIN Manifest
  BY DEF TypeOK
<1>2. DOMAIN Manifest \subseteq Nat
  BY Fido2Constants
<1>3. Least(paths[c]) \in paths[c]
  BY <1>1, <1>2, LeastIn
<1> QED
  BY <1>1, <1>3 DEF Path, Device

\* What is left of paths keeps its type, and only the first one is gone.
LEMMA LaterIn ==
    ASSUME TypeOK, NEW c \in Call
    PROVE  /\ Later(c) \in SUBSET DOMAIN Manifest
           /\ \A d \in {Manifest[i] : i \in paths[c]} : d = Path(c) \/ d \in {Manifest[i] : i \in Later(c)}
<1>1. paths[c] \subseteq DOMAIN Manifest
  BY DEF TypeOK
<1> QED
  BY <1>1 DEF Later, Path

LEMMA PlacesIn ==
    ASSUME NEW S
    PROVE  /\ Places(S) \in SUBSET DOMAIN Manifest
           /\ S \subseteq Device /\ S # {} => Places(S) # {}
           /\ S \subseteq Device => \A d \in S : d \in {Manifest[i] : i \in Places(S)}
BY DEF Places, Device

-----------------------------------------------------------------------------
(* Steps, and what they leave alone *)

\* A call is made, or goes on.
CallStep(c) ==
    \/ \E p \in Pins : CallUnlock(c, p)
    \/ \E p \in Pins, d \in Device, read \in BOOLEAN : CallEnroll(c, d, p, read)
    \/ CallCheck(c, Device)
    \/ \E pos \in 1 .. Len(Manifest) : TouchSelect(c, pos)
    \/ ServiceStep(c)

Untouched(d) ==
    /\ pc'[d] = pc[d] /\ op'[d] = op[d] /\ pin'[d] = pin[d] /\ known'[d] = known[d]
    /\ paths'[d] = paths[d] /\ devs'[d] = devs[d] /\ dead'[d] = dead[d] /\ cands'[d] = cands[d]
    /\ murky'[d] = murky[d] /\ burnt'[d] = burnt[d] /\ excuse'[d] = excuse[d]

LEMMA ReturnUntouched ==
    ASSUME TypeOK, Shaped, NEW c \in Call, Return(c), NEW d \in Call \ {c}
    PROVE  Untouched(d)
BY DEF Return, Go, Untouched, TypeOK, Shaped

LEMMA CalledUntouched ==
    ASSUME TypeOK, Shaped, NEW c \in Call, NEW o, NEW p, NEW places, NEW stage, NEW read,
           Called(c, o, p, places, stage, read), NEW d \in Call \ {c}
    PROVE  Untouched(d)
BY DEF Called, Go, Untouched, TypeOK, Shaped, answers

LEMMA NotEnrolledUntouched ==
    ASSUME TypeOK, Shaped, NEW c \in Call, NEW unclear, NotEnrolled(c, unclear), NEW d \in Call \ {c}
    PROVE  Untouched(d)
<1>1. CASE Return(c)
  BY <1>1, ReturnUntouched
<1>2. CASE ~(op[c] = "check" /\ Later(c) = {})
  BY <1>2 DEF NotEnrolled, Advance, Go, Untouched, TypeOK, Shaped
<1> QED
  BY <1>1, <1>2 DEF NotEnrolled

LEMMA CallsUntouched ==
    ASSUME TypeOK, Shaped, NEW c \in Call, CallStep(c), NEW d \in Call \ {c}
    PROVE  Untouched(d)
<1>0. CASE Return(c)
  BY <1>0, ReturnUntouched
<1>1. ASSUME NEW o, NEW p, NEW places, NEW stage, NEW read,
             Called(c, o, p, places, stage, read)
      PROVE  Untouched(d)
  BY <1>1, CalledUntouched
<1>2. ASSUME NEW unclear, NotEnrolled(c, unclear)
      PROVE  Untouched(d)
  BY <1>2, NotEnrolledUntouched
<1>3. CASE \/ \E p \in Pins : CallUnlock(c, p)
           \/ \E p \in Pins, e \in Device, read \in BOOLEAN : CallEnroll(c, e, p, read)
           \/ CallCheck(c, Device)
  BY <1>1, <1>3 DEF CallUnlock, CallEnroll, CallCheck
<1>4. CASE UnlockFailed(c) \/ GetHmacSecret(c) \/ EnrollFails(c) \/ WriteToken(c)
  BY <1>0, <1>4 DEF UnlockFailed, GetHmacSecret, EnrollFails, WriteToken
<1> USE DEF Go, Untouched, TypeOK, Shaped, answers
<1>5. ASSUME NEW pos \in 1 .. Len(Manifest), TouchSelect(c, pos)
      PROVE  Untouched(d)
  BY <1>5 DEF TouchSelect
<1>6. CASE ListDevices(c)
  BY <1>0, <1>6 DEF ListDevices
<1>7. CASE OpenDevice(c)
  BY <1>7 DEF OpenDevice, Advance
<1>8. CASE AllOpened(c)
  BY <1>0, <1>8 DEF AllOpened
<1>9. CASE ProbeDevice(c)
  BY <1>9 DEF ProbeDevice, Advance
<1>10. CASE AllProbed(c)
  BY <1>0, <1>10 DEF AllProbed
<1>11. CASE GetHmacSecretFails(c)
  BY <1>11 DEF GetHmacSecretFails
<1>12. CASE CheckOpen(c)
  BY <1>2, <1>12 DEF CheckOpen
<1>13. CASE CheckProbe(c)
  BY <1>0, <1>2, <1>13 DEF CheckProbe
<1>14. CASE EnrollOpen(c)
  BY <1>0, <1>14 DEF EnrollOpen
<1>15. CASE Enroll(c)
  BY <1>15 DEF Enroll
<1> QED
  BY <1>3, <1>4, <1>5, <1>6, <1>7, <1>8, <1>9, <1>10, <1>11, <1>12, <1>13, <1>14, <1>15
  DEF CallStep, ServiceStep

-----------------------------------------------------------------------------
(* Types *)

Stages == {"idle", "list", "open", "probe", "touch", "assert", "failed", "check", "checking",
           "make", "cred", "write"}

\* What the calls keep has its type.
CallTypes ==
    /\ pc \in [Call -> Stages] /\ op \in [Call -> {"none", "unlock", "check", "enroll"}]
    /\ pin \in [Call -> Pins \cup {NoPin}] /\ known \in [Call -> 0 .. MaxTokens]
    /\ paths \in [Call -> SUBSET DOMAIN Manifest]
    /\ devs \in [Call -> Seq(Device)] /\ dead \in [Call -> SUBSET Device]
    /\ cands \in [Call -> Seq(Candidate)]
    /\ murky \in [Call -> SUBSET Device] /\ burnt \in [Call -> SUBSET Device]
    /\ excuse \in [Call -> BOOLEAN]

LEMMA TypesNow == TypeOK /\ Shaped => CallTypes
BY DEF TypeOK, Shaped, CallTypes, Stages

LEMMA ReturnTyped ==
    ASSUME CallTypes, NEW c \in Call, Return(c)
    PROVE  /\ CallTypes'
           /\ pc'[c] = "idle" /\ op'[c] = "none" /\ known'[c] = 0 /\ paths'[c] = {}
           /\ devs'[c] = <<>> /\ dead'[c] = {} /\ cands'[c] = <<>> /\ murky'[c] = {}
           /\ burnt'[c] = {} /\ excuse'[c] = FALSE
<1>1. <<>> \in Seq(Device) /\ <<>> \in Seq(Candidate) /\ 0 \in 0 .. MaxTokens
  BY Fido2Constants
<1>2. pc' \in [Call -> Stages] /\ op' \in [Call -> {"none", "unlock", "check", "enroll"}]
      /\ pin' \in [Call -> Pins \cup {NoPin}] /\ known' \in [Call -> 0 .. MaxTokens]
      /\ paths' \in [Call -> SUBSET DOMAIN Manifest]
  BY <1>1 DEF Return, Go, CallTypes, Stages
<1>3. /\ devs' \in [Call -> Seq(Device)] /\ dead' \in [Call -> SUBSET Device]
      /\ cands' \in [Call -> Seq(Candidate)]
      /\ murky' \in [Call -> SUBSET Device] /\ burnt' \in [Call -> SUBSET Device]
  BY <1>1 DEF Return, CallTypes, NoCands
<1>4. excuse' \in [Call -> BOOLEAN] /\ excuse'[c] = FALSE
  BY DEF Return, CallTypes
<1>5. /\ pc'[c] = "idle" /\ op'[c] = "none" /\ known'[c] = 0 /\ paths'[c] = {}
      /\ devs'[c] = <<>> /\ dead'[c] = {} /\ cands'[c] = <<>> /\ murky'[c] = {} /\ burnt'[c] = {}
  BY DEF Return, Go, CallTypes, NoCands
<1> QED
  BY <1>2, <1>3, <1>4, <1>5 DEF CallTypes

LEMMA CalledTyped ==
    ASSUME TypeOK, CallTypes, NEW c \in Call, NEW o \in {"unlock", "check", "enroll"},
           NEW p \in Pins \cup {NoPin}, NEW places \in SUBSET DOMAIN Manifest, NEW stage \in Stages,
           NEW read \in BOOLEAN, Called(c, o, p, places, stage, read)
    PROVE  /\ CallTypes'
           /\ pc[c] = "idle" /\ pc'[c] = stage /\ op'[c] = o /\ known'[c] = Len(tokens)
           /\ paths'[c] = places /\ tokens' = tokens /\ (~read => excuse'[c])
           /\ UNCHANGED <<devs, dead, cands, murky, burnt>>
<1>1. Len(tokens) \in 0 .. MaxTokens
  BY Fido2Constants DEF TypeOK
<1>2. UNCHANGED <<tokens, devs, dead, cands, murky, burnt>>
  BY DEF Called
<1>3. /\ pc' \in [Call -> Stages] /\ op' \in [Call -> {"none", "unlock", "check", "enroll"}]
      /\ pin' \in [Call -> Pins \cup {NoPin}] /\ known' \in [Call -> 0 .. MaxTokens]
      /\ paths' \in [Call -> SUBSET DOMAIN Manifest]
  BY <1>1 DEF Called, Go, CallTypes
<1>4. /\ pc[c] = "idle" /\ pc'[c] = stage /\ op'[c] = o /\ known'[c] = Len(tokens)
      /\ paths'[c] = places
  BY DEF Called, Go, CallTypes
<1>5. excuse' \in [Call -> BOOLEAN] /\ excuse'[c] = ~read
  <2>1. (~read) \in BOOLEAN
    BY Zenon
  <2> QED
    BY <2>1 DEF Called, CallTypes
<1> QED
  BY <1>2, <1>3, <1>4, <1>5 DEF CallTypes

\* The check of one path that did not find a credential there.
LEMMA NotEnrolledTyped ==
    ASSUME TypeOK, CallTypes, NEW c \in Call, paths[c] # {}, NEW unclear \in BOOLEAN,
           NotEnrolled(c, unclear)
    PROVE  /\ CallTypes'
           /\ \/ Return(c)
              \/ /\ devs'[c] = <<>> /\ dead'[c] = {}
                 /\ UNCHANGED <<op, known, cands, burnt, excuse>>
                 /\ \/ /\ op[c] = "check" /\ pc'[c] = "check" /\ paths'[c] # {} /\ murky' = murky
                    \/ /\ op[c] # "check" /\ pc'[c] = "make" /\ paths' = paths
                       /\ murky'[c] = IF unclear THEN {Path(c)} ELSE murky[c]
<1>1. CASE Return(c)
  BY <1>1, ReturnTyped
<1>2. CASE ~(op[c] = "check" /\ Later(c) = {})
  <2>1. /\ devs' = [devs EXCEPT ![c] = <<>>] /\ dead' = [dead EXCEPT ![c] = {}]
        /\ UNCHANGED <<op, pin, known, cands, burnt, excuse>>
    BY <1>2 DEF NotEnrolled
  <2>2. /\ devs' \in [Call -> Seq(Device)] /\ dead' \in [Call -> SUBSET Device]
        /\ devs'[c] = <<>> /\ dead'[c] = {}
    BY <2>1 DEF CallTypes
  <2>3. CASE op[c] = "check"
    <3>1. paths' = [paths EXCEPT ![c] = Later(c)] /\ Later(c) # {} /\ Go(c, "check") /\ murky' = murky
      BY <1>2, <2>3 DEF NotEnrolled, Advance
    <3>2. Later(c) \in SUBSET DOMAIN Manifest
      BY LaterIn
    <3>3. paths' \in [Call -> SUBSET DOMAIN Manifest] /\ paths'[c] # {}
      BY <3>1, <3>2 DEF CallTypes
    <3>4. pc' \in [Call -> Stages] /\ pc'[c] = "check"
      BY <3>1 DEF Go, CallTypes, Stages
    <3> QED
      BY <2>1, <2>2, <2>3, <3>1, <3>3, <3>4 DEF CallTypes
  <2>4. CASE op[c] # "check"
    <3>1. /\ murky' = [murky EXCEPT ![c] = IF unclear THEN {Path(c)} ELSE murky[c]]
          /\ Go(c, "make") /\ paths' = paths
      BY <1>2, <2>4 DEF NotEnrolled
    <3>2. Path(c) \in Device
      BY PathIn
    <3>3. (IF unclear THEN {Path(c)} ELSE murky[c]) \in SUBSET Device
      BY <3>2 DEF CallTypes
    <3>4. /\ murky' \in [Call -> SUBSET Device]
          /\ murky'[c] = IF unclear THEN {Path(c)} ELSE murky[c]
      BY <3>1, <3>3 DEF CallTypes
    <3>5. pc' \in [Call -> Stages] /\ pc'[c] = "make"
      BY <3>1 DEF Go, CallTypes, Stages
    <3> QED
      BY <2>1, <2>2, <2>4, <3>1, <3>4, <3>5 DEF CallTypes
  <2> QED
    BY <2>3, <2>4
<1> QED
  BY <1>1, <1>2 DEF NotEnrolled

-----------------------------------------------------------------------------
(* A call's own steps *)

LEMMA SameCredentials ==
    ASSUME NEW c \in Call, tokens' = tokens, known'[c] = known[c]
    PROVE  Ids(c)' = Ids(c) /\ \A d : HasCredential(d, Ids(c))' = HasCredential(d, Ids(c))
BY DEF HasCredential, Ids

LEMMA ReturnCareful ==
    ASSUME CallTypes, tokens' \in Seq(Device), NEW c \in Call, Return(c)
    PROVE  CallTypes' /\ Careful(c)'
<1>1. /\ CallTypes'
      /\ pc'[c] = "idle" /\ op'[c] = "none" /\ known'[c] = 0 /\ paths'[c] = {}
      /\ devs'[c] = <<>> /\ cands'[c] = <<>> /\ murky'[c] = {} /\ burnt'[c] = {}
  BY ReturnTyped
<1>2. StillThere(c)'
  BY <1>1 DEF StillThere
<1>3. Staged(c)' /\ OnlySelected(c)' /\ Probed(c)' /\ Checked(c)'
  BY <1>1 DEF Staged, Unlocking, OnlySelected, Probed, Checked
<1>4. HadToBeAsked(c)'
  <2>1. DOMAIN cands'[c] = {}
    BY <1>1
  <2> QED
    BY <2>1 DEF HadToBeAsked
<1> QED
  BY <1>1, <1>2, <1>3, <1>4 DEF Careful

LEMMA CalledCareful ==
    ASSUME TypeOK, CallTypes, NEW c \in Call, Careful(c), NEW o \in {"unlock", "check", "enroll"},
           NEW p \in Pins \cup {NoPin}, NEW places \in SUBSET DOMAIN Manifest,
           NEW stage \in {"list", "check", "make"}, NEW read \in BOOLEAN,
           Called(c, o, p, places, stage, read),
           o = "unlock" <=> stage = "list", o = "unlock" \/ places # {},
           stage = "make" => o = "enroll" /\ (~read \/ tokens = <<>>)
    PROVE  CallTypes' /\ Careful(c)'
<1>1. /\ CallTypes'
      /\ pc[c] = "idle" /\ pc'[c] = stage /\ op'[c] = o /\ known'[c] = Len(tokens)
      /\ paths'[c] = places /\ tokens' = tokens /\ (~read => excuse'[c])
      /\ UNCHANGED <<devs, dead, cands, murky, burnt>>
  <2>1. stage \in Stages
    BY DEF Stages
  <2> QED
    BY <2>1, CalledTyped
<1>2. devs[c] = <<>> /\ cands[c] = <<>> /\ burnt[c] = {}
  BY <1>1 DEF Careful, Staged
<1>3. StillThere(c)'
  BY <1>1 DEF StillThere, TypeOK
<1>4. Staged(c)' /\ OnlySelected(c)' /\ Probed(c)'
  BY <1>1, <1>2 DEF Staged, Unlocking, OnlySelected, Probed
<1>5. HadToBeAsked(c)'
  <2>1. DOMAIN cands'[c] = {}
    BY <1>1, <1>2
  <2> QED
    BY <2>1 DEF HadToBeAsked
<1>6. Checked(c)'
  <2>1. CASE stage = "make" /\ read
    <3>1. Ids(c)' = {}
      BY <1>1, <2>1 DEF Ids
    <3>2. HasCredential(Path(c), Ids(c))' = {}
      BY <3>1 DEF HasCredential
    <3> QED
      BY <3>2 DEF Checked
  <2>2. CASE ~read
    BY <1>1, <2>2 DEF Checked
  <2> QED
    BY <1>1, <2>1, <2>2 DEF Checked
<1> QED
  BY <1>1, <1>3, <1>4, <1>5, <1>6 DEF Careful

LEMMA NewCalls ==
    ASSUME TypeOK, CallTypes, NEW c \in Call, Careful(c),
           \/ \E p \in Pins : CallUnlock(c, p)
           \/ \E p \in Pins, d \in Device, read \in BOOLEAN : CallEnroll(c, d, p, read)
           \/ CallCheck(c, Device)
    PROVE  CallTypes' /\ Careful(c)'
<1>1. ASSUME NEW p \in Pins, CallUnlock(c, p)
      PROVE  CallTypes' /\ Careful(c)'
  <2>1. Called(c, "unlock", p, {}, "list", TRUE)
    BY <1>1 DEF CallUnlock
  <2>2. p \in Pins \cup {NoPin} /\ {} \in SUBSET DOMAIN Manifest /\ TRUE \in BOOLEAN
    OBVIOUS
  <2> QED
    BY <2>1, <2>2, CalledCareful
<1>2. ASSUME NEW p \in Pins, NEW d \in Device, NEW read \in BOOLEAN, CallEnroll(c, d, p, read)
      PROVE  CallTypes' /\ Careful(c)'
  <2>1. Called(c, "enroll", p, Places({d}), FirstEnrollStep(read), read)
    BY <1>2 DEF CallEnroll
  <2>2. Places({d}) \in SUBSET DOMAIN Manifest /\ Places({d}) # {}
    BY PlacesIn
  <2>3. /\ FirstEnrollStep(read) \in {"check", "make"}
        /\ FirstEnrollStep(read) = "make" => ~read \/ tokens = <<>>
    BY DEF FirstEnrollStep
  <2>4. p \in Pins \cup {NoPin}
    OBVIOUS
  <2> QED
    BY <2>1, <2>2, <2>3, <2>4, CalledCareful
<1>3. CASE CallCheck(c, Device)
  <2>1. Called(c, "check", NoPin, Places(Device), "check", TRUE) /\ Device # {}
    BY <1>3 DEF CallCheck
  <2>2. Places(Device) \in SUBSET DOMAIN Manifest /\ Places(Device) # {}
    BY <2>1, PlacesIn
  <2>3. NoPin \in Pins \cup {NoPin} /\ TRUE \in BOOLEAN
    OBVIOUS
  <2> QED
    BY <2>1, <2>2, <2>3, CalledCareful
<1> QED
  BY <1>1, <1>2, <1>3

LEMMA OpeningCareful ==
    ASSUME TypeOK, CallTypes, NEW c \in Call, Careful(c),
           ListDevices(c) \/ OpenDevice(c) \/ AllOpened(c)
    PROVE  CallTypes' /\ Careful(c)'
<1>0. tokens \in Seq(Device)
  BY DEF TypeOK
<1>1. ASSUME tokens' = tokens, UNCHANGED <<op, pin, known, cands, murky, burnt, dead>>,
             pc[c] \in {"list", "open"}, pc'[c] \in {"open", "probe"}, Probed(c)'
      PROVE  Careful(c)'
  <2>1. Staged(c) /\ StillThere(c) /\ HadToBeAsked(c)
    BY DEF Careful
  <2>2. op[c] = "unlock" /\ cands[c] = <<>> /\ burnt[c] = {}
    BY <1>1, <2>1 DEF Staged, Unlocking
  <2>3. Staged(c)' /\ StillThere(c)' /\ OnlySelected(c)' /\ Checked(c)'
    BY <1>1, <2>1, <2>2 DEF Staged, Unlocking, StillThere, OnlySelected, Checked
  <2>4. HadToBeAsked(c)'
    <3>1. DOMAIN cands'[c] = {}
      BY <1>1, <2>2
    <3> QED
      BY <3>1 DEF HadToBeAsked
  <2> QED
    BY <1>1, <2>3, <2>4 DEF Careful
<1>2. CASE Return(c) /\ tokens' = tokens
  BY <1>0, <1>2, ReturnCareful
<1>3. CASE ListDevices(c) /\ ~Return(c)
  <2>1. /\ pc[c] = "list" /\ paths' = [paths EXCEPT ![c] = Places(plugged)] /\ Go(c, "open")
        /\ UNCHANGED <<op, pin, known, devs, dead, cands, murky, burnt, excuse, tokens>>
    BY <1>3 DEF ListDevices, answers
  <2>2. Places(plugged) \in SUBSET DOMAIN Manifest
    BY PlacesIn
  <2>3. paths' \in [Call -> SUBSET DOMAIN Manifest]
    BY <2>1, <2>2 DEF CallTypes
  <2>4. pc' \in [Call -> Stages] /\ pc'[c] = "open"
    BY <2>1 DEF CallTypes, Go, Stages
  <2>5. CallTypes'
    BY <2>1, <2>3, <2>4 DEF CallTypes
  <2>6. Probed(c)'
    BY <2>4 DEF Probed
  <2> QED
    BY <1>1, <2>1, <2>4, <2>5, <2>6
<1>4. CASE OpenDevice(c)
  <2>1. /\ pc[c] = "open" /\ paths[c] # {} /\ pc' = pc
        /\ devs' = [devs EXCEPT ![c] = IF CanOpen(c, Path(c)) THEN Append(devs[c], Path(c)) ELSE devs[c]]
        /\ excuse' = [excuse EXCEPT ![c] = excuse[c] \/ ~CanOpen(c, Path(c))]
        /\ paths' = [paths EXCEPT ![c] = Later(c)]
        /\ UNCHANGED <<op, pin, known, dead, cands, murky, burnt, tokens>>
    BY <1>4 DEF OpenDevice, Advance
  <2>2. devs' \in [Call -> Seq(Device)]
    <3>1. Path(c) \in Device /\ devs[c] \in Seq(Device)
      BY <2>1, PathIn DEF CallTypes
    <3>2. (IF CanOpen(c, Path(c)) THEN Append(devs[c], Path(c)) ELSE devs[c]) \in Seq(Device)
      BY <3>1
    <3> QED
      BY <2>1, <3>2 DEF CallTypes
  <2>3. paths' \in [Call -> SUBSET DOMAIN Manifest]
    BY <2>1, LaterIn DEF CallTypes
  <2>4. excuse' \in [Call -> BOOLEAN]
    <3>1. (excuse[c] \/ ~CanOpen(c, Path(c))) \in BOOLEAN
      BY Zenon
    <3> QED
      BY <2>1, <3>1 DEF CallTypes
  <2>5. CallTypes'
    BY <2>1, <2>2, <2>3, <2>4 DEF CallTypes
  <2>6. Probed(c)'
    BY <2>1 DEF Probed
  <2> QED
    BY <1>1, <2>1, <2>5, <2>6
<1>5. CASE AllOpened(c) /\ ~Return(c)
  <2>1. /\ pc[c] = "open" /\ paths' = [paths EXCEPT ![c] = Places(RangeOf(devs[c]))] /\ Go(c, "probe")
        /\ UNCHANGED <<op, pin, known, devs, dead, cands, murky, burnt, excuse, tokens>>
    BY <1>5 DEF AllOpened, answers
  <2>2. Places(RangeOf(devs[c])) \in SUBSET DOMAIN Manifest
    BY PlacesIn
  <2>3. paths' \in [Call -> SUBSET DOMAIN Manifest] /\ paths'[c] = Places(RangeOf(devs[c]))
    BY <2>1, <2>2 DEF CallTypes
  <2>4. pc' \in [Call -> Stages] /\ pc'[c] = "probe"
    BY <2>1 DEF CallTypes, Go, Stages
  <2>5. CallTypes'
    BY <2>1, <2>3, <2>4 DEF CallTypes
  <2>6. Probed(c)'
    <3>1. RangeOf(devs[c]) \subseteq Device
      BY DEF RangeOf, CallTypes
    <3>2. \A d \in RangeOf(devs[c]) : d \in {Manifest[i] : i \in paths'[c]}
      BY <2>3, <3>1, PlacesIn
    <3> QED
      BY <2>1, <3>2 DEF Probed, Accounted, RangeOf
  <2> QED
    BY <1>1, <2>1, <2>4, <2>5, <2>6
<1> QED
  BY <1>2, <1>3, <1>4, <1>5 DEF ListDevices, AllOpened

LEMMA ProbeCareful ==
    ASSUME TypeOK, CallTypes, NEW c \in Call, Careful(c), ProbeDevice(c)
    PROVE  CallTypes' /\ Careful(c)'
<1> DEFINE d == Path(c)
           own == HasCredential(d, Ids(c))
<1>1. PICK kept \in Kept(c, d) :
          /\ cands' = [cands EXCEPT ![c] =
                 IF kept = {} THEN cands[c] ELSE Append(cands[c], [dev |-> d, toks |-> kept])]
          /\ murky' = [murky EXCEPT ![c] = IF kept = own THEN murky[c] ELSE murky[c] \cup {d}]
  BY DEF ProbeDevice
<1>2. /\ pc[c] = "probe" /\ paths[c] # {} /\ paths' = [paths EXCEPT ![c] = Later(c)]
      /\ UNCHANGED <<tokens, pc, op, pin, known, devs, dead, burnt, excuse>>
  BY DEF ProbeDevice, Advance
<1>3. d \in Device
  BY <1>2, PathIn
<1>4. own \subseteq kept /\ kept \subseteq Ids(c) /\ Ids(c) \subseteq Nat
  <2>1. kept \subseteq Ids(c) /\ own \subseteq kept
    BY <1>1 DEF Kept, HasCredential
  <2> QED
    BY <2>1 DEF Ids, TypeOK
<1> DEFINE cs == IF kept = {} THEN cands[c] ELSE Append(cands[c], [dev |-> d, toks |-> kept])
           mk == IF kept = own THEN murky[c] ELSE murky[c] \cup {d}
<1> HIDE DEF d, own
<1>5. cands[c] \in Seq(Candidate) /\ murky[c] \in SUBSET Device
  BY DEF CallTypes
<1>6. [dev |-> d, toks |-> kept] \in Candidate
  BY <1>3, <1>4 DEF Candidate
<1>7. cs \in Seq(Candidate) /\ mk \in SUBSET Device
  BY <1>3, <1>5, <1>6
<1>8. /\ \A n \in DOMAIN cs : \/ n \in DOMAIN cands[c] /\ cs[n] = cands[c][n]
                              \/ kept # {} /\ cs[n] = [dev |-> d, toks |-> kept]
      /\ \A n \in DOMAIN cands[c] : n \in DOMAIN cs /\ cs[n] = cands[c][n]
      /\ kept # {} => \E n \in DOMAIN cs : cs[n] = [dev |-> d, toks |-> kept]
  <2>1. CASE kept = {}
    BY <2>1
  <2>2. CASE kept # {}
    <3> DEFINE e == [dev |-> d, toks |-> kept]
    <3>1. cs = Append(cands[c], e)
      BY <2>2
    <3> HIDE DEF e, cs
    <3>2. e \in Candidate
      BY <1>6 DEF e
    <3>3. /\ DOMAIN cs = 1 .. (Len(cands[c]) + 1) /\ DOMAIN cands[c] = 1 .. Len(cands[c])
          /\ Len(cands[c]) \in Nat
          /\ \A n \in 1 .. Len(cands[c]) : cs[n] = cands[c][n]
          /\ cs[Len(cands[c]) + 1] = e
      BY <1>5, <3>1, <3>2
    <3>4. /\ \A n \in DOMAIN cs : (n \in DOMAIN cands[c] /\ cs[n] = cands[c][n]) \/ cs[n] = e
          /\ \A n \in DOMAIN cands[c] : n \in DOMAIN cs /\ cs[n] = cands[c][n]
          /\ \E n \in DOMAIN cs : cs[n] = e
      BY <3>3
    <3> QED
      BY <2>2, <3>4 DEF e
  <2> QED
    BY <2>1, <2>2
<1>9. mk = murky[c] \/ mk = murky[c] \cup {d}
  OBVIOUS
<1>10. kept # own => d \in mk
  OBVIOUS
<1>11. cands' = [cands EXCEPT ![c] = cs] /\ murky' = [murky EXCEPT ![c] = mk]
  BY <1>1
<1> HIDE DEF cs, mk
<1>12. /\ cands' \in [Call -> Seq(Candidate)] /\ cands'[c] = cs
       /\ murky' \in [Call -> SUBSET Device] /\ murky'[c] = mk
  BY <1>7, <1>11 DEF CallTypes
<1>13. paths' \in [Call -> SUBSET DOMAIN Manifest] /\ paths'[c] = Later(c)
  BY <1>2, LaterIn DEF CallTypes
<1>14. CallTypes'
  BY <1>2, <1>12, <1>13 DEF CallTypes
<1>15. /\ Staged(c) /\ StillThere(c) /\ HadToBeAsked(c) /\ Probed(c)
       /\ op[c] = "unlock" /\ burnt[c] = {}
  BY <1>2 DEF Careful, Staged, Unlocking
<1>16. Staged(c)' /\ StillThere(c)' /\ OnlySelected(c)' /\ Checked(c)'
  BY <1>2, <1>15 DEF Staged, Unlocking, StillThere, OnlySelected, Checked
<1>17. Ids(c)' = Ids(c) /\ \A x : HasCredential(x, Ids(c))' = HasCredential(x, Ids(c))
  BY <1>2, SameCredentials
<1>18. HadToBeAsked(c)'
  <2>1. SUFFICES ASSUME NEW n \in DOMAIN cs
                 PROVE  /\ \/ cs[n].dev \in mk
                           \/ /\ HasCredential(cs[n].dev, Ids(c)) # {}
                              /\ cs[n].toks \subseteq HasCredential(cs[n].dev, Ids(c))
                        /\ cs[n].toks # {}
    BY <1>2, <1>12 DEF HadToBeAsked, HasCredential, Ids
  <2>2. CASE n \in DOMAIN cands[c] /\ cs[n] = cands[c][n]
    <3>1. /\ \/ cs[n].dev \in murky[c]
             \/ /\ HasCredential(cs[n].dev, Ids(c)) # {}
                /\ cs[n].toks \subseteq HasCredential(cs[n].dev, Ids(c))
          /\ cs[n].toks # {}
      BY <1>2, <1>15, <2>2 DEF HadToBeAsked
    <3> QED
      BY <1>9, <3>1
  <2>3. CASE kept # {} /\ cs[n] = [dev |-> d, toks |-> kept]
    <3>1. cs[n].dev = d /\ cs[n].toks = kept
      BY <2>3
    <3> QED
      BY <1>10, <2>3, <3>1 DEF own
  <2> QED
    BY <1>8, <2>1, <2>2, <2>3
<1>19. Probed(c)'
  <2>1. SUFFICES ASSUME NEW e \in {devs[c][i] : i \in DOMAIN devs[c]}
                 PROVE  \/ e \in {Manifest[i] : i \in Later(c)}
                        \/ e \in mk
                        \/ HasCredential(e, Ids(c)) = {}
                        \/ \E n \in DOMAIN cs : cs[n].dev = e
    BY <1>2, <1>12, <1>13, <1>17 DEF Probed, Accounted, HasCredential
  <2>2. Accounted(c, e)
    BY <1>2, <1>15 DEF Probed
  <2>3. CASE e = d
    <3>1. CASE kept = {}
      BY <1>4, <2>3, <3>1 DEF own
    <3>2. CASE kept # {}
      BY <1>8, <2>3, <3>2
    <3> QED
      BY <3>1, <3>2
  <2>4. CASE e # d
    <3>1. e \in {Manifest[i] : i \in paths[c]} => e \in {Manifest[i] : i \in Later(c)}
      BY <2>4, LaterIn DEF d
    <3>2. ASSUME NEW n \in DOMAIN cands[c], cands[c][n].dev = e
          PROVE  \E k \in DOMAIN cs : cs[k].dev = e
      BY <1>8, <3>2
    <3> QED
      BY <1>9, <2>2, <3>1, <3>2 DEF Accounted
  <2> QED
    BY <2>3, <2>4
<1> QED
  BY <1>14, <1>16, <1>18, <1>19 DEF Careful

\* One of the candidates is selected, by itself or by a touch.
LEMMA SelectCareful ==
    ASSUME TypeOK, CallTypes, NEW c \in Call, Careful(c), NEW n \in DOMAIN cands[c],
           pc[c] \in {"probe", "touch"}, cands' = [cands EXCEPT ![c] = <<cands[c][n]>>],
           Go(c, "assert"),
           UNCHANGED <<tokens, op, pin, known, paths, devs, dead, murky, burnt, excuse>>
    PROVE  CallTypes' /\ Careful(c)'
<1>1. cands[c][n] \in Candidate
  BY DEF CallTypes
<1>2. <<cands[c][n]>> \in Seq(Candidate)
  BY <1>1
<1>3. cands' \in [Call -> Seq(Candidate)] /\ cands'[c] = <<cands[c][n]>>
  BY <1>2 DEF CallTypes
<1>4. pc' \in [Call -> Stages] /\ pc'[c] = "assert"
  BY DEF Go, CallTypes, Stages
<1>5. CallTypes'
  BY <1>3, <1>4 DEF CallTypes
<1>6. Staged(c) /\ StillThere(c) /\ HadToBeAsked(c) /\ op[c] = "unlock" /\ burnt[c] = {}
  BY DEF Careful, Staged, Unlocking
<1>7. /\ DOMAIN cands'[c] = {1} /\ cands'[c][1] = cands[c][n] /\ Len(cands'[c]) = 1
  BY <1>3
<1>8. Staged(c)' /\ StillThere(c)' /\ Checked(c)' /\ Probed(c)'
  BY <1>4, <1>6 DEF Staged, Unlocking, StillThere, Checked, Probed
<1>9. OnlySelected(c)'
  BY <1>4, <1>6, <1>7 DEF OnlySelected
<1>10. HadToBeAsked(c)'
  <2>1. Ids(c)' = Ids(c) /\ \A x : HasCredential(x, Ids(c))' = HasCredential(x, Ids(c))
    BY SameCredentials
  <2>2. /\ \/ cands[c][n].dev \in murky[c]
           \/ /\ HasCredential(cands[c][n].dev, Ids(c)) # {}
              /\ cands[c][n].toks \subseteq HasCredential(cands[c][n].dev, Ids(c))
        /\ cands[c][n].toks # {}
    BY <1>6 DEF HadToBeAsked
  <2> QED
    BY <1>7, <2>1, <2>2 DEF HadToBeAsked, HasCredential
<1> QED
  BY <1>5, <1>8, <1>9, <1>10 DEF Careful

LEMMA SelectingCareful ==
    ASSUME TypeOK, CallTypes, NEW c \in Call, Careful(c),
           AllProbed(c) \/ \E pos \in 1 .. Len(Manifest) : TouchSelect(c, pos)
    PROVE  CallTypes' /\ Careful(c)'
<1>0. tokens \in Seq(Device) /\ cands[c] \in Seq(Candidate)
  BY DEF TypeOK, CallTypes
<1>1. ASSUME NEW pos \in 1 .. Len(Manifest), TouchSelect(c, pos)
      PROVE  CallTypes' /\ Careful(c)'
  BY <1>1, SelectCareful DEF TouchSelect, Selected, answers
<1>2. CASE Return(c) /\ tokens' = tokens
  BY <1>0, <1>2, ReturnCareful
<1>3. CASE AllProbed(c) /\ ~Return(c) /\ Len(cands[c]) = 1
  <2>1. 1 \in DOMAIN cands[c]
    BY <1>0, <1>3
  <2> QED
    BY <1>3, <2>1, SelectCareful DEF AllProbed, Selected, answers
<1>4. CASE AllProbed(c) /\ ~Return(c) /\ Len(cands[c]) # 1
  <2>1. /\ pc[c] = "probe" /\ Go(c, "touch")
        /\ UNCHANGED <<tokens, op, pin, known, paths, devs, dead, cands, murky, burnt, excuse>>
    BY <1>4 DEF AllProbed, answers
  <2>2. pc' \in [Call -> Stages] /\ pc'[c] = "touch"
    BY <2>1 DEF CallTypes, Go, Stages
  <2>3. CallTypes'
    BY <2>1, <2>2 DEF CallTypes
  <2>4. Staged(c) /\ StillThere(c) /\ HadToBeAsked(c)
    BY DEF Careful
  <2>5. Staged(c)' /\ StillThere(c)' /\ OnlySelected(c)' /\ Checked(c)' /\ Probed(c)'
    BY <2>1, <2>2, <2>4 DEF Staged, Unlocking, StillThere, OnlySelected, Checked, Probed
  <2>6. HadToBeAsked(c)'
    BY <2>1, <2>2, <2>4 DEF HadToBeAsked, HasCredential, Ids
  <2> QED
    BY <2>3, <2>5, <2>6 DEF Careful
<1> QED
  BY <1>1, <1>2, <1>3, <1>4 DEF AllProbed

LEMMA AssertCareful ==
    ASSUME TypeOK, CallTypes, NEW c \in Call, Careful(c), GetHmacSecretFails(c)
    PROVE  CallTypes' /\ Careful(c)'
<1> DEFINE d == cands[c][1].dev
           ids == cands[c][1].toks
           b == IF d \notin dead[c] /\ PinCosts(d, pin[c]) THEN burnt[c] \cup {d} ELSE burnt[c]
           x == excuse[c] \/ ~PinOk(d, pin[c]) \/ tokens[Current(c)] = d
           e == [dev |-> d, toks |-> Rest(c)]
<1>1. /\ pc[c] = "assert" /\ Go(c, NextToken(c))
      /\ burnt' = [burnt EXCEPT ![c] = b] /\ excuse' = [excuse EXCEPT ![c] = x]
      /\ cands' = [cands EXCEPT ![c] = <<e>>]
      /\ UNCHANGED <<tokens, op, pin, known, paths, devs, dead, murky>>
  BY DEF GetHmacSecretFails
<1>2. /\ Staged(c) /\ StillThere(c) /\ HadToBeAsked(c) /\ OnlySelected(c)
      /\ op[c] = "unlock" /\ Len(cands[c]) = 1 /\ burnt[c] \subseteq {d}
  BY <1>1 DEF Careful, Staged, Unlocking, OnlySelected
<1>3. 1 \in DOMAIN cands[c] /\ cands[c][1] \in Candidate
  <2>1. cands[c] \in Seq(Candidate) /\ Len(cands[c]) = 1
    BY <1>2 DEF CallTypes
  <2> QED
    BY <2>1
<1>4. d \in Device /\ ids \in SUBSET Nat
  BY <1>3 DEF Candidate
<1>5. /\ d \in murky[c] \/ (HasCredential(d, Ids(c)) # {} /\ ids \subseteq HasCredential(d, Ids(c)))
      /\ ids # {}
  BY <1>1, <1>2, <1>3 DEF HadToBeAsked
<1>6. Current(c) \in ids /\ Rest(c) = ids \ {Current(c)}
  BY <1>4, <1>5, LeastIn DEF Current, Rest
<1>7. d \in murky[c] \/ tokens[Current(c)] = d
  BY <1>5, <1>6 DEF HasCredential
<1>8. b \in SUBSET Device /\ b \subseteq {d}
  BY <1>2, <1>4 DEF CallTypes
<1>9. x \in BOOLEAN /\ (x \/ d \in murky[c])
  <2>1. x \in BOOLEAN
    BY Zenon
  <2>2. x \/ d \in murky[c]
    BY <1>7
  <2> QED
    BY <2>1, <2>2
<1>10. e \in Candidate /\ e.dev = d /\ e.toks = Rest(c)
  BY <1>4, <1>6 DEF Candidate
<1>11. <<e>> \in Seq(Candidate)
  BY <1>10
<1>12. NextToken(c) \in {"failed", "assert"} /\ (NextToken(c) # "failed" => Rest(c) # {})
  BY DEF NextToken
<1> HIDE DEF d, ids, b, x, e
<1>13. /\ burnt' \in [Call -> SUBSET Device] /\ burnt'[c] = b
       /\ cands' \in [Call -> Seq(Candidate)] /\ cands'[c] = <<e>>
  BY <1>1, <1>8, <1>11 DEF CallTypes
<1>14. excuse' \in [Call -> BOOLEAN] /\ excuse'[c] = x
  BY <1>1, <1>9 DEF CallTypes
<1>15. pc' \in [Call -> Stages] /\ pc'[c] = NextToken(c)
  BY <1>1, <1>12 DEF CallTypes, Go, Stages
<1>16. CallTypes'
  BY <1>1, <1>13, <1>14, <1>15 DEF CallTypes
<1>17. DOMAIN cands'[c] = {1} /\ cands'[c][1] = e /\ Len(cands'[c]) = 1
  BY <1>13
<1>18. Staged(c)' /\ StillThere(c)' /\ Checked(c)' /\ Probed(c)'
  BY <1>1, <1>2, <1>12, <1>15 DEF Staged, Unlocking, StillThere, Checked, Probed
<1>19. OnlySelected(c)'
  <2>1. cands'[c][1].dev = d
    BY <1>10, <1>17
  <2> QED
    BY <1>1, <1>8, <1>9, <1>13, <1>14, <1>17, <2>1 DEF OnlySelected
<1>20. HadToBeAsked(c)'
  <2>1. \/ d \in murky[c]
        \/ HasCredential(d, Ids(c)) # {} /\ Rest(c) \subseteq HasCredential(d, Ids(c))
    BY <1>5, <1>6
  <2>2. pc'[c] # "failed" => Rest(c) # {}
    BY <1>12, <1>15
  <2>3. cands'[c][1].dev = d /\ cands'[c][1].toks = Rest(c)
    BY <1>10, <1>17
  <2>4. HasCredential(d, Ids(c)) = {i \in 1 .. known'[c] : tokens'[i] = d}
    BY <1>1 DEF HasCredential, Ids
  <2> HIDE DEF HasCredential
  <2>5. SUFFICES ASSUME NEW n \in DOMAIN cands'[c]
                 PROVE  /\ \/ cands'[c][n].dev \in murky'[c]
                           \/ /\ {i \in 1 .. known'[c] : tokens'[i] = cands'[c][n].dev} # {}
                              /\ cands'[c][n].toks \subseteq
                                     {i \in 1 .. known'[c] : tokens'[i] = cands'[c][n].dev}
                        /\ pc'[c] # "failed" => cands'[c][n].toks # {}
    BY DEF HadToBeAsked, HasCredential, Ids
  <2>6. n = 1 /\ murky' = murky
    BY <1>1, <1>17, <2>5
  <2> QED
    BY <2>1, <2>2, <2>3, <2>4, <2>6
<1> QED
  BY <1>16, <1>18, <1>19, <1>20 DEF Careful

\* The steps of CheckFido2Enrolled and of an enrollment.
LEMMA EnrollingCareful ==
    ASSUME TypeOK, CallTypes, NEW c \in Call, Careful(c),
           CheckOpen(c) \/ CheckProbe(c) \/ EnrollOpen(c) \/ Enroll(c)
    PROVE  CallTypes' /\ Careful(c)'
<1>0. tokens \in Seq(Device) /\ Staged(c) /\ StillThere(c) /\ HadToBeAsked(c) /\ Checked(c)
  BY DEF TypeOK, Careful
<1>1. pc[c] \in {"check", "checking", "make", "cred"} /\ tokens' = tokens
  BY DEF CheckOpen, CheckProbe, EnrollOpen, Enroll
<1>2. paths[c] # {} /\ op[c] \in {"check", "enroll"} /\ burnt[c] = {} /\ cands[c] = <<>>
  BY <1>0, <1>1 DEF Staged, Unlocking, TypeOK
<1>3. Path(c) \in Device
  BY <1>2, PathIn
<1>4. CASE Return(c)
  BY <1>0, <1>1, <1>4, ReturnCareful
<1>5. ASSUME pc'[c] \in {"check", "checking", "make", "cred", "write"}, paths'[c] # {},
             pc'[c] \in {"check", "make", "write"} => devs'[c] = <<>>,
             UNCHANGED <<op, known, cands, burnt>>,
             pc'[c] \in {"make", "cred", "write"} => op[c] = "enroll", Checked(c)'
      PROVE  Careful(c)'
  <2>1. Staged(c)' /\ StillThere(c)' /\ OnlySelected(c)' /\ Probed(c)'
    BY <1>0, <1>1, <1>2, <1>5 DEF Staged, Unlocking, StillThere, OnlySelected, Probed
  <2>2. DOMAIN cands'[c] = {}
    BY <1>2, <1>5
  <2>3. HadToBeAsked(c)'
    BY <2>2 DEF HadToBeAsked
  <2> QED
    BY <1>5, <2>1, <2>3 DEF Careful
<1>6. ASSUME NEW unclear \in BOOLEAN, NotEnrolled(c, unclear),
             op[c] = "enroll" => unclear \/ HasCredential(Path(c), Ids(c)) = {}
      PROVE  CallTypes' /\ Careful(c)'
  <2>1. CallTypes'
    BY <1>2, <1>6, NotEnrolledTyped
  <2>2. CASE ~Return(c)
    <3>1. /\ UNCHANGED <<op, known, cands, burnt>> /\ devs'[c] = <<>>
          /\ \/ op[c] = "check" /\ pc'[c] = "check" /\ paths'[c] # {}
             \/ /\ op[c] # "check" /\ pc'[c] = "make" /\ paths' = paths
                /\ murky'[c] = IF unclear THEN {Path(c)} ELSE murky[c]
      BY <1>2, <1>6, <2>2, NotEnrolledTyped
    <3>2. Checked(c)'
      <4>1. CASE pc'[c] = "check"
        BY <4>1 DEF Checked
      <4>2. CASE /\ op[c] # "check" /\ pc'[c] = "make" /\ paths' = paths
                 /\ murky'[c] = IF unclear THEN {Path(c)} ELSE murky[c]
        <5>1. Path(c)' = Path(c) /\ HasCredential(Path(c), Ids(c))' = HasCredential(Path(c), Ids(c))
          BY <1>1, <3>1, <4>2 DEF Path, HasCredential, Ids
        <5>2. Path(c) \in murky'[c] \/ HasCredential(Path(c), Ids(c)) = {}
          BY <1>2, <1>6, <4>2
        <5> QED
          BY <5>1, <5>2 DEF Checked
      <4> QED
        BY <3>1, <4>1, <4>2
    <3>3. Careful(c)'
      BY <1>2, <1>5, <3>1, <3>2
    <3> QED
      BY <2>1, <3>3
  <2> QED
    BY <1>4, <2>2
<1>7. ASSUME NEW stage \in {"checking", "cred"}, devs' = [devs EXCEPT ![c] = <<Path(c)>>],
             Go(c, stage), UNCHANGED <<op, pin, known, paths, dead, cands, murky, burnt, excuse>>,
             stage = "cred" => pc[c] = "make"
      PROVE  CallTypes' /\ Careful(c)'
  <2>1. <<Path(c)>> \in Seq(Device)
    BY <1>3
  <2>2. devs' \in [Call -> Seq(Device)]
    BY <1>7, <2>1 DEF CallTypes
  <2>3. pc' \in [Call -> Stages] /\ pc'[c] = stage
    BY <1>7 DEF Go, CallTypes, Stages
  <2>4. CallTypes'
    BY <1>7, <2>2, <2>3 DEF CallTypes
  <2>5. stage = "cred" => op[c] = "enroll"
    BY <1>0, <1>7 DEF Staged
  <2>6. Checked(c)'
    <3>1. Path(c)' = Path(c) /\ HasCredential(Path(c), Ids(c))' = HasCredential(Path(c), Ids(c))
      BY <1>1, <1>7 DEF Path, HasCredential, Ids
    <3> QED
      BY <1>0, <1>7, <2>3, <3>1 DEF Checked
  <2>7. Careful(c)'
    BY <1>2, <1>5, <1>7, <2>3, <2>5, <2>6
  <2> QED
    BY <2>4, <2>7
<1>8. CASE CheckOpen(c)
  <2>1. CASE NotEnrolled(c, TRUE)
    BY <1>6, <2>1
  <2>2. CASE ~NotEnrolled(c, TRUE)
    BY <1>7, <1>8, <2>2 DEF CheckOpen, answers
  <2> QED
    BY <2>1, <2>2
<1>9. CASE CheckProbe(c)
  <2> DEFINE here == HasCredential(Path(c), Ids(c)) # {}
  <2>1. CASE op[c] # "enroll" /\ NotEnrolled(c, FALSE)
    BY <1>6, <2>1
  <2>2. CASE NotEnrolled(c, here)
    <3>1. here \in BOOLEAN /\ (here \/ HasCredential(Path(c), Ids(c)) = {})
      BY Zenon
    <3> HIDE DEF here
    <3> QED
      BY <1>6, <2>2, <3>1
  <2> QED
    BY <1>4, <1>9, <2>1, <2>2 DEF CheckProbe
<1>10. CASE EnrollOpen(c)
  <2>1. CASE ~Return(c)
    BY <1>7, <1>10, <2>1 DEF EnrollOpen, answers
  <2> QED
    BY <1>4, <2>1
<1>11. CASE Enroll(c)
  <2>1. /\ pc[c] = "cred" /\ Go(c, "write")
        /\ devs' = [devs EXCEPT ![c] = <<>>] /\ dead' = [dead EXCEPT ![c] = {}]
        /\ UNCHANGED <<op, pin, known, paths, cands, murky, burnt, excuse>>
    BY <1>11 DEF Enroll, answers
  <2>2. <<>> \in Seq(Device) /\ {} \in SUBSET Device
    OBVIOUS
  <2>3. /\ devs' \in [Call -> Seq(Device)] /\ dead' \in [Call -> SUBSET Device]
        /\ devs'[c] = <<>>
    BY <2>1, <2>2 DEF CallTypes
  <2>4. pc' \in [Call -> Stages] /\ pc'[c] = "write"
    BY <2>1 DEF Go, CallTypes, Stages
  <2>5. CallTypes'
    BY <2>1, <2>3, <2>4 DEF CallTypes
  <2>6. Checked(c)'
    <3>1. Path(c)' = Path(c) /\ HasCredential(Path(c), Ids(c))' = HasCredential(Path(c), Ids(c))
      BY <1>1, <2>1 DEF Path, HasCredential, Ids
    <3> QED
      BY <1>0, <2>1, <2>4, <3>1 DEF Checked
  <2>7. op[c] = "enroll"
    BY <1>0, <2>1 DEF Staged
  <2>8. Careful(c)'
    BY <1>2, <1>5, <2>1, <2>3, <2>4, <2>6, <2>7
  <2> QED
    BY <2>5, <2>8
<1> QED
  BY <1>8, <1>9, <1>10, <1>11

\* Attempts stay between none left and all of them.
LEMMA RetriesTyped ==
    ASSUME TypeOK, NEW c \in Call, NEW d \in Device, TryPin(c, d)
    PROVE  retries' \in [Device -> 0 .. MaxRetries]
<1> DEFINE r == IF d \in dead[c] \/ pin[c] = NoPin THEN retries[d]
                ELSE IF PinCosts(d, pin[c]) THEN retries[d] - 1
                ELSE IF PinOk(d, pin[c]) THEN MaxRetries ELSE retries[d]
<1>1. retries' = [retries EXCEPT ![d] = r]
  BY DEF TryPin
<1>2. retries[d] \in 0 .. MaxRetries /\ MaxRetries \in Nat
  BY Fido2Constants DEF TypeOK
<1>3. PinCosts(d, pin[c]) => retries[d] > 0
  BY DEF PinCosts
<1>4. r \in 0 .. MaxRetries
  BY <1>2, <1>3
<1> HIDE DEF r
<1> QED
  BY <1>1, <1>4 DEF TypeOK

LEMMA EndsCareful ==
    ASSUME TypeOK, CallTypes, NEW c \in Call, Careful(c),
           GetHmacSecret(c) \/ UnlockFailed(c) \/ EnrollFails(c) \/ WriteToken(c)
    PROVE  CallTypes' /\ Careful(c)'
<1>1. tokens' \in Seq(Device)
  <2>1. CASE tokens' = tokens
    BY <2>1 DEF TypeOK
  <2>2. CASE WriteToken(c)
    <3>1. Path(c) \in Device
      BY <2>2, PathIn DEF WriteToken, Careful, Staged
    <3>2. tokens \in Seq(Device)
      BY DEF TypeOK
    <3>3. Append(tokens, Path(c)) \in Seq(Device)
      BY <3>1, <3>2
    <3>4. tokens' = tokens \/ tokens' = Append(tokens, Path(c))
      BY <2>2 DEF WriteToken
    <3> QED
      BY <3>2, <3>3, <3>4
  <2> QED
    BY <2>1, <2>2 DEF GetHmacSecret, UnlockFailed, EnrollFails
<1>2. Return(c)
  BY DEF GetHmacSecret, UnlockFailed, EnrollFails, WriteToken
<1> QED
  BY <1>1, <1>2, ReturnCareful

LEMMA OwnStep ==
    ASSUME TypeOK, CallTypes, NEW c \in Call, Careful(c), CallStep(c)
    PROVE  CallTypes' /\ Careful(c)'
BY NewCalls, OpeningCareful, ProbeCareful, SelectingCareful, AssertCareful, EnrollingCareful,
   EndsCareful DEF CallStep, ServiceStep

-----------------------------------------------------------------------------
(* The header, the other calls and the person *)

LEMMA HeaderStep ==
    ASSUME TypeOK, NEW c \in Call, Careful(c), CallStep(c)
    PROVE  /\ tokens' \in Seq(Device) /\ Len(tokens) <= Len(tokens')
           /\ \A i \in 1 .. Len(tokens) : tokens'[i] = tokens[i]
           /\ \/ tokens' = tokens
              \/ WriteToken(c) /\ Len(tokens') = Len(tokens) + 1
<1>0. tokens \in Seq(Device)
  BY DEF TypeOK
<1>1. CASE WriteToken(c) /\ tokens' # tokens
  <2>1. Path(c) \in Device /\ tokens' = Append(tokens, Path(c))
    BY <1>1, PathIn DEF WriteToken, Careful, Staged
  <2> QED
    BY <1>0, <1>1, <2>1
<1>2. CASE tokens' = tokens
  BY <1>0, <1>2
<1> QED
  BY <1>1, <1>2 DEF CallStep, ServiceStep, CallUnlock, CallEnroll, CallCheck, Called, TouchSelect,
      ListDevices, OpenDevice, AllOpened, ProbeDevice, AllProbed, GetHmacSecret, GetHmacSecretFails,
      UnlockFailed, CheckOpen, CheckProbe, EnrollOpen, Enroll, EnrollFails

\* Authenticators and header keep their types.
LEMMA WorldTyped ==
    ASSUME TypeOK, CallTypes, NEW c \in Call, Careful(c), CallStep(c)
    PROVE  plugged' \subseteq Device /\ retries' \in [Device -> 0 .. MaxRetries]
<1>1. plugged' = plugged
  BY DEF CallStep, ServiceStep, CallUnlock, CallEnroll, CallCheck, Called, TouchSelect,
      ListDevices, OpenDevice, AllOpened, ProbeDevice, AllProbed, GetHmacSecret, GetHmacSecretFails,
      UnlockFailed, CheckOpen, CheckProbe, EnrollOpen, Enroll, EnrollFails, WriteToken
<1> SUFFICES retries' \in [Device -> 0 .. MaxRetries]
  BY <1>1 DEF TypeOK
<1>2. CASE retries' = retries
  BY <1>2 DEF TypeOK
<1>3. CASE GetHmacSecret(c) \/ GetHmacSecretFails(c)
  <2>1. pc[c] = "assert"
    BY <1>3 DEF GetHmacSecret, GetHmacSecretFails
  <2>2. cands[c] \in Seq(Candidate) /\ Len(cands[c]) = 1
    BY <2>1 DEF CallTypes, TypeOK
  <2>3. cands[c][1] \in Candidate
    BY <2>2
  <2>4. cands[c][1].dev \in Device
    BY <2>3 DEF Candidate
  <2> QED
    BY <1>3, <2>4, RetriesTyped DEF GetHmacSecret, GetHmacSecretFails
<1>4. CASE Enroll(c) \/ EnrollFails(c)
  <2>1. Path(c) \in Device
    BY <1>4, PathIn DEF Enroll, EnrollFails, Careful, Staged
  <2> QED
    BY <1>4, <2>1, RetriesTyped DEF Enroll, EnrollFails
<1> QED
  BY <1>2, <1>3, <1>4 DEF CallStep, ServiceStep, CallUnlock, CallEnroll, CallCheck, Called,
      TouchSelect, ListDevices, OpenDevice, AllOpened, ProbeDevice, AllProbed, UnlockFailed,
      CheckOpen, CheckProbe, EnrollOpen, WriteToken

\* What was written behind a call's back does not change what it read.
LEMMA OthersCareful ==
    ASSUME TypeOK, Shaped, NEW c \in Call, Careful(c), CallStep(c), NEW d \in Call \ {c}, Careful(d)
    PROVE  Careful(d)'
<1>1. Untouched(d)
  BY CallsUntouched
<1>2. /\ tokens' \in Seq(Device) /\ Len(tokens) <= Len(tokens')
      /\ \A i \in 1 .. Len(tokens) : tokens'[i] = tokens[i]
  BY HeaderStep
<1>3. /\ Staged(d) /\ StillThere(d) /\ HadToBeAsked(d) /\ OnlySelected(d) /\ Probed(d)
      /\ Checked(d)
  BY DEF Careful
<1>4. known[d] \in Nat /\ Len(tokens) \in Nat /\ Len(tokens') \in Nat
  BY <1>2 DEF TypeOK
<1>5. /\ Ids(d)' = Ids(d)
      /\ \A x : {i \in 1 .. known'[d] : tokens'[i] = x} = {i \in 1 .. known[d] : tokens[i] = x}
  <2>1. \A i \in 1 .. known[d] : tokens'[i] = tokens[i]
    BY <1>2, <1>3, <1>4 DEF StillThere
  <2> QED
    BY <1>1, <2>1 DEF Untouched, Ids
<1>6. StillThere(d)'
  BY <1>1, <1>2, <1>3, <1>4 DEF StillThere, Untouched
<1>7. Staged(d)' /\ OnlySelected(d)'
  BY <1>1, <1>3 DEF Untouched, Staged, Unlocking, OnlySelected
<1>8. HadToBeAsked(d)'
  <2>1. cands'[d] = cands[d] /\ murky'[d] = murky[d] /\ pc'[d] = pc[d]
    BY <1>1 DEF Untouched
  <2>2. SUFFICES ASSUME NEW n \in DOMAIN cands[d]
                 PROVE  /\ \/ cands[d][n].dev \in murky[d]
                           \/ /\ {i \in 1 .. known'[d] : tokens'[i] = cands[d][n].dev} # {}
                              /\ cands[d][n].toks \subseteq
                                     {i \in 1 .. known'[d] : tokens'[i] = cands[d][n].dev}
                        /\ pc[d] # "failed" => cands[d][n].toks # {}
    BY <2>1 DEF HadToBeAsked, HasCredential, Ids
  <2>3. /\ \/ cands[d][n].dev \in murky[d]
           \/ /\ {i \in 1 .. known[d] : tokens[i] = cands[d][n].dev} # {}
              /\ cands[d][n].toks \subseteq {i \in 1 .. known[d] : tokens[i] = cands[d][n].dev}
        /\ pc[d] # "failed" => cands[d][n].toks # {}
    BY <1>3, <2>2 DEF HadToBeAsked, HasCredential, Ids
  <2> QED
    BY <1>5, <2>3
<1>9. Probed(d)'
  BY <1>1, <1>3, <1>5 DEF Untouched, Probed, Accounted, HasCredential, Ids
<1>10. Checked(d)'
  <2>1. Path(d)' = Path(d)
    BY <1>1 DEF Untouched, Path
  <2> QED
    BY <1>1, <1>3, <1>5, <2>1 DEF Untouched, Checked, HasCredential, Ids
<1> QED
  BY <1>6, <1>7, <1>8, <1>9, <1>10 DEF Careful

\* What is dead is still open.
LEMMA DeadStep ==
    ASSUME TypeOK, CallTypes, NEW c \in Call, Careful(c), CallStep(c)
    PROVE  dead'[c] \subseteq RangeOf(devs'[c])
<1>0. dead[c] \subseteq RangeOf(devs[c])
  BY DEF TypeOK
<1>1. CASE dead' = dead /\ devs' = devs
  BY <1>0, <1>1
<1>2. CASE dead'[c] = {}
  BY <1>2
<1>3. CASE Return(c)
  BY <1>2, <1>3, ReturnTyped
<1>4. CASE dead' = dead /\ pc[c] \in {"check", "make"}
  <2>1. devs[c] = <<>>
    BY <1>4 DEF Careful, Staged
  <2>2. RangeOf(devs[c]) = {}
    BY <2>1 DEF RangeOf
  <2> QED
    BY <1>0, <1>2, <1>4, <2>2
<1>5. ASSUME NEW unclear, NotEnrolled(c, unclear)
      PROVE  dead'[c] \subseteq RangeOf(devs'[c])
  <2>1. CASE dead' = [dead EXCEPT ![c] = {}]
    BY <1>2, <2>1 DEF CallTypes
  <2> QED
    BY <1>3, <1>5, <2>1 DEF NotEnrolled
<1>6. CASE OpenDevice(c)
  <2>1. devs[c] \in Seq(Device) /\ Path(c) \in Device
    BY <1>6, PathIn DEF OpenDevice, CallTypes
  <2>2. devs'[c] = devs[c] \/ devs'[c] = Append(devs[c], Path(c))
    BY <1>6 DEF OpenDevice, CallTypes
  <2>3. RangeOf(devs[c]) \subseteq RangeOf(devs'[c])
    <3>1. CASE devs'[c] = Append(devs[c], Path(c))
      <4>1. \A i \in DOMAIN devs[c] : i \in DOMAIN devs'[c] /\ devs'[c][i] = devs[c][i]
        BY <2>1, <3>1
      <4> QED
        BY <4>1 DEF RangeOf
    <3> QED
      BY <2>2, <3>1
  <2> QED
    BY <1>0, <1>6, <2>3 DEF OpenDevice
<1>7. CASE CheckOpen(c) \/ EnrollOpen(c)
  <2>1. pc[c] \in {"check", "make"}
    BY <1>7 DEF CheckOpen, EnrollOpen
  <2> QED
    BY <1>3, <1>4, <1>5, <1>7, <2>1 DEF CheckOpen, EnrollOpen
<1>8. CASE CheckProbe(c)
  BY <1>3, <1>5, <1>8 DEF CheckProbe
<1>9. CASE Enroll(c)
  <2>1. dead' = [dead EXCEPT ![c] = {}]
    BY <1>9 DEF Enroll
  <2> QED
    BY <1>2, <2>1 DEF CallTypes
<1> QED
  BY <1>1, <1>3, <1>6, <1>7, <1>8, <1>9 DEF CallStep, ServiceStep, CallUnlock, CallEnroll, CallCheck,
      Called, TouchSelect, ListDevices, AllOpened, ProbeDevice, AllProbed, GetHmacSecret,
      GetHmacSecretFails, UnlockFailed, EnrollFails, WriteToken

LEMMA PlaceStep ==
    ASSUME TypeOK, Shaped, PlaceForToken, \A d \in Call : Careful(d), NEW c \in Call, CallStep(c)
    PROVE  PlaceForToken'
<1>0. /\ tokens \in Seq(Device) /\ Len(tokens) \in Nat /\ IsFiniteSet(Enrolling)
      /\ Cardinality(Enrolling) \in Nat /\ CallTypes
  <2>1. tokens \in Seq(Device) /\ CallTypes
    BY TypesNow DEF TypeOK
  <2>2. IsFiniteSet(Enrolling)
    BY DEF PlaceForToken
  <2> QED
    BY <2>1, <2>2, FS_CardinalityType
<1>1. \A d \in Call \ {c} : d \in Enrolling' <=> d \in Enrolling
  BY CallsUntouched DEF Untouched, Enrolling
<1>2. Enrolling' \subseteq Call /\ Enrolling \subseteq Call
  BY DEF Enrolling
<1>3. ASSUME c \notin Enrolling'
      PROVE  Enrolling' = Enrolling \ {c}
  BY <1>1, <1>2, <1>3
<1>4. CASE Enrolling' = Enrolling /\ tokens' = tokens
  BY <1>4 DEF PlaceForToken
<1>5. CASE c \notin Enrolling' /\ tokens' = tokens
  <2>1. Enrolling' = Enrolling \ {c}
    BY <1>3, <1>5
  <2>2. /\ IsFiniteSet(Enrolling') /\ Cardinality(Enrolling') <= Cardinality(Enrolling)
        /\ Cardinality(Enrolling') \in Nat
    BY <1>0, <2>1, FS_Subset, FS_CardinalityType
  <2> QED
    BY <1>0, <1>5, <2>2, Fido2Constants DEF PlaceForToken
<1>6. CASE WriteToken(c) /\ tokens' # tokens
  <2>1. c \in Enrolling
    BY <1>6 DEF WriteToken, Enrolling, Careful, Staged
  <2>2. c \notin Enrolling'
    BY <1>0, <1>6, ReturnTyped DEF WriteToken, Enrolling
  <2>3. Enrolling' = Enrolling \ {c}
    BY <1>3, <2>2
  <2>4. IsFiniteSet(Enrolling') /\ Cardinality(Enrolling') = Cardinality(Enrolling) - 1
    BY <1>0, <2>1, <2>3, FS_RemoveElement
  <2>5. Len(tokens') = Len(tokens) + 1
    BY <1>0, <1>6 DEF WriteToken
  <2> QED
    BY <1>0, <2>4, <2>5 DEF PlaceForToken
<1>7. ASSUME NEW p \in Pins, NEW d \in Device, NEW read \in BOOLEAN, CallEnroll(c, d, p, read)
      PROVE  PlaceForToken'
  <2>1. pc[c] = "idle" /\ op'[c] = "enroll" /\ tokens' = tokens
    BY <1>0, <1>7 DEF CallEnroll, Called, CallTypes
  <2>2. c \notin Enrolling
    BY <2>1 DEF Enrolling, Careful, Staged
  <2>3. Enrolling' = Enrolling \cup {c}
    <3>1. c \in Enrolling'
      BY <2>1 DEF Enrolling
    <3> QED
      BY <1>1, <1>2, <3>1
  <2>4. IsFiniteSet(Enrolling') /\ Cardinality(Enrolling') = Cardinality(Enrolling) + 1
    BY <1>0, <2>2, <2>3, FS_AddElement
  <2>5. Len(tokens) + Cardinality(Enrolling) < MaxTokens
    BY <1>7 DEF CallEnroll
  <2> QED
    BY <1>0, <2>1, <2>4, <2>5, Fido2Constants DEF PlaceForToken
<1>8. CASE op' = op /\ tokens' = tokens
  <2>1. Enrolling' = Enrolling
    BY <1>8 DEF Enrolling
  <2> QED
    BY <1>4, <1>8, <2>1
<1>9. CASE Return(c) /\ tokens' = tokens
  <2>1. c \notin Enrolling'
    BY <1>0, <1>9, ReturnTyped DEF Enrolling
  <2> QED
    BY <1>5, <1>9, <2>1
<1>10. ASSUME NEW unclear, NotEnrolled(c, unclear), tokens' = tokens
       PROVE  PlaceForToken'
  BY <1>8, <1>9, <1>10 DEF NotEnrolled
<1>11. ASSUME (\E p \in Pins : CallUnlock(c, p)) \/ CallCheck(c, Device)
       PROVE  PlaceForToken'
  <2>1. op'[c] \in {"unlock", "check"} /\ tokens' = tokens
    BY <1>0, <1>11 DEF CallUnlock, CallCheck, Called, CallTypes
  <2>2. c \notin Enrolling'
    BY <2>1 DEF Enrolling
  <2> QED
    BY <1>5, <2>1, <2>2
<1>12. CASE CheckOpen(c) \/ CheckProbe(c)
  BY <1>8, <1>9, <1>10, <1>12 DEF CheckOpen, CheckProbe
<1> QED
  BY <1>6, <1>7, <1>8, <1>9, <1>11, <1>12 DEF CallStep, ServiceStep, TouchSelect, ListDevices,
      OpenDevice, AllOpened, ProbeDevice, AllProbed, GetHmacSecret, GetHmacSecretFails,
      UnlockFailed, EnrollOpen, Enroll, EnrollFails, WriteToken

LEMMA SoundByCall ==
    ASSUME Sound, NEW c \in Call, CallStep(c)
    PROVE  Sound'
<1>0. TypeOK /\ Shaped /\ PlaceForToken /\ CallTypes /\ \A d \in Call : Careful(d)
  BY TypesNow DEF Sound
<1>1. CallTypes' /\ Careful(c)'
  BY <1>0, OwnStep
<1>2. \A d \in Call : Careful(d)'
  BY <1>0, <1>1, OthersCareful
<1>3. PlaceForToken'
  BY <1>0, PlaceStep
<1>4. tokens' \in Seq(Device) /\ Len(tokens') <= MaxTokens
  <2>1. tokens' \in Seq(Device)
    BY <1>0, HeaderStep
  <2>2. Len(tokens') \in Nat /\ Cardinality(Enrolling') \in Nat
    BY <1>3, <2>1, FS_CardinalityType DEF PlaceForToken
  <2> QED
    BY <1>3, <2>1, <2>2, Fido2Constants DEF PlaceForToken
<1>5. plugged' \subseteq Device /\ retries' \in [Device -> 0 .. MaxRetries]
  BY <1>0, WorldTyped
<1>6. \A d \in Call : dead'[d] \subseteq RangeOf(devs'[d])
  <2>1. ASSUME NEW d \in Call \ {c}
        PROVE  dead'[d] \subseteq RangeOf(devs'[d])
    BY <1>0, <2>1, CallsUntouched DEF Untouched, TypeOK
  <2>2. dead'[c] \subseteq RangeOf(devs'[c])
    BY <1>0, DeadStep
  <2> QED
    BY <2>1, <2>2
<1>7. ASSUME NEW d \in Call, pc'[d] = "assert"
      PROVE  Len(cands'[d]) = 1 /\ cands'[d][1].toks # {}
  <2>1. OnlySelected(d)' /\ HadToBeAsked(d)' /\ cands'[d] \in Seq(Candidate)
    BY <1>1, <1>2 DEF Careful, CallTypes
  <2>2. Len(cands'[d]) = 1
    BY <1>7, <2>1 DEF OnlySelected
  <2>3. 1 \in DOMAIN cands'[d]
    BY <2>1, <2>2
  <2> QED
    BY <1>7, <2>1, <2>2, <2>3 DEF HadToBeAsked
<1>8. TypeOK'
  BY <1>1, <1>4, <1>5, <1>6, <1>7 DEF TypeOK, CallTypes, Stages
<1>9. Shaped'
  BY <1>1 DEF Shaped, CallTypes
<1> QED
  BY <1>2, <1>3, <1>8, <1>9 DEF Sound

\* Nothing but plugged and dead differs, and what is dead is still open.
LEMMA SoundByPerson ==
    ASSUME Sound, plugged' \subseteq Device, dead' \in [Call -> SUBSET Device],
           \A c \in Call : dead'[c] \subseteq RangeOf(devs[c]),
           UNCHANGED <<retries, tokens, pc, op, pin, known, paths, devs, cands, murky, burnt, excuse>>
    PROVE  Sound'
<1>0. TypeOK /\ Shaped /\ PlaceForToken
  BY DEF Sound
<1>1. TypeOK' /\ Shaped'
  <2>1. ASSUME NEW c \in Call
        PROVE  RangeOf(devs[c])' = RangeOf(devs[c])
    BY DEF RangeOf
  <2>2. TypeOK'
    BY <1>0, <2>1 DEF TypeOK
  <2>3. Shaped'
    BY <1>0 DEF Shaped
  <2> QED
    BY <2>2, <2>3
<1>2. PlaceForToken'
  <2>1. Enrolling' = Enrolling
    BY DEF Enrolling
  <2> QED
    BY <1>0, <2>1 DEF PlaceForToken
<1>3. ASSUME NEW c \in Call
      PROVE  Careful(c)'
  <2>1. /\ Staged(c) /\ StillThere(c) /\ HadToBeAsked(c) /\ OnlySelected(c) /\ Probed(c)
        /\ Checked(c)
    BY DEF Sound, Careful
  <2>2. Staged(c)' /\ StillThere(c)' /\ OnlySelected(c)'
    BY <2>1 DEF Staged, Unlocking, StillThere, OnlySelected
  <2>3. HadToBeAsked(c)'
    BY <2>1 DEF HadToBeAsked, HasCredential, Ids
  <2>4. Probed(c)'
    BY <2>1 DEF Probed, Accounted, HasCredential, Ids
  <2>5. Checked(c)'
    <3>1. Path(c)' = Path(c)
      BY DEF Path
    <3> QED
      BY <2>1, <3>1 DEF Checked, HasCredential, Ids
  <2> QED
    BY <2>2, <2>3, <2>4, <2>5 DEF Careful
<1> QED
  BY <1>1, <1>2, <1>3 DEF Sound

LEMMA SoundStep ==
    ASSUME Sound, [Next]_vars
    PROVE  Sound'
<1>0. TypeOK /\ Shaped
  BY DEF Sound
<1>1. ASSUME NEW d \in Loose, Unplug(d)
      PROVE  Sound'
  <2>1. /\ plugged' = plugged \ {d}
        /\ dead' = [c \in Call |-> dead[c] \cup ({d} \cap RangeOf(devs[c]))]
        /\ UNCHANGED <<retries, tokens, pc, op, pin, known, paths, devs, cands, murky, burnt, excuse>>
    BY <1>1 DEF Unplug, answers
  <2>2. ASSUME NEW c \in Call
        PROVE  /\ dead[c] \cup ({d} \cap RangeOf(devs[c])) \subseteq RangeOf(devs[c])
               /\ dead[c] \cup ({d} \cap RangeOf(devs[c])) \in SUBSET Device
    <3>1. d \in Device
      BY Fido2Constants
    <3>2. dead[c] \subseteq RangeOf(devs[c]) /\ dead[c] \in SUBSET Device
      BY <1>0 DEF TypeOK, Shaped
    <3> QED
      BY <3>1, <3>2
  <2>3. dead' \in [Call -> SUBSET Device] /\ \A c \in Call : dead'[c] \subseteq RangeOf(devs[c])
    BY <2>1, <2>2
  <2>4. plugged' \subseteq Device
    BY <1>0, <2>1 DEF TypeOK
  <2> QED
    BY <2>1, <2>3, <2>4, SoundByPerson
<1>2. ASSUME NEW d \in Device, Plug(d)
      PROVE  Sound'
  <2>1. /\ plugged' = plugged \cup {d}
        /\ UNCHANGED <<retries, tokens, pc, op, pin, known, paths, devs, dead, cands, murky, burnt, excuse>>
    BY <1>2 DEF Plug, working, answers
  <2>2. plugged' \subseteq Device
    BY <1>0, <2>1 DEF TypeOK
  <2>3. dead' \in [Call -> SUBSET Device] /\ \A c \in Call : dead'[c] \subseteq RangeOf(devs[c])
    BY <1>0, <2>1 DEF TypeOK, Shaped
  <2> QED
    BY <2>1, <2>2, <2>3, SoundByPerson
<1>3. CASE UNCHANGED vars
  <2>1. UNCHANGED <<plugged, retries, tokens, pc, op, pin, known, paths, devs, dead, cands, murky,
                    burnt, excuse>>
    BY <1>3 DEF vars, working, answers
  <2>2. plugged' \subseteq Device
    BY <1>0, <2>1 DEF TypeOK
  <2>3. dead' \in [Call -> SUBSET Device] /\ \A c \in Call : dead'[c] \subseteq RangeOf(devs[c])
    BY <1>0, <2>1 DEF TypeOK, Shaped
  <2> QED
    BY <2>1, <2>2, <2>3, SoundByPerson
<1> QED
  BY <1>1, <1>2, <1>3, SoundByCall DEF Next, CallStep

LEMMA SoundInit ==
    ASSUME Init
    PROVE  Sound
<1>1. tokens \in Seq(Device) /\ Len(tokens) <= MaxTokens
  BY Fido2Constants DEF Init
<1>2. TypeOK
  <2>1. 0 \in 0 .. MaxTokens /\ MaxRetries \in 0 .. MaxRetries
    BY Fido2Constants
  <2> QED
    BY <1>1, <2>1 DEF Init, TypeOK
<1>3. Shaped
  <2>1. <<>> \in Seq(Device) /\ <<>> \in Seq(Candidate)
    OBVIOUS
  <2> QED
    BY <2>1 DEF Init, Shaped, NoCands
<1>4. PlaceForToken
  <2>1. Enrolling = {}
    BY DEF Init, Enrolling
  <2>2. IsFiniteSet({}) /\ Cardinality({}) = 0
    BY FS_EmptySet
  <2> QED
    BY <1>1, <2>1, <2>2 DEF PlaceForToken
<1>5. ASSUME NEW c \in Call
      PROVE  Careful(c)
  <2>1. /\ pc[c] = "idle" /\ op[c] = "none" /\ known[c] = 0 /\ paths[c] = {} /\ devs[c] = <<>>
        /\ cands[c] = <<>> /\ burnt[c] = {}
    BY DEF Init, NoCands
  <2>2. Staged(c) /\ StillThere(c) /\ OnlySelected(c) /\ Probed(c) /\ Checked(c)
    BY <1>1, <2>1 DEF Staged, Unlocking, StillThere, OnlySelected, Probed, Checked
  <2>3. DOMAIN cands[c] = {}
    BY <2>1
  <2>4. HadToBeAsked(c)
    BY <2>3 DEF HadToBeAsked
  <2> QED
    BY <2>2, <2>4 DEF Careful
<1> QED
  BY <1>2, <1>3, <1>4, <1>5 DEF Sound

\* Every reachable state has all of it.
LEMMA AlwaysSound == Spec => []Sound
<1>1. Init => Sound
  BY SoundInit
<1>2. Sound /\ [Next]_vars => Sound'
  BY SoundStep
<1> QED
  BY <1>1, <1>2, PTL DEF Spec

-----------------------------------------------------------------------------
(* The theorems *)

\* Types hold for any number of calls, authenticators and tokens: the retry counters stay
\* within their limits and the assertion loop always has an authenticator and a token.
THEOREM Fido2Typed == Spec => []TypeOK
<1>1. Sound => TypeOK
  BY DEF Sound
<1> QED
  BY <1>1, AlwaysSound, PTL

\* One unlock costs at most one authenticator attempts, and that one holds a credential of
\* the volume or did not answer its probe clearly (unlock_from_tokens).
THEOREM PinSpared == Spec => []PinSparing
<1>1. Sound => PinSparing
  <2> SUFFICES ASSUME Sound, NEW c \in Call, op[c] = "unlock"
               PROVE  /\ Cardinality(burnt[c]) <= 1
                      /\ \A d \in burnt[c] : d \in murky[c] \/ HasCredential(d, Ids(c)) # {}
    BY DEF PinSparing
  <2>1. Staged(c) /\ OnlySelected(c) /\ HadToBeAsked(c) /\ cands[c] \in Seq(Candidate)
    BY DEF Sound, Careful, Shaped
  <2>2. CASE burnt[c] = {}
    BY <2>2, FS_EmptySet
  <2>3. CASE burnt[c] # {}
    <3>1. pc[c] \in {"assert", "failed"}
      BY <2>1, <2>3 DEF Staged
    <3>2. Len(cands[c]) = 1 /\ burnt[c] = {cands[c][1].dev}
      BY <2>1, <2>3, <3>1 DEF OnlySelected
    <3>3. Cardinality(burnt[c]) = 1
      BY <3>2, FS_Singleton
    <3>4. 1 \in DOMAIN cands[c]
      BY <2>1, <3>2
    <3>5. cands[c][1].dev \in murky[c] \/ HasCredential(cands[c][1].dev, Ids(c)) # {}
      BY <2>1, <3>4 DEF HadToBeAsked
    <3> QED
      BY <3>2, <3>3, <3>5
  <2> QED
    BY <2>2, <2>3
<1> QED
  BY <1>1, AlwaysSound, PTL

\* A step that takes a call back to idle is a step of that call.
LEMMA EndsItself ==
    ASSUME Sound, [Next]_vars, NEW c \in Call, pc[c] # "idle", pc'[c] = "idle"
    PROVE  ServiceStep(c)
<1>0. TypeOK /\ Shaped /\ CallTypes
  BY TypesNow DEF Sound
<1>1. pc' # pc
  OBVIOUS
<1>2. \E d \in Call : CallStep(d)
  BY <1>1 DEF Next, vars, CallStep, Unplug, Plug
<1>3. CallStep(c)
  BY <1>0, <1>2, CallsUntouched DEF Untouched
<1>4. ~\E pos \in 1 .. Len(Manifest) : TouchSelect(c, pos)
  BY <1>0 DEF TouchSelect, Go, CallTypes
<1> QED
  BY <1>3, <1>4 DEF CallStep, CallUnlock, CallEnroll, CallCheck, Called

\* An unlock that fails although nothing went wrong has asked every authenticator it
\* opened, and none of them holds a credential of the volume (unlock_from_tokens).
THEOREM UnlockFailsRightly == Spec => UnlockFailsForAReason
<1>1. ASSUME Sound, [Next]_vars, NEW c \in Call, op[c] = "unlock", pc[c] # "assert",
             pc'[c] = "idle", ~excuse[c], dead[c] = {}, murky[c] = {}
      PROVE  \A d \in RangeOf(devs[c]) : HasCredential(d, Ids(c)) = {}
  <2>0. CallTypes /\ Staged(c) /\ OnlySelected(c) /\ Probed(c)
    BY <1>1, TypesNow DEF Sound, Careful
  <2>1. pc[c] \in Unlocking /\ pc[c] # "idle"
    BY <1>1, <2>0 DEF Staged
  <2>2. ServiceStep(c)
    BY <1>1, <2>1, EndsItself
  <2>3. CASE devs[c] = <<>>
    <3>1. RangeOf(devs[c]) = {}
      BY <2>3 DEF RangeOf
    <3> QED
      BY <3>1
  <2>4. CASE pc[c] = "open"
    <3>1. AllOpened(c)
      BY <1>1, <2>0, <2>2, <2>4 DEF ServiceStep, ListDevices, OpenDevice, ProbeDevice, AllProbed,
         GetHmacSecret, GetHmacSecretFails, UnlockFailed, CheckOpen, CheckProbe, EnrollOpen, Enroll,
         EnrollFails, WriteToken
    <3>2. devs[c] = <<>>
      BY <1>1, <2>0, <3>1 DEF AllOpened, Go, CallTypes
    <3> QED
      BY <2>3, <3>2
  <2>5. CASE pc[c] = "probe"
    <3>1. AllProbed(c)
      BY <1>1, <2>0, <2>2, <2>5 DEF ServiceStep, ListDevices, OpenDevice, AllOpened, ProbeDevice,
         GetHmacSecret, GetHmacSecretFails, UnlockFailed, CheckOpen, CheckProbe, EnrollOpen, Enroll,
         EnrollFails, WriteToken
    <3>2. paths[c] = {} /\ cands[c] = <<>>
      BY <1>1, <2>0, <3>1 DEF AllProbed, Go, CallTypes, NoCands
    <3>3. DOMAIN cands[c] = {}
      BY <3>2
    <3> QED
      BY <1>1, <2>0, <2>5, <3>2, <3>3 DEF Probed, Accounted, RangeOf
  <2>6. pc[c] # "failed"
    BY <1>1, <2>0 DEF OnlySelected
  <2>7. pc[c] # "touch"
    BY <1>1, <2>2 DEF ServiceStep, ListDevices, OpenDevice, AllOpened, ProbeDevice, AllProbed,
       GetHmacSecret, GetHmacSecretFails, UnlockFailed, CheckOpen, CheckProbe, EnrollOpen, Enroll,
       EnrollFails, WriteToken
  <2>8. pc[c] = "list" => devs[c] = <<>>
    BY <2>0 DEF Staged
  <2> QED
    BY <1>1, <2>1, <2>3, <2>4, <2>5, <2>6, <2>7, <2>8 DEF Unlocking
<1>2. Sound /\ [Next]_vars =>
        [\A c \in Call :
           /\ op[c] = "unlock" /\ pc[c] # "assert" /\ pc'[c] = "idle"
           /\ ~excuse[c] /\ dead[c] = {} /\ murky[c] = {}
           => \A d \in RangeOf(devs[c]) : HasCredential(d, Ids(c)) = {}]_vars
  BY <1>1
<1> QED
  BY <1>2, AlwaysSound, PTL DEF Spec, UnlockFailsForAReason

\* A second credential of an authenticator that the header named when the enrollment began
\* is written only if that one was busy, gone or unclear at the check, or if the header
\* could not be read, in which case op_enroll_fido2 skips the check.
THEOREM EnrolledOnce == Spec => AlreadyEnrolledRejected
<1>1. ASSUME Sound, NEW c \in Call, pc[c] = "write"
      PROVE  excuse[c] \/ Path(c) \in murky[c] \/ HasCredential(Path(c), Ids(c)) = {}
  BY <1>1 DEF Sound, Careful, Checked
<1>2. Sound /\ [Next]_vars =>
        [\A c \in Call : pc[c] = "write" /\ tokens' # tokens /\ pc'[c] = "idle"
           => \/ excuse[c] \/ Path(c) \in murky[c]
              \/ HasCredential(Path(c), Ids(c)) = {}]_vars
  BY <1>1
<1> QED
  BY <1>2, AlwaysSound, PTL DEF Spec, AlreadyEnrolledRejected

=============================================================================
