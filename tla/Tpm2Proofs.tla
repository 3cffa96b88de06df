----------------------------- MODULE Tpm2Proofs -----------------------------
(***************************************************************************)
(* Proofs about Tpm2: handles are given back, a secret leaves the TPM      *)
(* only as it was sealed, only another's PIN is counted, and an unlock     *)
(* fails only for a reason.                                                *)
(***************************************************************************)
EXTENDS Tpm2, FiniteSetTheorems, TLAPS

-----------------------------------------------------------------------------
(* The inductive invariant *)

\* The functions that TypeOK leaves open.
Shaped ==
    /\ DOMAIN list = Call /\ todo \in [Call -> SUBSET Nat] /\ cur \in [Call -> Nat]
    /\ asked \in [Call -> [Moving -> 0 .. MaxExtends]]
    /\ DOMAIN policy = Call

\* Which operation may be at which stage, and what its context holds there.
Staged(c) ==
    /\ pc[c] = "idle" <=> op[c] = "none"
    /\ pc[c] \in {"load", "unseal"} => op[c] = "unseal"
    /\ pc[c] = "create" => op[c] = "seal"
    /\ pc[c] \in {"idle", "begin", "srk"} => held[c] = {}
    /\ pc[c] = "load" => held[c] \subseteq {"srk"}
    /\ pc[c] \notin {"idle", "begin"} => PcrsOk(Token(c).pcrs)

\* The flusher of a call knows only handles of its context.
FlusherKnows == \A c \in Call : tracked[c] \subseteq held[c]

\* A handle of a context that its flusher no longer knows is one the TPM would not flush.
Accounted ==
    ~tpm.managed => \A c \in Call : \A k \in held[c] \ tracked[c] : stranded[k] < lost[k]

\* Without a resource manager there is one context at a time.
Alone ==
    ~tpm.managed => \A c, d \in Call :
        c # d => pc[c] \in {"idle", "begin"} \/ pc[d] \in {"idle", "begin"}

\* Every seal under way has a place for its token.
PlaceForToken ==
    IsFiniteSet(Sealing) /\ Len(tokens) + Cardinality(Sealing) <= MaxTokens

IsSeq(s) == s \in Seq({s[i] : i \in DOMAIN s})

\* Tokens say what was asked for when they were sealed.
Formed ==
    /\ IsSeq(tokens) /\ \A i \in DOMAIN tokens : WellFormed(tokens[i])
    /\ \A c \in Call :
          /\ op[c] = "unseal" => \A i \in DOMAIN list[c] : WellFormed(list[c][i])
          /\ op[c] = "seal" => \A i \in DOMAIN list[c] : list[c][i].pinRequired = (pin[c] # NoPin)

\* A token that wants a PIN is tried only with one.
PinAtHand(c) ==
    op[c] = "unseal" =>
        /\ \A i \in todo[c] : list[c][i].pinRequired => pin[c] # NoPin
        /\ pc[c] \notin {"idle", "begin"} => (Token(c).pinRequired => pin[c] # NoPin)

\* Registers only move forward: what a call saw lies between its start and now.
Forward(c) ==
    /\ \A i \in Moving : asked[c][i] <= pcr[i]
    /\ pc[c] = "unseal" =>
          /\ policy[c].seen \in [Moving -> 0 .. MaxExtends]
          /\ \A i \in Moving : asked[c][i] <= policy[c].seen[i] /\ policy[c].seen[i] <= pcr[i]

\* What the session of a call asserts: the registers of its token as it saw them, and the
\* PIN when the token wants one.
Asserted(c) ==
    pc[c] \in {"create", "unseal"} =>
        policy[c].is =
            [pcrs |-> [i \in parse_pcr_indices(Token(c).pcrs) |->
                          IF i \in Moving THEN policy[c].seen[i] ELSE 0],
             authValue |-> Token(c).pinRequired]

\* The SRK everything on this TPM is sealed under, unless a command failed.
Srk == IF tpm.srk = "none" THEN "ecc" ELSE tpm.srk
OwnParent(c) == pc[c] = "load" /\ ~fault[c] => parent[c] = Srk

\* The conditions FailsForAReason makes, turned round.
Excused(c) ==
    \/ fault[c] \/ asked[c] # pcr
    \/ stranded["srk"] + stranded["loaded"] + 2 > Slots \/ ~SessionRoom

\* A token bound to a register whose secret the TPM would have given out.
Missed(t, p) == BoundToPcrs(t) /\ Opens(t, p)

\* A token that an unlock is done with does not open, or there is an excuse.
Tried(c) == {i \in DOMAIN list[c] : i \notin todo[c] /\ (pc[c] = "begin" \/ i # cur[c])}
RightlyRefused(c) ==
    op[c] = "unseal" /\ Readable(list[c]) =>
        Excused(c) \/ \A i \in Tried(c) : ~Missed(list[c][i], pin[c])

Attempts ==
    \A c \in Call : Staged(c) /\ PinAtHand(c) /\ Forward(c) /\ Asserted(c) /\ OwnParent(c)

Refusals == \A c \in Call : RightlyRefused(c)
-----------------------------------------------------------------------------
(* Steps, and what they leave alone *)

\* A call is made, or one is served.
CallStep(c) ==
    \/ \E parts \in Requests, p \in Pins \cup {NoPin} : CallSeal(c, parts, p)
    \/ \E p \in Pins \cup {NoPin} : CallUnseal(c, p)
    \/ Step(c)

Untouched(d) ==
    /\ pc'[d] = pc[d] /\ op'[d] = op[d] /\ pin'[d] = pin[d]
    /\ list'[d] = list[d] /\ todo'[d] = todo[d] /\ cur'[d] = cur[d]
    /\ held'[d] = held[d] /\ tracked'[d] = tracked[d] /\ parent'[d] = parent[d]
    /\ policy'[d] = policy[d] /\ asked'[d] = asked[d] /\ fault'[d] = fault[d]

LEMMA OneMoreCounts ==
    ASSUME NEW count \in [Kinds -> Nat], NEW kinds
    PROVE  /\ OneMore(count, kinds) \in [Kinds -> Nat]
           /\ \A k \in Kinds : /\ k \in kinds => OneMore(count, kinds)[k] = count[k] + 1
                               /\ k \notin kinds => OneMore(count, kinds)[k] = count[k]
BY DEF OneMore

\* The head of the loop: the call ends, or takes on token i.
TakesOn(c, i) ==
    /\ todo' = [todo EXCEPT ![c] = @ \ {i}]
    /\ \/ ~PcrsOk(list[c][i].pcrs) /\ pc' = pc /\ cur' = cur /\ fault' = fault
       \/ PcrsOk(list[c][i].pcrs) /\ Faulty(c) /\ pc' = pc /\ cur' = cur
       \/ /\ PcrsOk(list[c][i].pcrs) /\ cur' = [cur EXCEPT ![c] = i] /\ Go(c, "srk")
          /\ fault' = fault /\ ~Busy(c)
    /\ op' = op /\ pin' = pin /\ list' = list /\ asked' = asked

LEMMA BeginCases ==
    ASSUME NEW c \in Call, Begin(c)
    PROVE  /\ pc[c] = "begin"
           /\ (todo[c] = {} /\ Return(c)) \/ \E i \in todo[c] : TakesOn(c, i)
           /\ UNCHANGED <<tpm, pcr, failures, stranded, lost, tokens>>
           /\ UNCHANGED <<held, tracked, parent, policy>>
BY DEF Begin, TakesOn, context

LEMMA CallsUntouched ==
    ASSUME TypeOK, Shaped, NEW c \in Call, CallStep(c), NEW d \in Call \ {c}
    PROVE  Untouched(d)
<1> USE DEF TypeOK, Shaped, Untouched, Go, context, history
<1>1. ASSUME NEW parts \in Requests, NEW p \in Pins \cup {NoPin}, CallSeal(c, parts, p)
      PROVE  Untouched(d)
  BY <1>1 DEF CallSeal, Called
<1>2. ASSUME NEW p \in Pins \cup {NoPin}, CallUnseal(c, p)
      PROVE  Untouched(d)
  BY <1>2 DEF CallUnseal, Called
<1>3. CASE Begin(c)
  <2>0. UNCHANGED <<held, tracked, parent, policy>>
    BY <1>3, BeginCases
  <2>1. CASE Return(c)
    BY <2>0, <2>1 DEF Return
  <2>2. ASSUME NEW i \in todo[c], TakesOn(c, i)
        PROVE  Untouched(d)
    BY <2>0, <2>2 DEF TakesOn, Faulty
  <2> QED
    BY <1>3, <2>1, <2>2, BeginCases
<1>4. CASE GetSrk(c)
  BY <1>4 DEF GetSrk, Track
<1>5. CASE SerializeFails(c)
  BY <1>5 DEF SerializeFails, Faulty
<1>6. CASE Load(c)
  BY <1>6 DEF Load, Track, GiveUp, DropContext
<1>7. CASE StartSession(c)
  BY <1>7 DEF StartSession, Track
<1>8. CASE Policy(c)
  BY <1>8 DEF Policy, FlushNow
<1>9. CASE Create(c)
  BY <1>9 DEF Create, DropContext, Return
<1>10. CASE Unseal(c)
  BY <1>10 DEF Unseal, DropContext, Return
<1>11. CASE UnsealRefused(c)
  BY <1>11 DEF UnsealRefused, GiveUp, DropContext
<1>12. CASE Fails(c)
  BY <1>12 DEF Fails, GiveUp, DropContext
<1> QED
  BY <1>1, <1>2, <1>3, <1>4, <1>5, <1>6, <1>7, <1>8, <1>9, <1>10, <1>11, <1>12 DEF CallStep, Step

-----------------------------------------------------------------------------
(* Types *)

LEMMA DropTyped ==
    ASSUME TypeOK, Shaped, NEW c \in Call, DropContext(c)
    PROVE  /\ held' \in [Call -> SUBSET Kinds] /\ held'[c] = {}
           /\ tracked' \in [Call -> SUBSET Kinds] /\ tracked'[c] = {}
           /\ parent' \in [Call -> Srks] /\ DOMAIN policy' = Call
BY DEF DropContext, TypeOK, Shaped, Srks

LEMMA TrackTyped ==
    ASSUME TypeOK, NEW c \in Call, NEW k \in Kinds, Track(c, k)
    PROVE  /\ held' \in [Call -> SUBSET Kinds] /\ held'[c] = held[c] \cup {k}
           /\ tracked' \in [Call -> SUBSET Kinds] /\ tracked'[c] = tracked[c] \cup {k}
<1>1. held \in [Call -> SUBSET Kinds] /\ tracked \in [Call -> SUBSET Kinds]
  BY DEF TypeOK
<1> DEFINE h == held[c] \cup {k}
           t == tracked[c] \cup {k}
<1>2. held' = [held EXCEPT ![c] = h] /\ tracked' = [tracked EXCEPT ![c] = t]
  BY DEF Track
<1>3. h \in SUBSET Kinds /\ t \in SUBSET Kinds
  BY <1>1
<1>4. held'[c] = h /\ tracked'[c] = t
  BY <1>1, <1>2
<1> HIDE DEF h, t
<1>5. held' \in [Call -> SUBSET Kinds] /\ tracked' \in [Call -> SUBSET Kinds]
  BY <1>1, <1>2, <1>3
<1> QED
  BY <1>4, <1>5 DEF h, t

LEMMA FlushTyped ==
    ASSUME TypeOK, NEW c \in Call, NEW k \in Kinds, FlushNow(c, k)
    PROVE  /\ held' \in [Call -> SUBSET Kinds]
           /\ \/ held'[c] = held[c] \ {k} /\ lost' = lost
              \/ held' = held /\ lost' = IF tpm.managed THEN lost ELSE OneMore(lost, {k})
           /\ tracked' \in [Call -> SUBSET Kinds] /\ tracked'[c] = tracked[c] \ {k}
<1>1. held \in [Call -> SUBSET Kinds] /\ tracked \in [Call -> SUBSET Kinds]
  BY DEF TypeOK
<1> DEFINE h == held[c] \ {k}
           t == tracked[c] \ {k}
<1>2. /\ \/ held' = [held EXCEPT ![c] = h] /\ lost' = lost
         \/ held' = held /\ lost' = IF tpm.managed THEN lost ELSE OneMore(lost, {k})
      /\ tracked' = [tracked EXCEPT ![c] = t]
  BY DEF FlushNow
<1>3. h \in SUBSET Kinds /\ t \in SUBSET Kinds
  BY <1>1
<1>4. /\ \/ held'[c] = h /\ lost' = lost
         \/ held' = held /\ lost' = IF tpm.managed THEN lost ELSE OneMore(lost, {k})
      /\ tracked'[c] = t
  BY <1>1, <1>2
<1> HIDE DEF h, t
<1>5. held' \in [Call -> SUBSET Kinds] /\ tracked' \in [Call -> SUBSET Kinds]
  BY <1>1, <1>2, <1>3
<1> QED
  BY <1>4, <1>5 DEF h, t

\* What the calls keep has its type.
CallTypes ==
    /\ pc \in [Call -> Stages] /\ op \in [Call -> {"none", "seal", "unseal"}]
    /\ pin \in [Call -> Pins \cup {NoPin}]
    /\ held \in [Call -> SUBSET Kinds] /\ tracked \in [Call -> SUBSET Kinds]
    /\ parent \in [Call -> Srks] /\ DOMAIN list = Call
    /\ todo \in [Call -> SUBSET Nat] /\ cur \in [Call -> Nat] /\ DOMAIN policy = Call
    /\ asked \in [Call -> [Moving -> 0 .. MaxExtends]]

LEMMA ReturnTyped ==
    ASSUME TypeOK, Shaped, NEW c \in Call, Return(c)
    PROVE  /\ pc' \in [Call -> Stages] /\ op' \in [Call -> {"none", "seal", "unseal"}]
           /\ pin' \in [Call -> Pins \cup {NoPin}] /\ DOMAIN list' = Call
           /\ todo' \in [Call -> SUBSET Nat] /\ cur' \in [Call -> Nat]
           /\ asked' \in [Call -> [Moving -> 0 .. MaxExtends]]
           /\ fault' \in [Call -> BOOLEAN]
<1>1. Unextended \in [Moving -> 0 .. MaxExtends]
  BY Tpm2Constants DEF Unextended
<1> QED
  BY <1>1 DEF Return, Go, TypeOK, Shaped, Stages

LEMMA SeqDomain ==
    ASSUME NEW s, IsSeq(s)
    PROVE  Len(s) \in Nat /\ DOMAIN s = 1 .. Len(s)
BY DEF IsSeq

LEMMA FaultTyped ==
    ASSUME TypeOK, Shaped, NEW c \in Call, CallStep(c)
    PROVE  fault' \in [Call -> BOOLEAN]
<1>0. fault \in [Call -> BOOLEAN]
  BY DEF TypeOK
<1>1. ASSUME NEW b \in BOOLEAN, fault' = [fault EXCEPT ![c] = b]
      PROVE  fault' \in [Call -> BOOLEAN]
  BY <1>0, <1>1
<1>2. CASE fault' = fault
  BY <1>0, <1>2
<1>3. CASE Begin(c)
  <2>1. fault' = fault \/ fault' = [fault EXCEPT ![c] = TRUE] \/ fault' = [fault EXCEPT ![c] = FALSE]
    BY <1>3, BeginCases DEF TakesOn, Return, Faulty
  <2> QED
    BY <1>1, <1>2, <2>1
<1>4. CASE GetSrk(c)
  <2>1. \/ fault' = fault
        \/ fault' = [fault EXCEPT ![c] = fault[c] \/ tpm.srk # "none"]
    BY <1>4 DEF GetSrk
  <2>2. (fault[c] \/ tpm.srk # "none") \in BOOLEAN
    BY Zenon
  <2> QED
    BY <1>1, <1>2, <2>1, <2>2
<1>5. CASE Fails(c)
  <2> DEFINE b == fault[c] \/ ~NoSlot(c)
  <2>1. fault' = [fault EXCEPT ![c] = b]
    BY <1>5 DEF Fails
  <2>2. b \in BOOLEAN
    BY Zenon
  <2> QED
    BY <1>1, <2>1, <2>2
<1>6. CASE SerializeFails(c)
  BY <1>1, <1>6 DEF SerializeFails, Faulty
<1>7. CASE Return(c)
  BY <1>7, ReturnTyped
<1> QED
  BY <1>2, <1>3, <1>4, <1>5, <1>6, <1>7 DEF CallStep, Step, CallSeal, CallUnseal, Called, Load,
      StartSession, Policy, Create, Unseal, UnsealRefused, history

LEMMA CallTypesStep ==
    ASSUME TypeOK, Shaped, IsSeq(tokens), NEW c \in Call, CallStep(c)
    PROVE  CallTypes'
<1>0. CallTypes
  BY DEF TypeOK, Shaped, CallTypes
<1> USE DEF Go, Stages, context, history
<1>1. ASSUME NEW parts \in Requests, NEW p \in Pins \cup {NoPin}, CallSeal(c, parts, p)
      PROVE  CallTypes'
  BY <1>0, <1>1 DEF CallSeal, Called, CallTypes
<1>2. ASSUME NEW p \in Pins \cup {NoPin}, CallUnseal(c, p)
      PROVE  CallTypes'
  <2> DEFINE S == IF Readable(tokens) THEN candidate_tokens(tokens, p # NoPin) ELSE {}
  <2>1. S \in SUBSET Nat
    BY SeqDomain DEF candidate_tokens
  <2>2. Called(c, "unseal", p, tokens, S) /\ asked' = [asked EXCEPT ![c] = pcr]
    BY <1>2 DEF CallUnseal
  <2> HIDE DEF S
  <2>3. pcr \in [Moving -> 0 .. MaxExtends]
    BY DEF TypeOK
  <2> QED
    BY <1>0, <2>1, <2>2, <2>3 DEF Called, CallTypes
<1>3. CASE Begin(c)
  <2>0. UNCHANGED <<held, tracked, parent, policy>>
    BY <1>3, BeginCases
  <2>1. CASE Return(c)
    BY <1>0, <2>0, <2>1, ReturnTyped DEF CallTypes
  <2>2. ASSUME NEW i \in todo[c], TakesOn(c, i)
        PROVE  CallTypes'
    <3>1. i \in Nat
      BY DEF Shaped
    <3>2. cur' \in [Call -> Nat] /\ pc' \in [Call -> Stages]
      <4>1. /\ cur' = cur \/ cur' = [cur EXCEPT ![c] = i]
            /\ pc' = pc \/ pc' = [pc EXCEPT ![c] = "srk"]
        BY <2>2 DEF TakesOn
      <4> QED
        BY <1>0, <3>1, <4>1 DEF CallTypes
    <3>4. todo' \in [Call -> SUBSET Nat]
      <4> DEFINE w == todo[c] \ {i}
      <4>1. w \in SUBSET Nat /\ todo \in [Call -> SUBSET Nat]
        BY <1>0 DEF CallTypes
      <4>2. todo' = [todo EXCEPT ![c] = w]
        BY <2>2 DEF TakesOn
      <4> HIDE DEF w
      <4> QED
        BY <4>1, <4>2
    <3>3. op' = op /\ pin' = pin /\ list' = list /\ asked' = asked
      BY <2>2 DEF TakesOn
    <3> QED
      BY <1>0, <2>0, <3>2, <3>3, <3>4 DEF CallTypes
  <2> QED
    BY <1>3, <2>1, <2>2, BeginCases
<1>4. CASE GetSrk(c)
  <2>1. tpm.srk \in Srks
    BY Tpm2Constants DEF TypeOK, Srks
  <2>2. held' \in [Call -> SUBSET Kinds] /\ tracked' \in [Call -> SUBSET Kinds]
    BY <1>0, <1>4, TrackTyped DEF GetSrk, CallTypes, Kinds
  <2>3. parent' \in [Call -> Srks]
    BY <1>0, <1>4, <2>1 DEF GetSrk, ecc_srk_template, CallTypes, Srks
  <2>4. pc' \in [Call -> Stages]
    BY <1>0, <1>4 DEF GetSrk, AfterSrk, CallTypes
  <2>5. UNCHANGED <<op, pin, list, todo, cur, policy, asked>>
    BY <1>4 DEF GetSrk
  <2> QED
    BY <1>0, <2>2, <2>3, <2>4, <2>5 DEF CallTypes
<1>5. CASE SerializeFails(c)
  BY <1>0, <1>5 DEF SerializeFails, CallTypes
<1>6. CASE Load(c)
  <2>1. CASE Track(c, "loaded") /\ Go(c, "session") /\ UNCHANGED <<stranded, lost, parent, policy, cur>>
    <3>1. held' \in [Call -> SUBSET Kinds] /\ tracked' \in [Call -> SUBSET Kinds]
      BY <2>1, TrackTyped DEF Kinds
    <3> QED
      BY <1>0, <1>6, <2>1, <3>1 DEF Load, CallTypes
  <2>2. CASE GiveUp(c)
    BY <1>0, <1>6, <2>2, DropTyped DEF Load, GiveUp, CallTypes
  <2> QED
    BY <1>6, <2>1, <2>2 DEF Load
<1>7. CASE StartSession(c)
  <2>1. held' \in [Call -> SUBSET Kinds] /\ tracked' \in [Call -> SUBSET Kinds]
    BY <1>7, TrackTyped DEF StartSession, Kinds
  <2> QED
    BY <1>0, <1>7, <2>1 DEF StartSession, CallTypes
<1>8. CASE Policy(c)
  <2>1. held' \in [Call -> SUBSET Kinds] /\ tracked' \in [Call -> SUBSET Kinds]
    BY <1>0, <1>8, FlushTyped DEF Policy, Kinds, CallTypes
  <2>2. pc' \in [Call -> Stages]
    BY <1>0, <1>8 DEF Policy, CallTypes
  <2>3. DOMAIN policy' = Call /\ UNCHANGED <<op, pin, list, todo, cur, parent, asked>>
    BY <1>0, <1>8 DEF Policy, CallTypes
  <2> QED
    BY <1>0, <2>1, <2>2, <2>3 DEF CallTypes
<1>9. CASE Create(c)
  BY <1>0, <1>9, DropTyped, ReturnTyped DEF Create, CallTypes
<1>10. CASE Unseal(c)
  BY <1>0, <1>10, DropTyped, ReturnTyped DEF Unseal, CallTypes
<1>11. CASE UnsealRefused(c)
  BY <1>0, <1>11, DropTyped DEF UnsealRefused, GiveUp, CallTypes
<1>12. CASE Fails(c)
  BY <1>0, <1>12, DropTyped DEF Fails, GiveUp, CallTypes
<1> QED
  BY <1>1, <1>2, <1>3, <1>4, <1>5, <1>6, <1>7, <1>8, <1>9, <1>10, <1>11, <1>12 DEF CallStep, Step

-----------------------------------------------------------------------------
(* The five things a step can do to its call: it is made, it takes on a token, carries on *)
(* with it, gives it up, or ends.                                                         *)

Keeps(c) ==
    /\ list'[c] = list[c] /\ todo'[c] = todo[c] /\ op'[c] = op[c] /\ pin'[c] = pin[c]
    /\ asked'[c] = asked[c]

CarriesOn(c) ==
    pc[c] \notin {"idle", "begin"} /\ pc'[c] \notin {"idle", "begin"} /\ Keeps(c) /\ cur'[c] = cur[c]

DropsToken(c) ==
    pc[c] \notin {"idle", "begin"} /\ pc'[c] = "begin" /\ Keeps(c)

LEMMA ReturnEnds ==
    ASSUME TypeOK, Shaped, NEW c \in Call, Return(c)
    PROVE  /\ pc'[c] = "idle" /\ op'[c] = "none" /\ pin'[c] = NoPin /\ list'[c] = <<>>
           /\ todo'[c] = {} /\ cur'[c] = 0 /\ asked'[c] = Unextended /\ fault'[c] = FALSE
BY DEF Return, Go, TypeOK, Shaped

LEMMA GiveUpDrops ==
    ASSUME TypeOK, Shaped, NEW c \in Call, pc[c] \notin {"idle", "begin"}, GiveUp(c),
           UNCHANGED <<list, todo, op, pin, asked>>
    PROVE  DropsToken(c)
BY DEF GiveUp, Go, TypeOK, Shaped, DropsToken, Keeps

LEMMA StepKinds ==
    ASSUME TypeOK, Shaped, NEW c \in Call, Step(c)
    PROVE  \/ Return(c) /\ pc[c] # "idle"
           \/ pc[c] = "begin" /\ \E i \in todo[c] : TakesOn(c, i)
           \/ CarriesOn(c)
           \/ DropsToken(c)
<1> USE DEF Go, history
<1>1. CASE Begin(c)
  BY <1>1, BeginCases
<1>2. CASE GetSrk(c)
  BY <1>2 DEF GetSrk, AfterSrk, CarriesOn, Keeps, TypeOK
<1>3. CASE SerializeFails(c)
  BY <1>3 DEF SerializeFails, DropsToken, Keeps, TypeOK
<1>4. CASE Load(c)
  <2>1. CASE GiveUp(c)
    BY <1>4, <2>1, GiveUpDrops DEF Load
  <2>2. CASE Go(c, "session") /\ UNCHANGED cur
    BY <1>4, <2>2 DEF Load, CarriesOn, Keeps, TypeOK
  <2> QED
    BY <1>4, <2>1, <2>2 DEF Load
<1>5. CASE StartSession(c)
  BY <1>5 DEF StartSession, CarriesOn, Keeps, TypeOK
<1>6. CASE Policy(c)
  BY <1>6 DEF Policy, CarriesOn, Keeps, TypeOK
<1>7. CASE Create(c)
  BY <1>7 DEF Create
<1>8. CASE Unseal(c)
  BY <1>8 DEF Unseal
<1>9. CASE UnsealRefused(c)
  BY <1>9, GiveUpDrops DEF UnsealRefused
<1>10. CASE Fails(c)
  BY <1>10, GiveUpDrops DEF Fails
<1> QED
  BY <1>1, <1>2, <1>3, <1>4, <1>5, <1>6, <1>7, <1>8, <1>9, <1>10 DEF Step

LEMMA CalledSets ==
    ASSUME TypeOK, Shaped, NEW c \in Call, NEW o, NEW p, NEW read, NEW candidates,
           Called(c, o, p, read, candidates)
    PROVE  /\ pc[c] = "idle" /\ pc'[c] = "begin" /\ op'[c] = o /\ pin'[c] = p
           /\ list'[c] = read /\ todo'[c] = candidates
BY DEF Called, Go, TypeOK, Shaped

LEMMA TakesOnSets ==
    ASSUME TypeOK, Shaped, NEW c \in Call, pc[c] = "begin", NEW i \in todo[c], TakesOn(c, i)
    PROVE  /\ list'[c] = list[c] /\ op'[c] = op[c] /\ pin'[c] = pin[c] /\ asked'[c] = asked[c]
           /\ todo'[c] = todo[c] \ {i}
           /\ \/ pc'[c] = "begin" /\ (~PcrsOk(list[c][i].pcrs) \/ fault'[c])
              \/ pc'[c] = "srk" /\ cur'[c] = i /\ PcrsOk(list[c][i].pcrs)
           /\ fault[c] => fault'[c]
<1>1. /\ list'[c] = list[c] /\ op'[c] = op[c] /\ pin'[c] = pin[c] /\ asked'[c] = asked[c]
      /\ todo'[c] = todo[c] \ {i}
  BY DEF TakesOn, Shaped
<1>2. CASE ~PcrsOk(list[c][i].pcrs) /\ pc' = pc /\ cur' = cur /\ fault' = fault
  BY <1>1, <1>2
<1>3. CASE PcrsOk(list[c][i].pcrs) /\ Faulty(c) /\ pc' = pc /\ cur' = cur
  BY <1>1, <1>3 DEF Faulty, TypeOK
<1>4. CASE PcrsOk(list[c][i].pcrs) /\ cur' = [cur EXCEPT ![c] = i] /\ Go(c, "srk") /\ fault' = fault
  BY <1>1, <1>4 DEF Go, TypeOK, Shaped
<1> QED
  BY <1>2, <1>3, <1>4 DEF TakesOn

-----------------------------------------------------------------------------
(* The rest of TypeOK: positions, flushers and counters *)

InList(c) ==
    /\ todo[c] \subseteq DOMAIN list[c]
    /\ pc[c] \notin {"idle", "begin"} => cur[c] \in DOMAIN list[c]

LEMMA InListStep ==
    ASSUME TypeOK, Shaped, NEW c \in Call, CallStep(c)
    PROVE  \A d \in Call : InList(d)'
<1>0. \A d \in Call : InList(d)
  BY DEF TypeOK, InList
<1>1. ASSUME NEW d \in Call \ {c}
      PROVE  InList(d)'
  BY <1>0, CallsUntouched DEF Untouched, InList
<1>2. InList(c)'
  <2>1. ASSUME NEW parts \in Requests, NEW p \in Pins \cup {NoPin}, CallSeal(c, parts, p)
        PROVE  InList(c)'
    BY <2>1, CalledSets DEF CallSeal, InList
  <2>2. ASSUME NEW p \in Pins \cup {NoPin}, CallUnseal(c, p)
        PROVE  InList(c)'
    <3> DEFINE S == IF Readable(tokens) THEN candidate_tokens(tokens, p # NoPin) ELSE {}
    <3>1. S \subseteq DOMAIN tokens
      BY DEF candidate_tokens
    <3>2. Called(c, "unseal", p, tokens, S)
      BY <2>2 DEF CallUnseal
    <3> HIDE DEF S
    <3> QED
      BY <3>1, <3>2, CalledSets DEF InList
  <2>3. CASE Step(c)
    <3>1. CASE Return(c)
      BY <3>1, ReturnEnds DEF InList
    <3>2. ASSUME pc[c] = "begin", NEW i \in todo[c], TakesOn(c, i)
          PROVE  InList(c)'
      BY <1>0, <3>2, TakesOnSets DEF InList
    <3>3. CASE CarriesOn(c)
      BY <1>0, <3>3 DEF CarriesOn, Keeps, InList
    <3>4. CASE DropsToken(c)
      BY <1>0, <3>4 DEF DropsToken, Keeps, InList
    <3> QED
      BY <2>3, <3>1, <3>2, <3>3, <3>4, StepKinds
  <2> QED
    BY <2>1, <2>2, <2>3 DEF CallStep
<1> QED
  BY <1>1, <1>2

\* What a step can do with handles.
LEMMA HandleKinds ==
    ASSUME TypeOK, Shaped, NEW c \in Call, CallStep(c)
    PROVE  \/ UNCHANGED <<stranded, lost, held, tracked>>
           \/ \E k \in Kinds : Track(c, k) /\ UNCHANGED <<stranded, lost>>
           \/ \E k \in Kinds : FlushNow(c, k) /\ UNCHANGED stranded
           \/ DropContext(c) /\ pc[c] \notin {"idle", "begin"}
           \/ SerializeFails(c)
<1>1. "srk" \in Kinds /\ "loaded" \in Kinds /\ "session" \in Kinds
  BY DEF Kinds
<1>2. CASE Begin(c)
  BY <1>2, BeginCases
<1>3. CASE GetSrk(c) \/ StartSession(c) \/ Policy(c)
  BY <1>1, <1>3 DEF GetSrk, StartSession, Policy
<1>4. CASE Load(c)
  BY <1>1, <1>4 DEF Load, GiveUp
<1>5. CASE Create(c) \/ Unseal(c) \/ UnsealRefused(c) \/ Fails(c)
  BY <1>5 DEF Create, Unseal, UnsealRefused, Fails, GiveUp
<1>6. ASSUME NEW o, NEW p, NEW read, NEW candidates, Called(c, o, p, read, candidates)
      PROVE  UNCHANGED <<stranded, lost, held, tracked>>
  BY <1>6 DEF Called, context
<1> QED
  BY <1>2, <1>3, <1>4, <1>5, <1>6 DEF CallStep, Step, CallSeal, CallUnseal

LEMMA FlusherStep ==
    ASSUME TypeOK, Shaped, NEW c \in Call, CallStep(c)
    PROVE  FlusherKnows'
<1>0. \A d \in Call : tracked[d] \subseteq held[d]
  BY DEF TypeOK
<1>1. ASSUME NEW d \in Call \ {c}
      PROVE  tracked'[d] \subseteq held'[d]
  BY <1>0, CallsUntouched DEF Untouched
<1>2. tracked'[c] \subseteq held'[c]
  <2>1. CASE DropContext(c)
    BY <2>1, DropTyped
  <2>2. CASE UNCHANGED <<held, tracked>>
    BY <1>0, <2>2
  <2>3. ASSUME NEW k \in Kinds, Track(c, k)
        PROVE  tracked'[c] \subseteq held'[c]
    BY <1>0, <2>3, TrackTyped
  <2>4. ASSUME NEW k \in Kinds, FlushNow(c, k)
        PROVE  tracked'[c] \subseteq held'[c]
    BY <1>0, <2>4, FlushTyped
  <2>5. CASE SerializeFails(c)
    BY <2>2, <2>5 DEF SerializeFails, context
  <2> QED
    BY <2>1, <2>2, <2>3, <2>4, <2>5, HandleKinds
<1> QED
  BY <1>1, <1>2 DEF FlusherKnows

\* What the TPM holds for nobody only grows, and what is counted as lost with it.
LEMMA StrandedTyped ==
    ASSUME TypeOK, Shaped, NEW c \in Call, CallStep(c)
    PROVE  /\ stranded' \in [Kinds -> Nat] /\ lost' \in [Kinds -> Nat]
           /\ \A k \in Kinds : stranded[k] <= stranded'[k] /\ lost[k] <= lost'[k]
<1>1. stranded \in [Kinds -> Nat] /\ lost \in [Kinds -> Nat]
  BY DEF TypeOK
<1>2. \A k \in Kinds : stranded[k] <= stranded[k] /\ lost[k] <= lost[k]
  BY <1>1
<1>3. ASSUME NEW count \in [Kinds -> Nat], NEW kinds
      PROVE  /\ OneMore(count, kinds) \in [Kinds -> Nat]
             /\ \A k \in Kinds : count[k] <= OneMore(count, kinds)[k]
  BY <1>3, OneMoreCounts
<1>4. CASE UNCHANGED <<stranded, lost>>
  BY <1>1, <1>2, <1>4
<1>5. ASSUME NEW k \in Kinds, FlushNow(c, k), UNCHANGED stranded
      PROVE  lost' = lost \/ lost' = OneMore(lost, {k})
  BY <1>5, FlushTyped
<1>6. CASE DropContext(c)
  BY <1>1, <1>3, <1>4, <1>6 DEF DropContext
<1>7. CASE SerializeFails(c)
  BY <1>1, <1>3, <1>4, <1>7 DEF SerializeFails
<1> QED
  BY <1>1, <1>2, <1>3, <1>4, <1>5, <1>6, <1>7, HandleKinds

LEMMA AloneStep ==
    ASSUME TypeOK, Shaped, Alone, NEW c \in Call, CallStep(c), tpm' = tpm
    PROVE  Alone'
<1>1. \A d \in Call \ {c} : pc'[d] = pc[d]
  BY CallsUntouched DEF Untouched
<1>2. ASSUME ~tpm.managed, pc'[c] \notin {"idle", "begin"}, NEW d \in Call \ {c}
      PROVE  pc[d] \in {"idle", "begin"}
  <2>1. CASE pc[c] \notin {"idle", "begin"}
    BY <1>2, <2>1 DEF Alone
  <2>2. ASSUME pc[c] = "begin", NEW i \in todo[c], TakesOn(c, i)
        PROVE  pc[d] \in {"idle", "begin"}
    <3>1. ~Busy(c)
      BY <1>2, <2>2 DEF TakesOn
    <3> QED
      BY <1>2, <3>1 DEF Busy
  <2>3. ASSUME NEW o, NEW p, NEW read, NEW candidates, Called(c, o, p, read, candidates)
        PROVE  FALSE
    BY <1>2, <2>3, CalledSets
  <2>4. ~Return(c)
    BY <1>2, ReturnEnds
  <2> QED
    BY <2>1, <2>2, <2>3, <2>4, StepKinds
    DEF CallStep, CallSeal, CallUnseal, CarriesOn, DropsToken
<1> QED
  BY <1>1, <1>2 DEF Alone

\* Whatever ends a context, the TPM is left with a handle only when it would not flush it,
\* or when the service never got to know it.
LEMMA HandlesStep ==
    ASSUME TypeOK, Shaped, Accounted, Alone, HandlesReturned, \A d \in Call : Staged(d),
           NEW c \in Call, CallStep(c), tpm' = tpm
    PROVE  HandlesReturned' /\ Accounted'
<1>1. /\ stranded \in [Kinds -> Nat] /\ lost \in [Kinds -> Nat]
      /\ \A k \in Kinds : stranded[k] <= lost[k]
      /\ held \in [Call -> SUBSET Kinds] /\ tracked \in [Call -> SUBSET Kinds]
  BY DEF TypeOK, HandlesReturned
<1>2. CASE tpm.managed
  <2>1. stranded' = stranded /\ lost' = lost
    <3>1. ASSUME NEW k \in Kinds, FlushNow(c, k) PROVE lost' = lost
      BY <1>2, <3>1, FlushTyped
    <3> QED  BY <1>2, <3>1, HandleKinds DEF DropContext, SerializeFails
  <2> QED  BY <1>2, <2>1 DEF HandlesReturned, Accounted
<1>3. CASE ~tpm.managed
  <2>1. \A d \in Call \ {c} : held'[d] = held[d] /\ tracked'[d] = tracked[d]
    BY CallsUntouched DEF Untouched
  <2>2. SUFFICES /\ \A k \in Kinds : stranded'[k] <= lost'[k]
                 /\ \A d \in Call : \A k \in held'[d] \ tracked'[d] : stranded'[k] < lost'[k]
    BY <1>3 DEF HandlesReturned, Accounted
  <2>3. \A d \in Call : \A k \in held[d] \ tracked[d] : k \in Kinds /\ stranded[k] < lost[k]
    BY <1>1, <1>3 DEF Accounted
  <2>4. CASE UNCHANGED <<stranded, lost, held, tracked>>
    BY <1>1, <2>3, <2>4
  <2>5. ASSUME NEW k \in Kinds, Track(c, k), UNCHANGED <<stranded, lost>>
        PROVE  /\ \A h \in Kinds : stranded'[h] <= lost'[h]
               /\ \A d \in Call : \A h \in held'[d] \ tracked'[d] : stranded'[h] < lost'[h]
    <3>1. held'[c] \ tracked'[c] \subseteq held[c] \ tracked[c]
      BY <2>5, TrackTyped
    <3> QED  BY <1>1, <2>1, <2>3, <2>5, <3>1
  <2>6. ASSUME NEW k \in Kinds, FlushNow(c, k), UNCHANGED stranded
        PROVE  /\ \A h \in Kinds : stranded'[h] <= lost'[h]
               /\ \A d \in Call : \A h \in held'[d] \ tracked'[d] : stranded'[h] < lost'[h]
    <3>1. tracked'[c] = tracked[c] \ {k}
      BY <2>6, FlushTyped
    <3>2. CASE held'[c] = held[c] \ {k} /\ lost' = lost
      <4>1. held'[c] \ tracked'[c] \subseteq held[c] \ tracked[c]
        BY <3>1, <3>2
      <4> QED  BY <1>1, <2>1, <2>3, <2>6, <3>2, <4>1
    <3>3. CASE held' = held /\ lost' = OneMore(lost, {k})
      <4>1. \A h \in Kinds : /\ h = k => lost'[h] = lost[h] + 1
                             /\ h # k => lost'[h] = lost[h]
        BY <1>1, <3>3, OneMoreCounts
      <4>2. held'[c] \ tracked'[c] \subseteq (held[c] \ tracked[c]) \cup {k}
        BY <3>1, <3>3
      <4>3. \A h \in Kinds : lost[h] <= lost'[h] /\ (h = k => stranded[h] < lost'[h])
        BY <1>1, <4>1
      <4>4. \A h \in Kinds : stranded[h] \in Nat /\ lost[h] \in Nat /\ lost'[h] \in Nat
        BY <1>1, <4>1
      <4>5. \A d \in Call : \A h \in held'[d] \ tracked'[d] :
                h \in Kinds /\ (h = k \/ stranded[h] < lost[h])
        BY <2>1, <2>3, <4>2
      <4> QED  BY <1>1, <2>6, <4>3, <4>4, <4>5
    <3> QED  BY <1>3, <2>6, <3>2, <3>3, FlushTyped
  <2>7. CASE DropContext(c) /\ pc[c] \notin {"idle", "begin"}
    <3>1. PICK refused \in SUBSET tracked[c] :
              /\ stranded' = OneMore(stranded, Flush(c, refused))
              /\ lost' = OneMore(lost, refused)
      BY <1>3, <2>7 DEF DropContext
    <3>2. ASSUME NEW k \in Kinds PROVE stranded'[k] <= lost'[k]
      <4>1. CASE k \in refused
        <5>1. k \in Flush(c, refused)
          BY <4>1 DEF Flush
        <5>2. stranded'[k] = stranded[k] + 1 /\ lost'[k] = lost[k] + 1
          BY <1>1, <3>1, <4>1, <5>1, OneMoreCounts
        <5> QED  BY <1>1, <5>2
      <4>2. CASE k \in held[c] \ tracked[c]
        <5>1. k \in Flush(c, refused) /\ k \notin refused
          BY <3>1, <4>2 DEF Flush
        <5>2. stranded'[k] = stranded[k] + 1 /\ lost'[k] = lost[k]
          BY <1>1, <3>1, <5>1, OneMoreCounts
        <5>3. stranded[k] < lost[k]
          BY <2>3, <4>2
        <5> QED  BY <1>1, <5>2, <5>3
      <4>3. CASE k \notin refused /\ k \notin held[c] \ tracked[c]
        <5>1. k \notin Flush(c, refused)
          BY <4>3 DEF Flush
        <5>2. stranded'[k] = stranded[k] /\ lost'[k] = lost[k]
          BY <1>1, <3>1, <4>3, <5>1, OneMoreCounts
        <5> QED  BY <1>1, <5>2
      <4> QED  BY <4>1, <4>2, <4>3
    <3>3. held'[c] = {}
      BY <2>7, DropTyped
    <3>4. \A d \in Call \ {c} : held[d] = {}
      BY <1>3, <2>7 DEF Alone, Staged
    <3> QED  BY <2>1, <3>2, <3>3, <3>4
  <2>8. CASE SerializeFails(c)
    <3>1. /\ stranded' = OneMore(stranded, {"srk"}) /\ lost' = OneMore(lost, {"srk"})
          /\ held' = held /\ tracked' = tracked
      BY <1>3, <2>8 DEF SerializeFails, context
    <3>2. \A k \in Kinds : /\ k = "srk" => stranded'[k] = stranded[k] + 1 /\ lost'[k] = lost[k] + 1
                           /\ k # "srk" => stranded'[k] = stranded[k] /\ lost'[k] = lost[k]
      BY <1>1, <3>1, OneMoreCounts
    <3>3. \A k \in Kinds : /\ stranded'[k] <= lost'[k]
                           /\ stranded[k] < lost[k] => stranded'[k] < lost'[k]
      BY <1>1, <3>2
    <3> QED  BY <2>3, <3>1, <3>3
  <2> QED  BY <2>4, <2>5, <2>6, <2>7, <2>8, HandleKinds
<1> QED
  BY <1>2, <1>3

\* The TPM counts a wrong auth value only while it is not in lockout.
LEMMA FailuresStep ==
    ASSUME TypeOK, Shaped, NEW c \in Call, CallStep(c)
    PROVE  \/ failures' = failures
           \/ /\ UnsealRefused(c) /\ failures' = failures + 1 /\ failures < MaxTries
              /\ ~Locked(c) /\ PolicyHolds(c) /\ ~AuthHolds(c)
<1>1. CASE UnsealRefused(c)
  <2>1. CASE ~Locked(c) /\ PolicyHolds(c)
    <3>1. ~AuthHolds(c) /\ failures' = failures + 1
      BY <1>1, <2>1 DEF UnsealRefused
    <3>2. policy[c].is.authValue
      BY <3>1 DEF AuthHolds
    <3>3. failures < MaxTries
      BY <2>1, <3>2, Tpm2Constants DEF Locked, TypeOK
    <3> QED
      BY <1>1, <2>1, <3>1, <3>3
  <2> QED
    BY <1>1, <2>1 DEF UnsealRefused
<1>2. CASE Begin(c)
  BY <1>2, BeginCases
<1> QED
  BY <1>1, <1>2 DEF CallStep, Step, CallSeal, CallUnseal, Called, GetSrk, SerializeFails, Load,
      StartSession, Policy, Create, Unseal, Fails

LEMMA TpmStep ==
    ASSUME NEW c \in Call, CallStep(c)
    PROVE  tpm' = tpm /\ pcr' = pcr
<1>1. CASE Begin(c)
  BY <1>1, BeginCases
<1> QED
  BY <1>1 DEF CallStep, Step, CallSeal, CallUnseal, Called, GetSrk, SerializeFails, Load,
      StartSession, Policy, Create, Unseal, UnsealRefused, Fails

-----------------------------------------------------------------------------
(* Stages and tokens *)

\* The part of Staged about operations.
RightOp(c) ==
    /\ pc[c] = "idle" <=> op[c] = "none"
    /\ pc[c] \in {"load", "unseal"} => op[c] = "unseal"
    /\ pc[c] = "create" => op[c] = "seal"

LEMMA RightOpStep ==
    ASSUME TypeOK, Shaped, \A d \in Call : Staged(d), NEW c \in Call, CallStep(c)
    PROVE  \A d \in Call : RightOp(d)'
<1>0. \A d \in Call : RightOp(d)
  BY DEF Staged, RightOp
<1>1. ASSUME NEW d \in Call \ {c}
      PROVE  RightOp(d)'
  BY <1>0, CallsUntouched DEF Untouched, RightOp
<1>2. RightOp(c)'
  <2> USE DEF RightOp
  <2>1. ASSUME NEW parts \in Requests, NEW p \in Pins \cup {NoPin}, CallSeal(c, parts, p)
        PROVE  RightOp(c)'
    BY <2>1, CalledSets DEF CallSeal
  <2>2. ASSUME NEW p \in Pins \cup {NoPin}, CallUnseal(c, p)
        PROVE  RightOp(c)'
    BY <2>2, CalledSets DEF CallUnseal
  <2>3. CASE Return(c)
    BY <2>3, ReturnEnds
  <2>4. ASSUME pc[c] = "begin", NEW i \in todo[c], TakesOn(c, i)
        PROVE  RightOp(c)'
    BY <1>0, <2>4, TakesOnSets
  <2>5. CASE DropsToken(c)
    BY <1>0, <2>5 DEF DropsToken, Keeps
  <2>6. CASE CarriesOn(c) /\ Step(c)
    <3>1. op[c] \in {"seal", "unseal"} /\ op'[c] = op[c] /\ pc'[c] \notin {"idle", "begin"}
      BY <1>0, <2>6 DEF CarriesOn, Keeps, TypeOK
    <3>2. \/ pc'[c] = AfterSrk(c)
          \/ pc'[c] = "session" /\ pc[c] = "load"
          \/ pc'[c] = "policy"
          \/ pc'[c] = "create" /\ op[c] = "seal"
          \/ pc'[c] = "unseal" /\ op[c] # "seal"
      <4>1. ~Begin(c)
        BY <2>6, BeginCases DEF CarriesOn
      <4>2. ~(Create(c) \/ Unseal(c))
        BY <2>6, ReturnEnds DEF CarriesOn, Create, Unseal
      <4>3. ~(GiveUp(c) \/ SerializeFails(c))
        BY <2>6 DEF CarriesOn, GiveUp, SerializeFails, Go, TypeOK
      <4> QED
        BY <2>6, <4>1, <4>2, <4>3 DEF Step, GetSrk, Load, StartSession, Policy, UnsealRefused,
            Fails, Go, TypeOK
    <3> QED
      BY <1>0, <3>1, <3>2 DEF AfterSrk
  <2> QED
    BY <2>1, <2>2, <2>3, <2>4, <2>5, <2>6, StepKinds DEF CallStep
<1> QED
  BY <1>1, <1>2

\* What a seal under way does to the header, and when.
LEMMA TokensStep ==
    ASSUME NEW c \in Call, CallStep(c)
    PROVE  tokens' = tokens \/ Create(c)
<1>1. CASE Begin(c)
  BY <1>1, BeginCases
<1> QED
  BY <1>1 DEF CallStep, Step, CallSeal, CallUnseal, Called, GetSrk, SerializeFails, Load,
      StartSession, Policy, Unseal, UnsealRefused, Fails

LEMMA LongerByOne ==
    ASSUME NEW s, IsSeq(s), NEW e
    PROVE  /\ Len(Append(s, e)) = Len(s) + 1 /\ IsSeq(Append(s, e))
           /\ DOMAIN Append(s, e) = 1 .. (Len(s) + 1)
           /\ \A i \in DOMAIN s : Append(s, e)[i] = s[i]
           /\ Append(s, e)[Len(s) + 1] = e
<1> DEFINE T == {s[i] : i \in DOMAIN s} \cup {e}
           t == Append(s, e)
<1>1. s \in Seq(T) /\ e \in T
  <2>1. s \in Seq({s[i] : i \in DOMAIN s})
    BY DEF IsSeq
  <2> QED
    BY <2>1
<1> HIDE DEF T
<1>2. /\ Len(t) = Len(s) + 1 /\ t \in Seq(T) /\ DOMAIN t = 1 .. (Len(s) + 1)
      /\ \A i \in DOMAIN s : t[i] = s[i]
      /\ t[Len(s) + 1] = e
  BY <1>1
<1>3. IsSeq(t)
  BY <1>2 DEF IsSeq
<1> QED
  BY <1>2, <1>3

LEMMA PlaceStep ==
    ASSUME TypeOK, Shaped, PlaceForToken, IsSeq(tokens), \A d \in Call : Staged(d),
           NEW c \in Call, CallStep(c)
    PROVE  PlaceForToken'
<1>0. Len(tokens) \in Nat /\ IsFiniteSet(Sealing) /\ Cardinality(Sealing) \in Nat
  BY SeqDomain, FS_CardinalityType DEF PlaceForToken
<1>1. \A d \in Call \ {c} : d \in Sealing' <=> d \in Sealing
  BY CallsUntouched DEF Untouched, Sealing
<1>2. ASSUME Sealing' = Sealing, tokens' = tokens
      PROVE  PlaceForToken'
  BY <1>2 DEF PlaceForToken
<1>3. ASSUME Sealing' = Sealing \ {c}, tokens' = tokens
      PROVE  PlaceForToken'
  <2>1. IsFiniteSet(Sealing') /\ Cardinality(Sealing') <= Cardinality(Sealing)
        /\ Cardinality(Sealing') \in Nat
    BY <1>0, <1>3, FS_Subset, FS_CardinalityType
  <2> QED
    BY <1>0, <1>3, <2>1, Tpm2Constants DEF PlaceForToken
<1>4. Sealing' \subseteq Call /\ Sealing \subseteq Call
  BY DEF Sealing
<1>5. ASSUME c \notin Sealing'
      PROVE  Sealing' = Sealing \ {c}
  BY <1>1, <1>4, <1>5
<1>6. ASSUME NEW parts \in Requests, NEW p \in Pins \cup {NoPin}, CallSeal(c, parts, p)
      PROVE  PlaceForToken'
  <2>1. c \notin Sealing
    BY <1>6, CalledSets DEF CallSeal, Sealing
  <2>2. c \in Sealing'
    BY <1>6, CalledSets DEF CallSeal, Sealing
  <2>3. Sealing' = Sealing \cup {c}
    BY <1>1, <1>4, <2>2
  <2>4. IsFiniteSet(Sealing') /\ Cardinality(Sealing') = Cardinality(Sealing) + 1
    BY <1>0, <2>1, <2>3, FS_AddElement
  <2>5. tokens' = tokens /\ Len(tokens) + Cardinality(Sealing) < MaxTokens
    BY <1>6 DEF CallSeal, Called
  <2> QED
    BY <1>0, <2>4, <2>5, Tpm2Constants DEF PlaceForToken
<1>7. ASSUME NEW p \in Pins \cup {NoPin}, CallUnseal(c, p)
      PROVE  PlaceForToken'
  <2>1. c \notin Sealing'
    BY <1>7, CalledSets DEF CallUnseal, Sealing
  <2> QED
    BY <1>3, <1>5, <1>7, <2>1 DEF CallUnseal, Called
<1>8. CASE Create(c)
  <2>1. c \in Sealing
    BY <1>8 DEF Create, Sealing, Staged
  <2>2. c \notin Sealing'
    BY <1>8, ReturnEnds DEF Create, Sealing
  <2>3. Sealing' = Sealing \ {c}
    BY <1>5, <2>2
  <2>4. IsFiniteSet(Sealing') /\ Cardinality(Sealing') = Cardinality(Sealing) - 1
    BY <1>0, <2>1, <2>3, FS_RemoveElement
  <2>5. Len(tokens') = Len(tokens) + 1
    BY <1>8, LongerByOne DEF Create
  <2> QED
    BY <1>0, <2>4, <2>5 DEF PlaceForToken
<1>9. CASE Step(c) /\ tokens' = tokens
  <2>1. CASE Return(c)
    <3>1. c \notin Sealing'
      BY <2>1, ReturnEnds DEF Sealing
    <3> QED
      BY <1>3, <1>5, <1>9, <3>1
  <2>2. ASSUME pc[c] = "begin", NEW i \in todo[c], TakesOn(c, i)
        PROVE  PlaceForToken'
    <3>1. c \in Sealing' <=> c \in Sealing
      BY <2>2, TakesOnSets DEF Sealing
    <3>2. Sealing' = Sealing
      BY <1>1, <1>4, <3>1
    <3> QED
      BY <1>2, <1>9, <3>2
  <2>3. CASE CarriesOn(c) \/ DropsToken(c)
    <3>1. c \in Sealing' <=> c \in Sealing
      BY <2>3 DEF Sealing, CarriesOn, DropsToken, Keeps
    <3>2. Sealing' = Sealing
      BY <1>1, <1>4, <3>1
    <3> QED
      BY <1>2, <1>9, <3>2
  <2> QED
    BY <1>9, <2>1, <2>2, <2>3, StepKinds
<1> QED
  BY <1>6, <1>7, <1>8, <1>9, TokensStep DEF CallStep

\* What the context of a call holds at which stage.
Holding(c) ==
    /\ pc[c] \in {"idle", "begin", "srk"} => held[c] = {}
    /\ pc[c] = "load" => held[c] \subseteq {"srk"}

LEMMA HoldingStep ==
    ASSUME TypeOK, Shaped, \A d \in Call : Staged(d), NEW c \in Call, CallStep(c)
    PROVE  \A d \in Call : Holding(d)'
<1>0. \A d \in Call : Holding(d)
  BY DEF Staged, Holding
<1>1. ASSUME NEW d \in Call \ {c}
      PROVE  Holding(d)'
  BY <1>0, CallsUntouched DEF Untouched, Holding
<1>2. Holding(c)'
  <2> USE DEF Holding
  <2>1. CASE DropContext(c)
    BY <2>1, DropTyped
  <2>2. CASE pc[c] \in {"idle", "begin", "srk"} /\ held' = held
    BY <1>0, <2>2
  <2>3. CASE pc'[c] \notin {"idle", "begin", "srk", "load"}
    BY <2>3
  <2>4. CASE GetSrk(c)
    <3>1. held[c] = {} /\ pc'[c] \in {"session", "load"}
      BY <1>0, <2>4 DEF GetSrk, AfterSrk, Go, TypeOK
    <3>2. held'[c] = held[c] \/ held'[c] = held[c] \cup {"srk"}
      BY <2>4, TrackTyped DEF GetSrk, Kinds
    <3> QED
      BY <3>1, <3>2
  <2>5. CASE Begin(c)
    BY <2>2, <2>5, BeginCases
  <2> QED
    BY <2>1, <2>2, <2>3, <2>4, <2>5 DEF CallStep, Step, CallSeal, CallUnseal, Called,
        SerializeFails, Load, StartSession, Policy, Create, Unseal, UnsealRefused, Fails, GiveUp,
        context, Go, TypeOK
<1> QED
  BY <1>1, <1>2

\* The token of an attempt has a PCR list that parses.
Parsed(c) == pc[c] \notin {"idle", "begin"} => PcrsOk(Token(c).pcrs)

LEMMA ParsedStep ==
    ASSUME TypeOK, Shaped, \A d \in Call : Staged(d), NEW c \in Call, CallStep(c)
    PROVE  \A d \in Call : Parsed(d)'
<1>0. \A d \in Call : Parsed(d)
  BY DEF Staged, Parsed
<1>1. ASSUME NEW d \in Call \ {c}
      PROVE  Parsed(d)'
  <2>1. pc'[d] = pc[d] /\ Token(d)' = Token(d)
    BY <1>1, CallsUntouched DEF Untouched, Token
  <2> QED
    BY <1>0, <2>1 DEF Parsed, PcrsOk
<1>2. Parsed(c)'
  <2> USE DEF Parsed
  <2>1. ASSUME NEW parts \in Requests, NEW p \in Pins \cup {NoPin}, CallSeal(c, parts, p)
        PROVE  Parsed(c)'
    BY <2>1, CalledSets DEF CallSeal
  <2>2. ASSUME NEW p \in Pins \cup {NoPin}, CallUnseal(c, p)
        PROVE  Parsed(c)'
    BY <2>2, CalledSets DEF CallUnseal
  <2>3. CASE Return(c)
    BY <2>3, ReturnEnds
  <2>4. ASSUME pc[c] = "begin", NEW i \in todo[c], TakesOn(c, i)
        PROVE  Parsed(c)'
    BY <2>4, TakesOnSets DEF Token, PcrsOk
  <2>5. CASE DropsToken(c)
    BY <2>5 DEF DropsToken
  <2>6. CASE CarriesOn(c)
    BY <1>0, <2>6 DEF CarriesOn, Keeps, Token, PcrsOk
  <2> QED
    BY <2>1, <2>2, <2>3, <2>4, <2>5, <2>6, StepKinds DEF CallStep
<1> QED
  BY <1>1, <1>2

LEMMA StagedStep ==
    ASSUME TypeOK, Shaped, \A d \in Call : Staged(d), NEW c \in Call, CallStep(c)
    PROVE  \A d \in Call : Staged(d)'
BY RightOpStep, HoldingStep, ParsedStep DEF Staged, RightOp, Holding, Parsed

-----------------------------------------------------------------------------
(* What is sealed, and what a session asserts *)

\* The token lists the registers of the request.
LEMMA JsonKeepsPcrs ==
    ASSUME NEW parts
    PROVE  parse_pcr_indices(JsonPcrs(parts)) = parse_pcr_indices(parts)
<1> DEFINE K == {j \in DOMAIN parts : parts[j] # Blank}
           f == [i \in K |-> parts[i]]
<1>1. {j \in DOMAIN f : f[j] # Blank} = K
  OBVIOUS
<1>2. {f[i] : i \in K} = {parts[i] : i \in K}
  OBVIOUS
<1>3. parse_pcr_indices(f) = {f[i] : i \in K}
  BY <1>1 DEF parse_pcr_indices
<1> QED
  BY <1>2, <1>3 DEF parse_pcr_indices, JsonPcrs

\* A new session, or a trial policy, comes from the Policy step alone.
LEMMA OnlyPolicyAsserts ==
    ASSUME TypeOK, Shaped, NEW c \in Call, CallStep(c), pc'[c] \in {"create", "unseal"}
    PROVE  Policy(c)
<1>1. ~Begin(c)
  <2>1. ASSUME pc[c] = "begin", NEW i \in todo[c], TakesOn(c, i)
        PROVE  FALSE
    BY <2>1, TakesOnSets
  <2> QED
    BY <2>1, BeginCases, ReturnEnds
<1>2. ~(Create(c) \/ Unseal(c))
  BY ReturnEnds DEF Create, Unseal
<1> QED
  BY <1>1, <1>2 DEF CallStep, Step, CallSeal, CallUnseal, Called, GetSrk, AfterSrk, SerializeFails,
      Load, StartSession, UnsealRefused, Fails, GiveUp, Go, TypeOK

LEMMA PolicySets ==
    ASSUME TypeOK, Shaped, NEW c \in Call, Policy(c)
    PROVE  /\ policy'[c].seen = pcr /\ pcr' = pcr /\ asked' = asked /\ Token(c)' = Token(c)
           /\ policy'[c].is = PolicyOf(parse_pcr_indices(Token(c).pcrs), Token(c).pinRequired)
BY DEF Policy, Shaped, Token, history

LEMMA AssertedStep ==
    ASSUME TypeOK, Shaped, \A d \in Call : Asserted(d), NEW c \in Call, CallStep(c)
    PROVE  \A d \in Call : Asserted(d)'
<1>1. ASSUME NEW d \in Call \ {c}
      PROVE  Asserted(d)'
  <2>1. pc'[d] = pc[d] /\ Token(d)' = Token(d) /\ policy'[d] = policy[d]
    BY <1>1, CallsUntouched DEF Untouched, Token
  <2>2. Asserted(d)
    OBVIOUS
  <2> QED
    BY <2>1, <2>2 DEF Asserted, parse_pcr_indices
<1>2. ASSUME pc'[c] \in {"create", "unseal"}
      PROVE  Asserted(c)'
  <2>1. Policy(c)
    BY <1>2, OnlyPolicyAsserts
  <2>2. /\ policy'[c].seen = pcr /\ Token(c)' = Token(c)
        /\ policy'[c].is = PolicyOf(parse_pcr_indices(Token(c).pcrs), Token(c).pinRequired)
    BY <2>1, PolicySets
  <2> DEFINE sel == parse_pcr_indices(Token(c).pcrs)
  <2>3. [i \in sel |-> Value(i)] = [i \in sel |-> IF i \in Moving THEN policy'[c].seen[i] ELSE 0]
    BY <2>2 DEF Value
  <2>4. sel' = sel
    BY <2>2 DEF parse_pcr_indices
  <2> HIDE DEF sel
  <2>5. policy'[c].is = [pcrs |-> [i \in sel' |-> IF i \in Moving THEN policy'[c].seen[i] ELSE 0],
                         authValue |-> Token(c)'.pinRequired]
    BY <2>2, <2>3, <2>4 DEF PolicyOf, sel
  <2> QED
    BY <2>5 DEF Asserted, sel
<1>3. Asserted(c)'
  BY <1>2 DEF Asserted
<1> QED
  BY <1>1, <1>3

LEMMA ForwardStep ==
    ASSUME TypeOK, Shaped, \A d \in Call : Forward(d), NEW c \in Call, CallStep(c)
    PROVE  \A d \in Call : Forward(d)'
<1>0. pcr' = pcr /\ pcr \in [Moving -> 0 .. MaxExtends] /\ pcr \in [Moving -> Nat]
  BY TpmStep DEF TypeOK
<1>1. ASSUME NEW d \in Call \ {c}
      PROVE  Forward(d)'
  <2>1. pc'[d] = pc[d] /\ asked'[d] = asked[d] /\ policy'[d] = policy[d]
    BY <1>1, CallsUntouched DEF Untouched
  <2>2. Forward(d)
    OBVIOUS
  <2> QED
    BY <1>0, <2>1, <2>2 DEF Forward
<1>2. \A i \in Moving : asked'[c][i] <= pcr[i]
  <2>1. CASE asked'[c] = asked[c]
    BY <2>1 DEF Forward
  <2>2. CASE asked'[c] = pcr
    BY <1>0, <2>2
  <2>3. CASE asked'[c] = Unextended
    BY <1>0, <2>3 DEF Unextended
  <2>4. CASE Begin(c)
    BY <2>1, <2>3, <2>4, BeginCases DEF Return, TakesOn, Shaped
  <2> QED
    BY <2>1, <2>2, <2>3, <2>4 DEF CallStep, Step, CallSeal, CallUnseal, GetSrk, SerializeFails,
        Load, StartSession, Policy, Create, Unseal, UnsealRefused, Fails, Return, history, Shaped
<1>3. ASSUME pc'[c] = "unseal"
      PROVE  /\ policy'[c].seen \in [Moving -> 0 .. MaxExtends]
             /\ \A i \in Moving : asked'[c][i] <= policy'[c].seen[i] /\ policy'[c].seen[i] <= pcr[i]
  <2>1. policy'[c].seen = pcr
    BY <1>3, OnlyPolicyAsserts, PolicySets
  <2> QED
    BY <1>0, <1>2, <2>1
<1>4. Forward(c)'
  BY <1>0, <1>2, <1>3 DEF Forward
<1> QED
  BY <1>1, <1>4

LEMMA OwnParentStep ==
    ASSUME TypeOK, Shaped, \A d \in Call : OwnParent(d), NEW c \in Call, CallStep(c)
    PROVE  \A d \in Call : OwnParent(d)'
<1>0. tpm' = tpm
  BY TpmStep
<1>1. ASSUME NEW d \in Call \ {c}
      PROVE  OwnParent(d)'
  BY <1>0, <1>1, CallsUntouched DEF Untouched, OwnParent, Srk
<1>2. ASSUME pc'[c] = "load", ~fault'[c]
      PROVE  parent'[c] = Srk
  <2>1. ~Begin(c)
    <3>1. ASSUME pc[c] = "begin", NEW i \in todo[c], TakesOn(c, i)
          PROVE  FALSE
      BY <1>2, <3>1, TakesOnSets
    <3> QED
      BY <1>2, <3>1, BeginCases, ReturnEnds
  <2>2. ~(Create(c) \/ Unseal(c))
    BY <1>2, ReturnEnds DEF Create, Unseal
  <2>3. GetSrk(c)
    BY <1>2, <2>1, <2>2 DEF CallStep, Step, CallSeal, CallUnseal, Called, SerializeFails,
        Load, StartSession, Policy, UnsealRefused, Fails, GiveUp, Go, TypeOK
  <2>4. CASE tpm.srk # "none" /\ parent' = [parent EXCEPT ![c] = tpm.srk]
    BY <2>4 DEF Srk, TypeOK
  <2>5. CASE /\ parent' = [parent EXCEPT ![c] = ecc_srk_template]
             /\ fault' = [fault EXCEPT ![c] = fault[c] \/ tpm.srk # "none"]
    <3>1. fault'[c] = (fault[c] \/ tpm.srk # "none")
      BY <2>5, Zenon DEF TypeOK
    <3>2. tpm.srk = "none"
      BY <1>2, <3>1
    <3> QED
      BY <2>5, <3>2 DEF Srk, TypeOK, ecc_srk_template
  <2> QED
    BY <2>3, <2>4, <2>5 DEF GetSrk
<1>3. OwnParent(c)'
  BY <1>0, <1>2 DEF OwnParent, Srk
<1> QED
  BY <1>1, <1>3

\* The token of an enrollment says what was sealed.
LEMMA CreateWellFormed ==
    ASSUME TypeOK, Shaped, Formed, NEW c \in Call, Staged(c), Asserted(c), Create(c)
    PROVE  /\ IsSeq(tokens')
           /\ \A i \in DOMAIN tokens' : WellFormed(tokens'[i])
<1> DEFINE t == [pcrs |-> JsonPcrs(Token(c).pcrs), pinRequired |-> pin[c] # NoPin,
                 blob |-> SealedObject(c)]
           parts == Token(c).pcrs
<1>1. pc[c] = "create" /\ tokens' = Append(tokens, t)
  BY DEF Create
<1>2. op[c] = "seal" /\ PcrsOk(parts)
  BY <1>1 DEF Staged
<1>3. Token(c).pinRequired = (pin[c] # NoPin)
  <2>1. cur[c] \in DOMAIN list[c]
    BY <1>1 DEF TypeOK
  <2> QED
    BY <1>2, <2>1 DEF Formed, Token
<1>4. policy[c].is = [pcrs |-> [i \in parse_pcr_indices(parts) |->
                                   IF i \in Moving THEN policy[c].seen[i] ELSE 0],
                      authValue |-> pin[c] # NoPin]
  BY <1>1, <1>3 DEF Asserted
<1>5. /\ parse_pcr_indices(t.pcrs) = parse_pcr_indices(parts)
      /\ t.blob.policy = policy[c].is /\ t.blob.auth = pin[c] /\ t.pinRequired = (pin[c] # NoPin)
  <2>1. t.pcrs = JsonPcrs(parts)
    OBVIOUS
  <2>2. parse_pcr_indices(t.pcrs) = parse_pcr_indices(parts)
    BY <2>1, JsonKeepsPcrs, Zenon
  <2> QED
    BY <2>2 DEF SealedObject
<1>6. parse_pcr_indices(parts) \subseteq Registers
  BY <1>2 DEF PcrsOk, parse_pcr_indices
<1> HIDE DEF t, parts
<1>7. policy[c].is = [pcrs |-> [i \in parse_pcr_indices(parts) |-> policy[c].is.pcrs[i]],
                      authValue |-> pin[c] # NoPin]
  BY <1>4
<1>8. t.blob.policy = [pcrs |-> [i \in parse_pcr_indices(t.pcrs) |-> t.blob.policy.pcrs[i]],
                       authValue |-> t.pinRequired]
  BY <1>5, <1>7
<1>9. parse_pcr_indices(t.pcrs) \subseteq Registers
  BY <1>5, <1>6, Zenon
<1>10. t.pinRequired \in BOOLEAN /\ (t.pinRequired => t.blob.auth # NoPin)
  BY <1>5, Zenon
<1>11. WellFormed(t)
  BY <1>8, <1>9, <1>10, Zenon DEF WellFormed
<1>12. IsSeq(tokens) /\ \A i \in DOMAIN tokens : WellFormed(tokens[i])
  BY DEF Formed
<1>13. /\ IsSeq(tokens') /\ DOMAIN tokens' = 1 .. (Len(tokens) + 1)
       /\ \A i \in DOMAIN tokens : tokens'[i] = tokens[i]
       /\ tokens'[Len(tokens) + 1] = t
  BY <1>1, <1>12, LongerByOne
<1>14. DOMAIN tokens = 1 .. Len(tokens) /\ Len(tokens) \in Nat
  BY <1>12, SeqDomain
<1>15. ASSUME NEW i \in DOMAIN tokens'
       PROVE  WellFormed(tokens'[i])
  <2>1. i \in DOMAIN tokens \/ i = Len(tokens) + 1
    BY <1>13, <1>14
  <2>2. CASE i \in DOMAIN tokens
    <3>1. tokens'[i] = tokens[i] /\ WellFormed(tokens[i])
      BY <1>12, <1>13, <2>2
    <3> QED
      BY <3>1, Zenon
  <2>3. CASE i = Len(tokens) + 1
    <3>1. tokens'[i] = t
      BY <1>13, <2>3
    <3> QED
      BY <1>11, <3>1, Zenon
  <2> QED
    BY <2>1, <2>2, <2>3
<1> QED
  BY <1>13, <1>15

\* The lists of the calls: tokens of the header, or a request.
Listed(c) ==
    /\ op[c] = "unseal" => \A i \in DOMAIN list[c] : WellFormed(list[c][i])
    /\ op[c] = "seal" => \A i \in DOMAIN list[c] : list[c][i].pinRequired = (pin[c] # NoPin)

LEMMA ListedStep ==
    ASSUME TypeOK, Shaped, Formed, NEW c \in Call, CallStep(c)
    PROVE  \A d \in Call : Listed(d)'
<1>0. \A d \in Call : Listed(d)
  BY DEF Formed, Listed
<1>1. ASSUME NEW d \in Call, op'[d] = op[d], list'[d] = list[d], pin'[d] = pin[d]
      PROVE  Listed(d)'
  <2>1. Listed(d)
    BY <1>0
  <2> QED
    BY <1>1, <2>1 DEF Listed
<1>2. ASSUME NEW d \in Call \ {c}
      PROVE  Listed(d)'
  BY <1>1, <1>2, CallsUntouched DEF Untouched
<1>3. Listed(c)'
  <2>1. ASSUME NEW parts \in Requests, NEW p \in Pins \cup {NoPin}, CallSeal(c, parts, p)
        PROVE  Listed(c)'
    <3>1. /\ op'[c] = "seal" /\ pin'[c] = p
          /\ list'[c] = <<[pcrs |-> parts, pinRequired |-> p # NoPin]>>
      BY <2>1, CalledSets DEF CallSeal
    <3>2. DOMAIN list'[c] = {1} /\ list'[c][1] = [pcrs |-> parts, pinRequired |-> p # NoPin]
      BY <3>1
    <3>3. list'[c][1].pinRequired = (p # NoPin)
      BY <3>2
    <3> QED
      BY <3>1, <3>2, <3>3 DEF Listed
  <2>2. ASSUME NEW p \in Pins \cup {NoPin}, CallUnseal(c, p)
        PROVE  Listed(c)'
    <3>1. op'[c] = "unseal" /\ list'[c] = tokens
      BY <2>2, CalledSets DEF CallUnseal
    <3>2. \A i \in DOMAIN tokens : WellFormed(tokens[i])
      BY DEF Formed
    <3> QED
      BY <3>1, <3>2 DEF Listed
  <2>3. CASE Return(c)
    BY <2>3, ReturnEnds DEF Listed
  <2>4. ASSUME pc[c] = "begin", NEW i \in todo[c], TakesOn(c, i)
        PROVE  Listed(c)'
    BY <1>1, <2>4, TakesOnSets
  <2>5. CASE CarriesOn(c) \/ DropsToken(c)
    BY <1>1, <2>5 DEF CarriesOn, DropsToken, Keeps
  <2> QED
    BY <2>1, <2>2, <2>3, <2>4, <2>5, StepKinds DEF CallStep
<1> QED
  BY <1>2, <1>3

LEMMA FormedStep ==
    ASSUME TypeOK, Shaped, Formed, \A d \in Call : Staged(d) /\ Asserted(d), NEW c \in Call,
           CallStep(c)
    PROVE  Formed'
<1>1. IsSeq(tokens') /\ \A i \in DOMAIN tokens' : WellFormed(tokens'[i])
  <2>1. CASE tokens' = tokens
    BY <2>1 DEF Formed
  <2> QED
    BY <2>1, TokensStep, CreateWellFormed
<1> QED
  BY <1>1, ListedStep DEF Formed, Listed

LEMMA PinAtHandStep ==
    ASSUME TypeOK, Shaped, \A d \in Call : PinAtHand(d), NEW c \in Call, CallStep(c)
    PROVE  \A d \in Call : PinAtHand(d)'
<1>1. ASSUME NEW d \in Call \ {c}
      PROVE  PinAtHand(d)'
  <2>1. /\ pc'[d] = pc[d] /\ op'[d] = op[d] /\ pin'[d] = pin[d] /\ list'[d] = list[d]
        /\ todo'[d] = todo[d] /\ Token(d)' = Token(d)
    BY <1>1, CallsUntouched DEF Untouched, Token
  <2>2. PinAtHand(d)
    OBVIOUS
  <2> QED
    BY <2>1, <2>2 DEF PinAtHand
<1>2. PinAtHand(c)'
  <2>0. PinAtHand(c)
    OBVIOUS
  <2> USE DEF PinAtHand
  <2>1. ASSUME NEW parts \in Requests, NEW p \in Pins \cup {NoPin}, CallSeal(c, parts, p)
        PROVE  PinAtHand(c)'
    BY <2>1, CalledSets DEF CallSeal
  <2>2. ASSUME NEW p \in Pins \cup {NoPin}, CallUnseal(c, p)
        PROVE  PinAtHand(c)'
    <3> DEFINE S == IF Readable(tokens) THEN candidate_tokens(tokens, p # NoPin) ELSE {}
    <3>1. \A i \in S : tokens[i].pinRequired => p # NoPin
      BY DEF candidate_tokens
    <3>2. Called(c, "unseal", p, tokens, S)
      BY <2>2 DEF CallUnseal
    <3> HIDE DEF S
    <3>3. pc'[c] = "begin" /\ pin'[c] = p /\ list'[c] = tokens /\ todo'[c] = S
      BY <3>2, CalledSets
    <3> QED
      BY <3>1, <3>3
  <2>3. CASE Return(c)
    BY <2>3, ReturnEnds
  <2>4. ASSUME pc[c] = "begin", NEW i \in todo[c], TakesOn(c, i)
        PROVE  PinAtHand(c)'
    BY <2>0, <2>4, TakesOnSets DEF Token
  <2>5. CASE DropsToken(c)
    BY <2>0, <2>5 DEF DropsToken, Keeps
  <2>6. CASE CarriesOn(c)
    BY <2>0, <2>6 DEF CarriesOn, Keeps, Token
  <2> QED
    BY <2>1, <2>2, <2>3, <2>4, <2>5, <2>6, StepKinds DEF CallStep
<1> QED
  BY <1>1, <1>2

-----------------------------------------------------------------------------
(* Tokens that were tried and did not open *)

\* A token that does not open now will not open after a step of a call: the TPM's counter
\* only goes up and no register moves.
LEMMA MissedShrinks ==
    ASSUME TypeOK, Shaped, NEW c \in Call, CallStep(c), NEW d \in Call, list'[d] = list[d],
           pin'[d] = pin[d], NEW i
    PROVE  Missed(list[d][i], pin[d])' => Missed(list[d][i], pin[d])
<1>1. tpm' = tpm /\ pcr' = pcr
  BY TpmStep
<1>2. failures \in Nat /\ (failures' = failures \/ failures' = failures + 1)
  BY FailuresStep, Tpm2Constants DEF TypeOK
<1>3. failures' < MaxTries => failures < MaxTries
  BY <1>2, Tpm2Constants
<1>4. AsSealed(list[d][i])' => AsSealed(list[d][i])
  BY <1>1 DEF AsSealed, Value
<1> QED
  BY <1>1, <1>3, <1>4 DEF Missed, BoundToPcrs, Opens

\* What excuses a refusal goes on excusing it.
LEMMA ExcuseStays ==
    ASSUME TypeOK, Shaped, NEW c \in Call, CallStep(c), NEW d \in Call,
           asked'[d] = asked[d], fault[d] => fault'[d], Excused(d)
    PROVE  Excused(d)'
<1>1. \A k \in Kinds : /\ stranded[k] \in Nat /\ stranded'[k] \in Nat
                       /\ stranded[k] <= stranded'[k]
  BY StrandedTyped DEF TypeOK
<1>2. pcr' = pcr
  BY TpmStep
<1>3. "srk" \in Kinds /\ "loaded" \in Kinds /\ "session" \in Kinds
  BY DEF Kinds
<1>4. /\ stranded["srk"] + stranded["loaded"] + 2 > Slots =>
              stranded'["srk"] + stranded'["loaded"] + 2 > Slots
      /\ SessionRoom' => SessionRoom
  BY <1>1, <1>3, Tpm2Constants DEF SessionRoom
<1> QED
  BY <1>2, <1>4 DEF Excused

LEMMA StillRefused ==
    ASSUME TypeOK, Shaped, NEW c \in Call, CallStep(c), NEW d \in Call,
           list'[d] = list[d], pin'[d] = pin[d], op'[d] = op[d], asked'[d] = asked[d],
           fault[d] => fault'[d], RightlyRefused(d),
           \A i \in Tried(d)' : \/ i \in Tried(d)
                                \/ ~Missed(list[d][i], pin[d])
                                \/ Excused(d)'
    PROVE  RightlyRefused(d)'
<1> SUFFICES ASSUME op[d] = "unseal", Readable(list[d]), ~Excused(d)', NEW i \in Tried(d)'
             PROVE  ~Missed(list[d][i], pin[d])'
  BY DEF RightlyRefused, Readable
<1>1. ~Excused(d)
  BY ExcuseStays
<1>2. ~Missed(list[d][i], pin[d])
  BY <1>1 DEF RightlyRefused
<1> QED
  BY <1>2, MissedShrinks

LEMMA FaultStays ==
    ASSUME TypeOK, Shaped, NEW c \in Call, CallStep(c), pc'[c] # "idle", fault[c]
    PROVE  fault'[c]
<1>1. ~Return(c)
  BY ReturnEnds
<1>2. CASE fault' = fault
  BY <1>2
<1>3. CASE fault' = [fault EXCEPT ![c] = TRUE]
  BY <1>3 DEF TypeOK
<1>4. CASE Begin(c)
  BY <1>1, <1>2, <1>3, <1>4, BeginCases DEF TakesOn, Faulty
<1>5. CASE GetSrk(c)
  <2>1. CASE fault' = [fault EXCEPT ![c] = fault[c] \/ tpm.srk # "none"]
    BY <2>1, Zenon DEF TypeOK
  <2> QED
    BY <1>2, <1>5, <2>1 DEF GetSrk
<1>6. CASE Fails(c)
  <2>1. fault' = [fault EXCEPT ![c] = fault[c] \/ ~NoSlot(c)]
    BY <1>6 DEF Fails
  <2> QED
    BY <2>1, Zenon DEF TypeOK
<1> QED
  BY <1>1, <1>2, <1>3, <1>4, <1>5, <1>6 DEF CallStep, Step, CallSeal, CallUnseal, Called,
      SerializeFails, Load, StartSession, Policy, Create, Unseal, UnsealRefused, Faulty, history

\* A token whose PCR list does not parse was sealed to nothing.
LEMMA NothingNamed ==
    ASSUME NEW c \in Call, NEW i, WellFormed(list[c][i]), ~PcrsOk(list[c][i].pcrs)
    PROVE  ~Missed(list[c][i], pin[c])
<1> DEFINE t == list[c][i]
           named == {j \in DOMAIN t.pcrs : t.pcrs[j] # Blank}
<1>1. parse_pcr_indices(t.pcrs) = {t.pcrs[j] : j \in named}
  BY DEF parse_pcr_indices
<1>2. parse_pcr_indices(t.pcrs) \subseteq Registers
  BY Zenon DEF WellFormed
<1>3. \A j \in named : t.pcrs[j] \in Registers
  BY <1>1, <1>2
<1>4. named = {}
  BY <1>3, Zenon DEF PcrsOk
<1>5. parse_pcr_indices(t.pcrs) = {}
  BY <1>1, <1>4
<1>6. t.blob.policy.pcrs = [j \in parse_pcr_indices(t.pcrs) |-> t.blob.policy.pcrs[j]]
  BY DEF WellFormed
<1> HIDE DEF t
<1>7. DOMAIN t.blob.policy.pcrs = {}
  BY <1>5, <1>6
<1> QED
  BY <1>7 DEF Missed, BoundToPcrs, Opens, t

\* The TPM refuses a loaded object for a reason.
LEMMA RefusalIsRight ==
    ASSUME TypeOK, Shaped, NEW c \in Call, UnsealRefused(c), WellFormed(Token(c)),
           Forward(c), Asserted(c), asked[c] = pcr
    PROVE  ~Missed(Token(c), pin[c])
<1> DEFINE t == Token(c)
           sel == parse_pcr_indices(t.pcrs)
<1>0. pc[c] = "unseal"
  BY DEF UnsealRefused
<1>1. policy[c].seen = pcr
  <2>1. /\ policy[c].seen \in [Moving -> Nat] /\ pcr \in [Moving -> Nat]
        /\ \A i \in Moving : pcr[i] <= policy[c].seen[i] /\ policy[c].seen[i] <= pcr[i]
    BY <1>0 DEF Forward, TypeOK
  <2>2. \A i \in Moving : pcr[i] = policy[c].seen[i]
    BY <2>1
  <2> QED
    BY <2>1, <2>2
<1>2. policy[c].is = [pcrs |-> [i \in sel |-> Value(i)], authValue |-> t.pinRequired]
  BY <1>0, <1>1 DEF Asserted, Value
<1>3. policy[c].is.authValue = t.pinRequired
  BY <1>2
<1>4. t.blob.policy = [pcrs |-> [i \in sel |-> t.blob.policy.pcrs[i]], authValue |-> t.pinRequired]
  BY Zenon DEF WellFormed
<1>5. CASE Locked(c)
  <2>1. t.pinRequired /\ ~(failures < MaxTries)
    BY <1>3, <1>5, Tpm2Constants DEF Locked, TypeOK
  <2> QED
    BY <2>1 DEF Missed, BoundToPcrs, Opens
<1>6. CASE ~PolicyHolds(c)
  <2>1. policy[c].is # t.blob.policy
    BY <1>1, <1>6 DEF PolicyHolds
  <2> HIDE DEF t, sel
  <2>2. DOMAIN t.blob.policy.pcrs = sel
    BY <1>4
  <2>3. ~AsSealed(t)
    <3> SUFFICES ASSUME t.blob.policy.pcrs = [i \in DOMAIN t.blob.policy.pcrs |-> Value(i)]
                 PROVE  FALSE
      BY DEF AsSealed
    <3>1. t.blob.policy.pcrs = [i \in sel |-> Value(i)]
      BY <2>2
    <3>2. [i \in sel |-> t.blob.policy.pcrs[i]] = t.blob.policy.pcrs
      BY <3>1
    <3> QED
      BY <1>2, <1>4, <2>1, <3>1, <3>2
  <2> QED
    BY <2>3 DEF Missed, BoundToPcrs, Opens, t
<1>7. CASE ~AuthHolds(c)
  BY <1>3, <1>7 DEF AuthHolds, Auth, Missed, BoundToPcrs, Opens
<1> QED
  BY <1>5, <1>6, <1>7 DEF UnsealRefused

\* An attempt that is given up did not stand a chance, or there is an excuse.
LEMMA GivenUpRightly ==
    ASSUME TypeOK, Shaped, HandlesReturned, Formed, Attempts,
           NEW c \in Call, Step(c), DropsToken(c), op[c] = "unseal"
    PROVE  ~Missed(Token(c), pin[c]) \/ Excused(c)'
<1>0. CallStep(c)
  BY DEF CallStep
<1>1. WellFormed(Token(c))
  <2>1. cur[c] \in DOMAIN list[c] /\ \A i \in DOMAIN list[c] : WellFormed(list[c][i])
    BY DEF TypeOK, DropsToken, Formed
  <2> QED
    BY <2>1, Zenon DEF Token
<1>2. pc'[c] = "begin" /\ pc[c] \notin {"idle", "begin"} /\ asked'[c] = asked[c]
  BY DEF DropsToken, Keeps
<1>3. ASSUME Excused(c)
      PROVE  Excused(c)'
  BY <1>0, <1>2, <1>3, ExcuseStays, FaultStays
<1>4. Staged(c) /\ Forward(c) /\ Asserted(c) /\ OwnParent(c)
  BY DEF Attempts
<1>5. stranded["srk"] \in Nat /\ stranded["loaded"] \in Nat
  BY DEF TypeOK, Kinds
<1>6. CASE SerializeFails(c)
  BY <1>0, <1>6 DEF SerializeFails, Faulty, TypeOK, Excused
<1>7. CASE Load(c)
  <2>1. pc[c] = "load" /\ held[c] \subseteq {"srk"}
    BY <1>4, <1>7 DEF Load, Staged
  <2>2. ~Room(c) \/ Token(c).blob.parent # parent[c]
    BY <1>2, <1>7 DEF Load, Go, TypeOK
  <2>3. ASSUME ~Room(c)
        PROVE  Excused(c)
    <3>1. held[c] \ {"session"} = {} \/ held[c] \ {"session"} = {"srk"}
      BY <2>1
    <3>2. Cardinality({}) = 0 /\ Cardinality({"srk"}) = 1
      BY FS_EmptySet, FS_Singleton
    <3>3. Cardinality(held[c] \ {"session"}) \in {0, 1}
      BY <3>1, <3>2
    <3>4. stranded["srk"] + stranded["loaded"] + 2 > Slots
      BY <1>5, <2>3, <3>3, Tpm2Constants DEF Room
    <3> QED
      BY <3>4 DEF Excused
  <2>4. ASSUME Token(c).blob.parent # parent[c], ~Excused(c)
        PROVE  ~Missed(Token(c), pin[c])
    BY <1>4, <2>1, <2>4 DEF OwnParent, Srk, Missed, BoundToPcrs, Opens, Excused
  <2> QED
    BY <1>3, <2>2, <2>3, <2>4
<1>8. CASE UnsealRefused(c)
  <2>1. CASE asked[c] = pcr
    BY <1>1, <1>4, <1>8, <2>1, RefusalIsRight
  <2>2. CASE asked[c] # pcr
    BY <1>3, <2>2 DEF Excused
  <2> QED
    BY <2>1, <2>2
<1>9. CASE Fails(c)
  <2>1. fault' = [fault EXCEPT ![c] = fault[c] \/ ~NoSlot(c)]
    BY <1>9 DEF Fails
  <2>2. fault'[c] = (fault[c] \/ ~NoSlot(c))
    BY <2>1, Zenon DEF TypeOK
  <2>3. CASE fault'[c]
    BY <2>3 DEF Excused
  <2>4. CASE pc[c] = "session" /\ ~SessionRoom
    BY <1>3, <2>4 DEF Excused
  <2>5. CASE pc[c] = "srk" /\ ~Room(c)
    <3>1. held[c] = {}
      BY <1>4, <2>5 DEF Staged
    <3>2. Cardinality(held[c] \ {"session"}) = 0
      <4>1. held[c] \ {"session"} = {}
        BY <3>1
      <4> QED
        BY <4>1, FS_EmptySet
    <3>3. stranded["srk"] + stranded["loaded"] + 2 > Slots
      BY <1>5, <2>5, <3>2, Tpm2Constants DEF Room
    <3> QED
      BY <1>3, <3>3 DEF Excused
  <2>6. ~fault'[c] => NoSlot(c)
    BY <2>2, Zenon
  <2> QED
    BY <2>3, <2>4, <2>5, <2>6 DEF NoSlot
<1>10. ~Begin(c)
  BY <1>2, BeginCases
<1>11. ~(Create(c) \/ Unseal(c))
  BY <1>2, ReturnEnds DEF Create, Unseal
<1>12. ~(GetSrk(c) \/ StartSession(c) \/ Policy(c))
  BY <1>2 DEF GetSrk, AfterSrk, StartSession, Policy, Go, TypeOK
<1> QED
  BY <1>6, <1>7, <1>8, <1>9, <1>10, <1>11, <1>12 DEF Step

LEMMA RefusalsStep ==
    ASSUME TypeOK, Shaped, HandlesReturned, Formed, Attempts, Refusals,
           NEW c \in Call, CallStep(c)
    PROVE  Refusals'
<1>0. \A d \in Call : RightlyRefused(d)
  BY DEF Refusals
<1>1. ASSUME NEW d \in Call \ {c}
      PROVE  RightlyRefused(d)'
  <2>1. Untouched(d)
    BY <1>1, CallsUntouched
  <2>2. Tried(d)' = Tried(d)
    BY <2>1 DEF Untouched, Tried
  <2> QED
    BY <1>0, <2>1, <2>2, StillRefused DEF Untouched
<1>2. RightlyRefused(c)'
  <2>1. CASE op'[c] # "unseal"
    BY <2>1 DEF RightlyRefused
  <2>2. ASSUME NEW p \in Pins \cup {NoPin}, CallUnseal(c, p)
        PROVE  RightlyRefused(c)'
    <3> DEFINE S == IF Readable(tokens) THEN candidate_tokens(tokens, p # NoPin) ELSE {}
    <3>1. Called(c, "unseal", p, tokens, S)
      BY <2>2 DEF CallUnseal
    <3>2. pc'[c] = "begin" /\ pin'[c] = p /\ list'[c] = tokens /\ todo'[c] = S
      <4> HIDE DEF S
      <4> QED
        BY <3>1, CalledSets
    <3>3. SUFFICES ASSUME Readable(tokens), NEW i \in Tried(c)'
                   PROVE  ~Missed(list[c][i], pin[c])'
      BY <3>2 DEF RightlyRefused, Readable
    <3>4. i \in DOMAIN tokens /\ i \notin candidate_tokens(tokens, p # NoPin)
      BY <3>2, <3>3 DEF Tried
    <3>5. tokens[i].pinRequired /\ p = NoPin
      BY <3>4 DEF candidate_tokens
    <3>6. tokens[i].blob.auth # NoPin
      <4>1. WellFormed(tokens[i])
        BY <3>4 DEF Formed
      <4> QED
        BY <3>5, <4>1 DEF WellFormed
    <3> QED
      BY <3>2, <3>5, <3>6 DEF Missed, BoundToPcrs, Opens
  <2>3. ASSUME pc[c] = "begin", NEW i \in todo[c], TakesOn(c, i), op[c] = "unseal"
        PROVE  RightlyRefused(c)'
    <3>1. /\ list'[c] = list[c] /\ op'[c] = op[c] /\ pin'[c] = pin[c] /\ asked'[c] = asked[c]
          /\ todo'[c] = todo[c] \ {i}
          /\ \/ pc'[c] = "begin" /\ (~PcrsOk(list[c][i].pcrs) \/ fault'[c])
             \/ pc'[c] = "srk" /\ cur'[c] = i
          /\ fault[c] => fault'[c]
      BY <2>3, TakesOnSets
    <3>2. ASSUME ~PcrsOk(list[c][i].pcrs)
          PROVE  ~Missed(list[c][i], pin[c])
      <4>1. WellFormed(list[c][i])
        BY <2>3 DEF Formed, TypeOK
      <4> QED
        BY <3>2, <4>1, NothingNamed
    <3>3. ASSUME NEW j \in Tried(c)'
          PROVE  \/ j \in Tried(c)
                 \/ ~Missed(list[c][j], pin[c])
                 \/ Excused(c)'
      <4>1. j \in Tried(c) \/ (j = i /\ pc'[c] = "begin")
        BY <2>3, <3>1, <3>3 DEF Tried
      <4>2. CASE j = i /\ pc'[c] = "begin"
        BY <3>1, <3>2, <4>2 DEF Excused
      <4> QED
        BY <4>1, <4>2
    <3> QED
      BY <1>0, <3>1, <3>3, StillRefused
  <2>4. CASE CarriesOn(c)
    <3>1. Tried(c)' = Tried(c)
      BY <2>4 DEF CarriesOn, Keeps, Tried
    <3>2. fault[c] => fault'[c]
      BY <2>4, FaultStays DEF CarriesOn
    <3> QED
      BY <1>0, <2>4, <3>1, <3>2, StillRefused DEF CarriesOn, Keeps
  <2>5. CASE DropsToken(c) /\ Step(c) /\ op[c] = "unseal"
    <3>1. \A j \in Tried(c)' : j \in Tried(c) \/ j = cur[c]
      BY <2>5 DEF DropsToken, Keeps, Tried
    <3>2. ~Missed(Token(c), pin[c]) \/ Excused(c)'
      BY <2>5, GivenUpRightly
    <3>3. fault[c] => fault'[c]
      BY <2>5, FaultStays DEF DropsToken
    <3>4. \A j \in Tried(c)' : \/ j \in Tried(c)
                               \/ ~Missed(list[c][j], pin[c])
                               \/ Excused(c)'
      BY <3>1, <3>2 DEF Token
    <3> QED
      BY <1>0, <2>5, <3>3, <3>4, StillRefused DEF DropsToken, Keeps
  <2>6. ASSUME NEW parts \in Requests, NEW p \in Pins \cup {NoPin}, CallSeal(c, parts, p)
        PROVE  op'[c] # "unseal"
    BY <2>6, CalledSets DEF CallSeal
  <2>7. CASE Step(c)
    <3>1. op'[c] = op[c] \/ Return(c)
      BY <2>7, StepKinds, TakesOnSets DEF CarriesOn, DropsToken, Keeps
    <3>2. Return(c) => op'[c] # "unseal"
      BY ReturnEnds
    <3> QED
      BY <2>1, <2>3, <2>4, <2>5, <2>7, <3>1, <3>2, StepKinds
  <2> QED
    BY <2>1, <2>2, <2>6, <2>7 DEF CallStep
<1> QED
  BY <1>1, <1>2 DEF Refusals

-----------------------------------------------------------------------------
(* The theorems *)

Kept ==
    /\ TypeOK /\ Shaped /\ Alone /\ Accounted /\ HandlesReturned /\ PlaceForToken /\ Formed
    /\ Attempts /\ Refusals

LEMMA KeptInit ==
    ASSUME Init
    PROVE  Kept
<1>0. tokens \in Foreign
  BY DEF Init
<1>1. Unextended \in [Moving -> 0 .. MaxExtends]
  BY Tpm2Constants DEF Unextended
<1>2. TypeOK
  <2>1. Len(tokens) <= MaxTokens
    BY <1>0, ForeignTokens
  <2> QED
    BY <1>1, <2>1, Tpm2Constants DEF Init, TypeOK, Stages, Srks
<1>3. Shaped
  BY <1>1 DEF Init, Shaped
<1>4. Alone /\ Accounted
  BY DEF Init, Alone, Accounted
<1>5. HandlesReturned
  BY DEF Init, HandlesReturned, Kinds
<1>6. PlaceForToken
  <2>1. Sealing = {}
    BY DEF Init, Sealing
  <2>2. Len(tokens) \in Nat /\ Len(tokens) <= MaxTokens
    <3>1. IsSeq(tokens) /\ Len(tokens) <= MaxTokens
      BY <1>0, ForeignTokens DEF IsSeq
    <3> QED
      BY <3>1, SeqDomain
  <2>3. IsFiniteSet({}) /\ Cardinality({}) = 0
    BY FS_EmptySet
  <2> QED
    BY <2>1, <2>2, <2>3 DEF PlaceForToken
<1>7. Formed
  <2>1. IsSeq(tokens) /\ \A i \in DOMAIN tokens : WellFormed(tokens[i])
    BY <1>0, ForeignTokens DEF IsSeq
  <2> QED
    BY <2>1 DEF Init, Formed
<1>8. ASSUME NEW c \in Call
      PROVE  Staged(c) /\ PinAtHand(c) /\ Forward(c) /\ Asserted(c) /\ OwnParent(c)
  <2>1. pc[c] = "idle" /\ op[c] = "none" /\ held[c] = {} /\ asked[c] = pcr /\ pcr = Unextended
    BY DEF Init
  <2>2. Staged(c) /\ PinAtHand(c) /\ Asserted(c) /\ OwnParent(c)
    BY <2>1 DEF Staged, PinAtHand, Asserted, OwnParent
  <2>3. \A i \in Moving : asked[c][i] <= pcr[i]
    BY <2>1 DEF Unextended
  <2>4. Forward(c)
    BY <2>1, <2>3 DEF Forward
  <2> QED
    BY <2>2, <2>4
<1>9. Refusals
  BY DEF Init, Refusals, RightlyRefused
<1> QED
  BY <1>2, <1>3, <1>4, <1>5, <1>6, <1>7, <1>8, <1>9 DEF Kept, Attempts

LEMMA KeptByCall ==
    ASSUME Kept, NEW c \in Call, CallStep(c)
    PROVE  Kept'
<1>0. /\ TypeOK /\ Shaped /\ Alone /\ Accounted /\ HandlesReturned /\ PlaceForToken /\ Formed
      /\ Attempts /\ Refusals
  BY DEF Kept
<1>1. /\ IsSeq(tokens)
      /\ \A d \in Call : Staged(d) /\ PinAtHand(d) /\ Forward(d) /\ Asserted(d) /\ OwnParent(d)
  BY <1>0 DEF Formed, Attempts
<1>2. CallTypes'
  BY <1>0, <1>1, CallTypesStep
<1>3. FlusherKnows'
  BY <1>0, FlusherStep
<1>4. PlaceForToken'
  BY <1>0, <1>1, PlaceStep
<1>5. Formed'
  BY <1>0, <1>1, FormedStep
<1>6. Attempts'
  <2>1. \A d \in Call : Staged(d)'
    BY <1>0, <1>1, StagedStep
  <2>2. \A d \in Call : PinAtHand(d)'
    BY <1>0, <1>1, PinAtHandStep
  <2>3. \A d \in Call : Forward(d)'
    BY <1>0, <1>1, ForwardStep
  <2>4. \A d \in Call : Asserted(d)'
    BY <1>0, <1>1, AssertedStep
  <2>5. \A d \in Call : OwnParent(d)'
    BY <1>0, <1>1, OwnParentStep
  <2> QED
    BY <2>1, <2>2, <2>3, <2>4, <2>5 DEF Attempts
<1>7. Refusals'
  BY <1>0, RefusalsStep
<1>8. tpm' = tpm /\ pcr' = pcr
  BY TpmStep
<1>9. stranded' \in [Kinds -> Nat] /\ lost' \in [Kinds -> Nat] /\ HandlesReturned' /\ Accounted'
  BY <1>0, <1>1, <1>8, StrandedTyped, HandlesStep
<1>16. Alone'
  BY <1>0, <1>8, AloneStep
<1>10. failures' \in 0 .. MaxTries
  BY <1>0, FailuresStep, Tpm2Constants DEF TypeOK
<1>11. Len(tokens') <= MaxTokens
  <2>1. Len(tokens') \in Nat /\ Cardinality(Sealing') \in Nat
    BY <1>4, <1>5, SeqDomain, FS_CardinalityType DEF PlaceForToken, Formed
  <2> QED
    BY <1>4, <2>1, Tpm2Constants DEF PlaceForToken
<1>12. fault' \in [Call -> BOOLEAN]
  BY <1>0, FaultTyped
<1>13. \A d \in Call : InList(d)'
  BY <1>0, InListStep
<1>14. TypeOK'
  <2>1. tpm' \in [srk : Persistent, managed : Managed] /\ pcr' \in [Moving -> 0 .. MaxExtends]
    BY <1>0, <1>8 DEF TypeOK
  <2>2. \A d \in Call : tracked'[d] \subseteq held'[d]
    BY <1>3 DEF FlusherKnows
  <2> QED
    BY <1>2, <1>9, <1>10, <1>11, <1>12, <1>13, <2>1, <2>2 DEF TypeOK, CallTypes, InList
<1>15. Shaped'
  BY <1>2 DEF Shaped, CallTypes
<1> QED
  BY <1>4, <1>5, <1>6, <1>7, <1>9, <1>14, <1>15, <1>16 DEF Kept

\* A register that moves is an excuse for every unlock under way.
LEMMA KeptByExtend ==
    ASSUME Kept, NEW i \in Moving, Extend(i)
    PROVE  Kept'
<1>0. /\ TypeOK /\ Shaped /\ Alone /\ Accounted /\ HandlesReturned /\ PlaceForToken /\ Formed
      /\ Attempts /\ Refusals
  BY DEF Kept
<1>1. /\ tpm' = tpm /\ failures' = failures /\ stranded' = stranded /\ tokens' = tokens
      /\ lost' = lost /\ pc' = pc /\ op' = op /\ pin' = pin /\ list' = list /\ todo' = todo /\ cur' = cur
      /\ held' = held /\ tracked' = tracked /\ parent' = parent /\ policy' = policy
      /\ asked' = asked /\ fault' = fault
  BY DEF Extend, context, history
<1>2. pcr \in [Moving -> Nat] /\ pcr[i] < MaxExtends /\ pcr' = [pcr EXCEPT ![i] = @ + 1]
  BY <1>0 DEF Extend, TypeOK
<1>3. /\ pcr' \in [Moving -> 0 .. MaxExtends] /\ pcr'[i] = pcr[i] + 1
      /\ \A j \in Moving : pcr[j] <= pcr'[j]
  BY <1>0, <1>2, Tpm2Constants DEF TypeOK
<1>4. TypeOK' /\ Shaped' /\ Alone' /\ Accounted' /\ HandlesReturned'
  BY <1>0, <1>1, <1>3 DEF TypeOK, Shaped, Alone, Accounted, HandlesReturned
<1>5. PlaceForToken' /\ Formed'
  <2>1. Sealing' = Sealing
    BY <1>1 DEF Sealing
  <2> QED
    BY <1>0, <1>1, <2>1 DEF PlaceForToken, Formed
<1>6. ASSUME NEW c \in Call
      PROVE  (Staged(c) /\ PinAtHand(c) /\ Forward(c) /\ Asserted(c) /\ OwnParent(c))'
  <2>1. Staged(c) /\ PinAtHand(c) /\ Forward(c) /\ Asserted(c) /\ OwnParent(c)
    BY <1>0 DEF Attempts
  <2>2. Token(c)' = Token(c)
    BY <1>1 DEF Token
  <2>3. Staged(c)'
    BY <1>1, <2>1, <2>2 DEF Staged, PcrsOk
  <2>4. PinAtHand(c)'
    BY <1>1, <2>1, <2>2 DEF PinAtHand
  <2>5. Asserted(c)'
    BY <1>1, <2>1, <2>2 DEF Asserted, parse_pcr_indices
  <2>6. OwnParent(c)'
    BY <1>1, <2>1 DEF OwnParent, Srk
  <2>7. Forward(c)'
    <3>1. \A j \in Moving : asked[c][j] \in Nat /\ asked[c][j] <= pcr'[j]
      BY <1>0, <1>2, <1>3, <2>1 DEF Forward, Shaped
    <3>2. ASSUME pc[c] = "unseal"
          PROVE  /\ policy[c].seen \in [Moving -> 0 .. MaxExtends]
                 /\ \A j \in Moving : /\ asked[c][j] <= policy[c].seen[j]
                                      /\ policy[c].seen[j] <= pcr'[j]
      <4>1. /\ policy[c].seen \in [Moving -> 0 .. MaxExtends]
            /\ \A j \in Moving : /\ asked[c][j] <= policy[c].seen[j]
                                 /\ policy[c].seen[j] <= pcr[j]
        BY <2>1, <3>2 DEF Forward
      <4>2. \A j \in Moving : policy[c].seen[j] \in Nat /\ pcr[j] \in Nat /\ pcr'[j] \in Nat
        BY <1>2, <1>3, <4>1
      <4> QED
        BY <1>3, <4>1, <4>2
    <3> QED
      BY <1>1, <3>1, <3>2 DEF Forward
  <2> QED
    BY <2>3, <2>4, <2>5, <2>6, <2>7
<1>7. ASSUME NEW c \in Call
      PROVE  Excused(c)'
  <2>1. asked[c][i] <= pcr[i] /\ asked[c][i] \in Nat
    BY <1>0 DEF Attempts, Forward, Shaped
  <2>2. pcr[i] \in Nat /\ asked[c][i] # pcr[i] + 1
    BY <1>2, <2>1
  <2>3. asked[c] # pcr'
    BY <1>3, <2>2
  <2> QED
    BY <1>1, <2>3 DEF Excused
<1>8. Refusals'
  BY <1>7 DEF Refusals, RightlyRefused
<1>9. Attempts'
  BY <1>6 DEF Attempts
<1> QED
  BY <1>4, <1>5, <1>8, <1>9 DEF Kept

LEMMA KeptStep ==
    ASSUME Kept, [Next]_vars
    PROVE  Kept'
<1>1. CASE Next
  BY <1>1, KeptByCall, KeptByExtend DEF Next, CallStep
<1>2. CASE UNCHANGED vars
  <2>1. /\ tpm' = tpm /\ pcr' = pcr /\ failures' = failures /\ stranded' = stranded
        /\ lost' = lost /\ tokens' = tokens /\ pc' = pc /\ op' = op /\ pin' = pin /\ list' = list /\ todo' = todo
        /\ cur' = cur /\ held' = held /\ tracked' = tracked /\ parent' = parent
        /\ policy' = policy /\ asked' = asked /\ fault' = fault
    BY <1>2 DEF vars, context, history
  <2>2. (TypeOK /\ Shaped /\ Alone /\ Accounted /\ HandlesReturned)'
    BY <2>1 DEF Kept, TypeOK, Shaped, Alone, Accounted, HandlesReturned
  <2>3. (PlaceForToken /\ Formed)'
    BY <2>1 DEF Kept, PlaceForToken, Sealing, Formed
  <2>4. Attempts'
    <3>1. \A c \in Call : Token(c)' = Token(c)
      BY <2>1 DEF Token
    <3>2. SUFFICES ASSUME NEW c \in Call
                   PROVE  (Staged(c) /\ PinAtHand(c) /\ Forward(c) /\ Asserted(c) /\ OwnParent(c))'
      BY DEF Attempts
    <3>3. Staged(c) /\ PinAtHand(c) /\ Forward(c) /\ Asserted(c) /\ OwnParent(c)
      BY DEF Kept, Attempts
    <3>4. Staged(c)'
      BY <2>1, <3>1, <3>3 DEF Staged, PcrsOk
    <3>5. (PinAtHand(c) /\ Forward(c) /\ OwnParent(c))'
      BY <2>1, <3>1, <3>3 DEF PinAtHand, Forward, OwnParent, Srk
    <3>6. Asserted(c)'
      BY <2>1, <3>1, <3>3 DEF Asserted, parse_pcr_indices
    <3> QED
      BY <3>4, <3>5, <3>6
  <2>5. Refusals'
    <3>1. SUFFICES ASSUME NEW c \in Call
                   PROVE  RightlyRefused(c)'
      BY DEF Refusals
    <3>2. RightlyRefused(c)
      BY DEF Kept, Refusals
    <3>3. Tried(c)' = Tried(c) /\ (Excused(c)' <=> Excused(c))
      BY <2>1 DEF Tried, Excused, SessionRoom
    <3>4. \A i : Missed(list[c][i], pin[c])' <=> Missed(list[c][i], pin[c])
      BY <2>1 DEF Missed, BoundToPcrs, Opens, AsSealed, Value
    <3> QED
      BY <2>1, <3>2, <3>3, <3>4 DEF RightlyRefused, Readable
  <2> QED
    BY <2>2, <2>3, <2>4, <2>5 DEF Kept
<1> QED
  BY <1>1, <1>2

\* Every reachable state has all of it.
LEMMA AlwaysKept == Spec => []Kept
<1>1. Init => Kept
  BY KeptInit
<1>2. Kept /\ [Next]_vars => Kept'
  BY KeptStep
<1> QED
  BY <1>1, <1>2, PTL DEF Spec

\* Types hold for any number of calls, any requests, any header: the TPM's counters stay
\* within its limits and every flusher tracks only handles of its own context.
THEOREM Tpm2Typed == Spec => []TypeOK
<1>1. Kept => TypeOK
  BY DEF Kept
<1> QED
  BY <1>1, AlwaysKept, PTL

\* Every handle a call took is given back, whichever step it ended on (HandleFlusher); the
\* exceptions, on a TPM without a resource manager, are the handles whose flush the TPM
\* refused and SRKs that could not be serialized, one for one.
THEOREM HandlesComeBack == Spec => []HandlesReturned
<1>1. Kept => HandlesReturned
  BY DEF Kept
<1> QED
  BY <1>1, AlwaysKept, PTL

\* A secret leaves the TPM only under the terms it was sealed with: what the session
\* asserts is what the registers were when it looked, a session that the registers have
\* left behind is void, and the token names what the object was sealed to.
THEOREM OnlyAsSealed == Spec => SecretOnlyAsSealed
<1>1. Kept /\ [Next]_vars => [\A c \in Call : pc[c] = "unseal" /\ pc'[c] = "idle" =>
           /\ AsSealed(Token(c))
           /\ Token(c).pinRequired => pin[c] = Token(c).blob.auth]_vars
  <2> SUFFICES ASSUME Kept, Next, NEW c \in Call, pc[c] = "unseal", pc'[c] = "idle"
               PROVE  AsSealed(Token(c)) /\ (Token(c).pinRequired => pin[c] = Token(c).blob.auth)
    BY Zenon
  <2>0. TypeOK /\ Shaped /\ Formed /\ Staged(c) /\ Asserted(c)
    BY DEF Kept, Attempts
  <2>1. CallStep(c)
    <3>1. ASSUME NEW d \in Call, CallStep(d), d # c
          PROVE  FALSE
      BY <2>0, <3>1, CallsUntouched DEF Untouched
    <3>2. ASSUME NEW i \in Moving, Extend(i)
          PROVE  FALSE
      BY <3>2 DEF Extend
    <3> QED
      BY <3>1, <3>2 DEF Next, CallStep
  <2>2. Unseal(c)
    <3>1. ~Begin(c)
      BY BeginCases
    <3> QED
      BY <2>0, <2>1, <3>1 DEF CallStep, Step, CallSeal, CallUnseal, Called, GetSrk, AfterSrk,
          SerializeFails, Load, StartSession, Policy, Create, UnsealRefused, Fails, GiveUp, Go, TypeOK
  <2>3. /\ policy[c].seen = pcr /\ policy[c].is = Token(c).blob.policy
        /\ AuthHolds(c)
    BY <2>2 DEF Unseal, PolicyHolds
  <2> DEFINE sel == parse_pcr_indices(Token(c).pcrs)
  <2>4. policy[c].is = [pcrs |-> [i \in sel |-> Value(i)], authValue |-> Token(c).pinRequired]
    BY <2>0, <2>3 DEF Asserted, Value
  <2> HIDE DEF sel
  <2>5. /\ Token(c).blob.policy.pcrs = [i \in sel |-> Value(i)]
        /\ Token(c).blob.policy.authValue = Token(c).pinRequired
    BY <2>3, <2>4
  <2>6. AsSealed(Token(c))
    BY <2>5 DEF AsSealed
  <2>7. Token(c).pinRequired => pin[c] = Token(c).blob.auth
    BY <2>3, <2>5 DEF AuthHolds, Auth
  <2> QED
    BY <2>6, <2>7
<1> QED
  BY <1>1, AlwaysKept, PTL DEF Spec, SecretOnlyAsSealed

\* Only a token enrolled with another PIN moves the dictionary-attack counter: tokens that
\* want a PIN are never tried without, and a policy that no longer holds is refused first.
THEOREM OnlyAnotherPin == Spec => OnlyAnotherPinCounts
<1>1. Kept /\ [Next]_vars => [failures' # failures =>
           /\ failures' = failures + 1
           /\ \E c \in Call : /\ pc[c] = "unseal" /\ pin[c] # NoPin
                              /\ Token(c).pinRequired /\ Token(c).blob.auth # pin[c]]_vars
  <2> SUFFICES ASSUME Kept, Next, failures' # failures
               PROVE  /\ failures' = failures + 1
                      /\ \E c \in Call : /\ pc[c] = "unseal" /\ pin[c] # NoPin
                                         /\ Token(c).pinRequired /\ Token(c).blob.auth # pin[c]
    BY Zenon
  <2>0. TypeOK /\ Shaped
    BY DEF Kept
  <2>1. PICK c \in Call : CallStep(c)
    BY DEF Next, CallStep, Extend
  <2>2. /\ UnsealRefused(c) /\ failures' = failures + 1
        /\ ~AuthHolds(c)
    BY <2>0, <2>1, FailuresStep
  <2>3. pc[c] = "unseal"
    BY <2>2 DEF UnsealRefused
  <2>4. op[c] = "unseal"
    BY <2>3 DEF Kept, Attempts, Staged
  <2>5. policy[c].is.authValue = Token(c).pinRequired
    <3>1. Asserted(c)
      BY DEF Kept, Attempts
    <3> QED
      BY <2>3, <3>1 DEF Asserted
  <2>6. Token(c).pinRequired /\ pin[c] # Token(c).blob.auth
    BY <2>2, <2>5 DEF AuthHolds, Auth
  <2>7. pin[c] # NoPin
    BY <2>3, <2>4, <2>6 DEF Kept, Attempts, PinAtHand
  <2> QED
    BY <2>2, <2>3, <2>6, <2>7
<1> QED
  BY <1>1, AlwaysKept, PTL DEF Spec, OnlyAnotherPinCounts

\* An unlock fails only for a reason: every token it went through was refused rightly, and
\* what it left out cannot open, being tokens that want a PIN when none was given, or is
\* bound to no register.
THEOREM RefusedForAReason == Spec => FailsForAReason
<1>1. Kept /\ [Next]_vars => [\A c \in Call :
           /\ pc[c] = "begin" /\ pc'[c] = "idle" /\ op[c] = "unseal"
           /\ ~fault[c] /\ asked[c] = pcr /\ Readable(list[c])
           /\ stranded["srk"] + stranded["loaded"] + 2 <= Slots /\ SessionRoom
           => \A i \in DOMAIN list[c] :
                  BoundToPcrs(list[c][i]) => ~Opens(list[c][i], pin[c])]_vars
  <2> SUFFICES ASSUME Kept, Next, NEW c \in Call, pc[c] = "begin", pc'[c] = "idle",
                      op[c] = "unseal", ~fault[c], asked[c] = pcr, Readable(list[c]),
                      stranded["srk"] + stranded["loaded"] + 2 <= Slots, SessionRoom
               PROVE  \A i \in DOMAIN list[c] :
                          BoundToPcrs(list[c][i]) => ~Opens(list[c][i], pin[c])
    BY Zenon
  <2>0. TypeOK /\ Shaped /\ RightlyRefused(c)
    BY DEF Kept, Refusals
  <2>1. CallStep(c)
    <3>1. ASSUME NEW d \in Call, CallStep(d), d # c
          PROVE  FALSE
      BY <2>0, <3>1, CallsUntouched DEF Untouched
    <3>2. ASSUME NEW i \in Moving, Extend(i)
          PROVE  FALSE
      BY <3>2 DEF Extend
    <3> QED
      BY <3>1, <3>2 DEF Next, CallStep
  <2>2. Begin(c)
    BY <2>1 DEF CallStep, Step, CallSeal, CallUnseal, Called, GetSrk, SerializeFails, Load,
        StartSession, Policy, Create, Unseal, UnsealRefused, Fails
  <2>3. todo[c] = {}
    <3>1. ASSUME NEW i \in todo[c], TakesOn(c, i)
          PROVE  FALSE
      BY <2>0, <3>1, TakesOnSets
    <3> QED
      BY <2>2, <3>1, BeginCases
  <2>4. Tried(c) = DOMAIN list[c]
    BY <2>3 DEF Tried
  <2>5. ~Excused(c)
    <3>1. stranded["srk"] \in Nat /\ stranded["loaded"] \in Nat
      BY <2>0 DEF TypeOK, Kinds
    <3>2. ~(stranded["srk"] + stranded["loaded"] + 2 > Slots)
      BY <3>1, Tpm2Constants
    <3> QED
      BY <3>2 DEF Excused
  <2> QED
    BY <2>0, <2>4, <2>5 DEF RightlyRefused, Missed
<1> QED
  BY <1>1, AlwaysKept, PTL DEF Spec, FailsForAReason

=============================================================================
