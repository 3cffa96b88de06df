-------------------------------- MODULE Tpm2 --------------------------------
(***************************************************************************)
(* Sealing and unsealing (tpm2.rs): EnrollTpm2 seals a fresh secret to the *)
(* PCRs asked for, and every systemd-tpm2 unlock goes through the tokens   *)
(* of the header until one unseals.  Calls run at the same time, each in   *)
(* ESYS contexts of its own, against one TPM that has a few slots for      *)
(* transient objects, registers that firmware and kernel keep extending,   *)
(* and a dictionary-attack counter.  The TPM itself and the kernel's       *)
(* resource manager are external: they are modelled as tpm2.rs uses them.  *)
(***************************************************************************)
EXTENDS Integers, Sequences, FiniteSets

CONSTANTS
    Call,         \* calls that may be in flight together
    Pins, NoPin,  \* the PINs people type, and the empty one
    Requests,     \* PCR lists asked for, split at '+': sequences of parts
    Blank,        \* a part with nothing between two '+'
    Foreign,      \* what other tools left in the header: sequences of tokens
    Persistent,   \* what may sit at the persistent SRK handle: "none", a key of the
                  \* service's own template ("ecc") or of another one ("other")
    Managed,      \* whether the TPM is reached through a resource manager
    Slots,        \* transient objects, and sessions, the TPM has room for (3 on real ones)
    MaxTries,     \* wrong auth values before the TPM locks out
    Moving,       \* the registers that change while the service runs
    MaxExtends,   \* how often each of them does (bound)
    MaxTokens     \* tokens in the header (bound)

Registers == 0 .. 23

ASSUME Tpm2Constants ==
    /\ NoPin \notin Pins /\ Blank \notin Int
    /\ Slots \in Nat /\ MaxTries \in Nat /\ MaxExtends \in Nat /\ MaxTokens \in Nat
    /\ Moving \subseteq Registers /\ Persistent \subseteq {"none", "ecc", "other"}
    /\ Managed \subseteq BOOLEAN

VARIABLES
    tpm,        \* [srk: persistent SRK, managed: reached through a resource manager]
    pcr,        \* how often each moving register was extended
    failures,   \* wrong auth values the dictionary-attack counter holds
    stranded,   \* handles that outlived their context, by kind
    tokens,     \* the systemd-tpm2 tokens of the header, in its order
    pc, op, pin,
    list,       \* the tokens the call read from the header; when sealing, its request
    todo,       \* those of them, by position, that are still to be tried
    cur,        \* the one being tried, 0 between attempts
    held,       \* the TPM's handles of the call's context
    tracked,    \* those its HandleFlusher knows of
    parent,     \* the primary key of the context
    policy,     \* what its session asserts so far
    lost,       \* history: handles by kind that the TPM would not flush when asked, or
                \* that the service had no handle to
    asked,      \* history: the registers when the unlock began
    fault       \* history: a TPM command of this call failed for its own reasons

Kinds == {"srk", "loaded", "session"}
context == <<held, tracked, parent, policy>>
history == <<asked, fault>>
vars == <<tpm, pcr, failures, stranded, lost, tokens, pc, op, pin, list, todo, cur, context,
          history>>

-----------------------------------------------------------------------------
(* PCR lists and tokens *)

\* The list names at least one register and nothing that is not one.
PcrsOk(parts) ==
    LET named == {i \in DOMAIN parts : parts[i] # Blank}
    IN  named # {} /\ \A i \in named : parts[i] \in Registers

parse_pcr_indices(parts) == {parts[i] : i \in {j \in DOMAIN parts : parts[j] # Blank}}

\* Mutant: only the first register makes it into the token.
JsonPcrsFirst(parts) == [i \in {j \in DOMAIN parts : j = 1 /\ parts[j] # Blank} |-> parts[i]]

\* "tpm2-pcrs" as the enrollment writes it: every register at its place in the request,
\* duplicates kept.
JsonPcrs(parts) == [i \in {j \in DOMAIN parts : parts[j] # Blank} |-> parts[i]]

\* Mutant: tokens that want a PIN are tried although none was given.
candidate_tokens_all(ts, pinProvided) == DOMAIN ts

\* A token that wants a PIN is never tried without.
candidate_tokens(ts, pinProvided) == {i \in DOMAIN ts : ts[i].pinRequired => pinProvided}

\* The stable sort: the tokens that want a PIN exactly when one was given come first.
Sooner(ts, pinProvided, i, j) ==
    LET fits(k) == ts[k].pinRequired = pinProvided
    IN  (fits(i) /\ ~fits(j)) \/ (fits(i) = fits(j) /\ i < j)

\* The reader gives up on the whole header at the first token without a readable blob.
Readable(ts) == \A i \in DOMAIN ts : ts[i].blob.readable

\* What a register holds; the ones that do not move keep what they had at the start.
Value(i) == IF i \in Moving THEN pcr[i] ELSE 0
Unextended == [i \in Moving |-> 0]

\* Mutant: the PIN is left out of the policy, when sealing and when unsealing.
PolicyWithoutPin(sel, wantsPin) == [pcrs |-> [i \in sel |-> Value(i)], authValue |-> FALSE]

\* PolicyPCR over the current values, then PolicyAuthValue when there is a PIN.
PolicyOf(sel, wantsPin) == [pcrs |-> [i \in sel |-> Value(i)], authValue |-> wantsPin]

\* A token says of its object what was asked for when it was sealed: the registers, each
\* of which a TPM has, and whether there is a PIN.
WellFormed(t) ==
    /\ t.blob.policy = [pcrs |-> [i \in parse_pcr_indices(t.pcrs) |-> t.blob.policy.pcrs[i]],
                        authValue |-> t.pinRequired]
    /\ parse_pcr_indices(t.pcrs) \subseteq Registers
    /\ t.pinRequired \in BOOLEAN /\ (t.pinRequired => t.blob.auth # NoPin)

\* So do the tokens of other tools, whose blob may still be missing.
ASSUME ForeignTokens ==
    \A ts \in Foreign : /\ ts \in Seq({ts[i] : i \in DOMAIN ts}) /\ Len(ts) <= MaxTokens
                        /\ \A i \in DOMAIN ts : WellFormed(ts[i])

NoPolicy == [pcrs |-> <<>>, authValue |-> FALSE]
NoSession == [seen |-> Unextended, is |-> NoPolicy]

-----------------------------------------------------------------------------
Init ==
    /\ tpm \in [srk : Persistent, managed : Managed]
    /\ pcr = Unextended
    /\ failures = 0
    /\ stranded = [k \in Kinds |-> 0] /\ lost = [k \in Kinds |-> 0]
    /\ tokens \in Foreign
    /\ pc = [c \in Call |-> "idle"] /\ op = [c \in Call |-> "none"]
    /\ pin = [c \in Call |-> NoPin] /\ list = [c \in Call |-> <<>>]
    /\ todo = [c \in Call |-> {}] /\ cur = [c \in Call |-> 0]
    /\ held = [c \in Call |-> {}] /\ tracked = [c \in Call |-> {}]
    /\ parent = [c \in Call |-> "none"]
    /\ policy = [c \in Call |-> NoSession]
    /\ asked = [c \in Call |-> Unextended]
    /\ fault = [c \in Call |-> FALSE]

Token(c) == list[c][cur[c]]
Go(c, stage) == pc' = [pc EXCEPT ![c] = stage]
Faulty(c) == fault' = [fault EXCEPT ![c] = TRUE]

OneMore(count, kinds) == [k \in Kinds |-> count[k] + (IF k \in kinds THEN 1 ELSE 0)]

\* Mutant: the flusher is dropped without flushing.
FlushNothing(c, refused) == held[c]

\* What the drop of the HandleFlusher leaves in the TPM: the handles it does not know of,
\* and the ones whose flush is refused, an error flush_quiet ignores.
Flush(c, refused) == (held[c] \ tracked[c]) \cup refused

\* Mutant: the handle is flushed and stays in the flusher's list.
FlushNowKept(c, k) == held' = [held EXCEPT ![c] = @ \ {k}] /\ UNCHANGED <<tracked, lost>>

\* The handle is forgotten, whether or not the TPM flushed it.
FlushNow(c, k) ==
    /\ \/ held' = [held EXCEPT ![c] = @ \ {k}] /\ UNCHANGED lost
       \/ lost' = (IF tpm.managed THEN lost ELSE OneMore(lost, {k})) /\ UNCHANGED held
    /\ tracked' = [tracked EXCEPT ![c] = @ \ {k}]

Track(c, k) == /\ held' = [held EXCEPT ![c] = @ \cup {k}]
               /\ tracked' = [tracked EXCEPT ![c] = @ \cup {k}]

\* The flusher drops first, then the context; behind a resource manager the TPM loses
\* with the context whatever it still held.
DropContext(c) ==
    /\ \/ tpm.managed /\ UNCHANGED <<stranded, lost>>
       \/ /\ ~tpm.managed
          /\ \E refused \in SUBSET tracked[c] :
                /\ stranded' = OneMore(stranded, Flush(c, refused))
                /\ lost' = OneMore(lost, refused)
    /\ held' = [held EXCEPT ![c] = {}] /\ tracked' = [tracked EXCEPT ![c] = {}]
    /\ parent' = [parent EXCEPT ![c] = "none"]
    /\ policy' = [policy EXCEPT ![c] = NoSession]

\* This token will not do: the next one is tried in a context of its own.  A request to
\* seal has no next one.
GiveUp(c) ==
    /\ DropContext(c)
    /\ cur' = [cur EXCEPT ![c] = 0]
    /\ Go(c, "begin")

\* The reply is sent; nothing of the call is left in the service.
Return(c) ==
    /\ Go(c, "idle")
    /\ op' = [op EXCEPT ![c] = "none"] /\ pin' = [pin EXCEPT ![c] = NoPin]
    /\ list' = [list EXCEPT ![c] = <<>>]
    /\ todo' = [todo EXCEPT ![c] = {}] /\ cur' = [cur EXCEPT ![c] = 0]
    /\ asked' = [asked EXCEPT ![c] = Unextended] /\ fault' = [fault EXCEPT ![c] = FALSE]

Called(c, o, p, read, candidates) ==
    /\ pc[c] = "idle"
    /\ op' = [op EXCEPT ![c] = o] /\ pin' = [pin EXCEPT ![c] = p]
    /\ list' = [list EXCEPT ![c] = read] /\ todo' = [todo EXCEPT ![c] = candidates]
    /\ Go(c, "begin")
    /\ UNCHANGED <<tpm, pcr, failures, stranded, lost, tokens, cur, context, fault>>

Sealing == {c \in Call : pc[c] # "idle" /\ op[c] = "seal"}

CallSeal(c, parts, p) ==
    /\ Len(tokens) + Cardinality(Sealing) < MaxTokens
    /\ Called(c, "seal", p, <<[pcrs |-> parts, pinRequired |-> p # NoPin]>>, {1})
    /\ UNCHANGED asked

CallUnseal(c, p) ==
    /\ Called(c, "unseal", p, tokens,
              IF Readable(tokens) THEN candidate_tokens(tokens, p # NoPin) ELSE {})
    /\ asked' = [asked EXCEPT ![c] = pcr]

\* Opening the device node itself, not the resource manager's, is exclusive.
Busy(c) == ~tpm.managed /\ \E d \in Call \ {c} : pc[d] \notin {"idle", "begin"}

\* The head of the loop: nothing left to try, a PCR list that does not parse, or a
\* context for the next attempt.
Begin(c) ==
    /\ pc[c] = "begin"
    /\ \/ todo[c] = {} /\ Return(c)
       \/ \E i \in todo[c] :
             /\ \A j \in todo[c] \ {i} : Sooner(list[c], pin[c] # NoPin, i, j)
             /\ todo' = [todo EXCEPT ![c] = @ \ {i}]
             /\ \/ ~PcrsOk(list[c][i].pcrs) /\ UNCHANGED <<pc, cur, fault>>
                \/ PcrsOk(list[c][i].pcrs) /\ Busy(c) /\ Faulty(c) /\ UNCHANGED <<pc, cur>>
                \/ /\ PcrsOk(list[c][i].pcrs) /\ ~Busy(c)
                   /\ cur' = [cur EXCEPT ![c] = i] /\ Go(c, "srk") /\ UNCHANGED fault
             /\ UNCHANGED <<op, pin, list, asked>>
    /\ UNCHANGED <<tpm, pcr, failures, stranded, lost, tokens, context>>

\* Behind a resource manager a context has the slots to itself.  A context has one session.
Room(c) ==
    Cardinality(held[c] \ {"session"}) + stranded["srk"] + stranded["loaded"] < Slots

SessionRoom == stranded["session"] < Slots

AfterSrk(c) == IF op[c] = "seal" THEN "session" ELSE "load"

ecc_srk_template == "ecc"

\* get_srk: the persistent SRK, or, whatever the reason it was not found, a transient one
\* from the service's own template, which the caller tracks once it is serialized.
GetSrk(c) ==
    /\ pc[c] = "srk"
    /\ \/ /\ tpm.srk # "none"
          /\ parent' = [parent EXCEPT ![c] = tpm.srk]
          /\ UNCHANGED <<held, tracked, fault>>
       \/ /\ Room(c)
          /\ parent' = [parent EXCEPT ![c] = ecc_srk_template]
          /\ Track(c, "srk")
          /\ fault' = [fault EXCEPT ![c] = @ \/ tpm.srk # "none"]
    /\ Go(c, AfterSrk(c))
    /\ UNCHANGED <<tpm, pcr, failures, stranded, lost, tokens, op, pin, list, todo, cur, policy,
                   asked>>

\* get_srk returns early when the serialization of a fresh primary fails: nobody tracks it.
SerializeFails(c) ==
    /\ pc[c] = "srk" /\ Room(c)
    /\ IF tpm.managed THEN UNCHANGED <<stranded, lost>>
       ELSE stranded' = OneMore(stranded, {"srk"}) /\ lost' = OneMore(lost, {"srk"})
    /\ cur' = [cur EXCEPT ![c] = 0] /\ Go(c, "begin") /\ Faulty(c)
    /\ UNCHANGED <<tpm, pcr, failures, tokens, op, pin, list, todo, context, asked>>

\* Esys_Load takes the object only under the key that wrapped it.
Load(c) ==
    /\ pc[c] = "load"
    /\ IF Room(c) /\ Token(c).blob.parent = parent[c]
       THEN /\ Track(c, "loaded") /\ Go(c, "session")
            /\ UNCHANGED <<stranded, lost, parent, policy, cur>>
       ELSE GiveUp(c)
    /\ UNCHANGED <<tpm, pcr, failures, tokens, op, pin, list, todo, history>>

StartSession(c) ==
    /\ pc[c] = "session" /\ SessionRoom
    /\ Track(c, "session") /\ Go(c, "policy")
    /\ UNCHANGED <<tpm, pcr, failures, stranded, lost, tokens, op, pin, list, todo, cur, parent,
                   policy, history>>

\* policy_pcr and policy_auth_value; a seal reads the digest and flushes the trial session.
Policy(c) ==
    /\ pc[c] = "policy"
    /\ policy' = [policy EXCEPT ![c] =
           [seen |-> pcr, is |-> PolicyOf(parse_pcr_indices(Token(c).pcrs), Token(c).pinRequired)]]
    /\ IF op[c] = "seal"
       THEN FlushNow(c, "session") /\ Go(c, "create")
       ELSE Go(c, "unseal") /\ UNCHANGED <<held, tracked, lost>>
    /\ UNCHANGED <<tpm, pcr, failures, stranded, tokens, op, pin, list, todo, cur, parent, history>>

\* seal_template and build_sensitive_create: what the TPM will ask for to give it out.
SealedObject(c) ==
    [readable |-> TRUE, parent |-> parent[c], policy |-> policy[c].is, auth |-> pin[c]]

\* Esys_Create, the SRK flushed, and the token the enrollment writes into the header.
Create(c) ==
    /\ pc[c] = "create"
    /\ tokens' = Append(tokens,
           [pcrs |-> JsonPcrs(Token(c).pcrs), pinRequired |-> pin[c] # NoPin,
            blob |-> SealedObject(c)])
    /\ DropContext(c) /\ Return(c)
    /\ UNCHANGED <<tpm, pcr, failures>>

\* What the TPM makes of the session: the lockout is looked at first, then the policy
\* (which a register extended since voids), then the auth value, which alone is counted.
Locked(c) == policy[c].is.authValue /\ failures >= MaxTries
PolicyHolds(c) == policy[c].seen = pcr /\ policy[c].is = Token(c).blob.policy

\* The auth value set on the loaded object.
Auth(c) == IF Token(c).pinRequired THEN pin[c] ELSE NoPin
AuthHolds(c) == policy[c].is.authValue => Auth(c) = Token(c).blob.auth

Unseal(c) ==
    /\ pc[c] = "unseal" /\ ~Locked(c) /\ PolicyHolds(c) /\ AuthHolds(c)
    /\ DropContext(c) /\ Return(c)
    /\ UNCHANGED <<tpm, pcr, failures, tokens>>

UnsealRefused(c) ==
    /\ pc[c] = "unseal" /\ ~(~Locked(c) /\ PolicyHolds(c) /\ AuthHolds(c))
    /\ failures' = IF ~Locked(c) /\ PolicyHolds(c) THEN failures + 1 ELSE failures
    /\ GiveUp(c)
    /\ UNCHANGED <<tpm, pcr, tokens, op, pin, list, todo, history>>

\* A command that needs a slot finds none.
NoSlot(c) ==
    \/ pc[c] = "srk" /\ tpm.srk = "none" /\ ~Room(c)
    \/ pc[c] = "session" /\ ~SessionRoom

\* Any other TPM command, or the transport below it, fails.
Fails(c) ==
    /\ pc[c] \notin {"idle", "begin"}
    /\ GiveUp(c)
    /\ fault' = [fault EXCEPT ![c] = @ \/ ~NoSlot(c)]
    /\ UNCHANGED <<tpm, pcr, failures, tokens, op, pin, list, todo, asked>>

\* Firmware, boot loader or kernel measures something.
Extend(i) ==
    /\ pcr[i] < MaxExtends
    /\ pcr' = [pcr EXCEPT ![i] = @ + 1]
    /\ UNCHANGED <<tpm, failures, stranded, lost, tokens, pc, op, pin, list, todo, cur, context,
                   history>>

Step(c) == \/ Begin(c) \/ GetSrk(c) \/ SerializeFails(c) \/ Load(c) \/ StartSession(c)
           \/ Policy(c) \/ Create(c) \/ Unseal(c) \/ UnsealRefused(c) \/ Fails(c)

Next ==
    \/ \E c \in Call : \/ \E parts \in Requests, p \in Pins \cup {NoPin} : CallSeal(c, parts, p)
                       \/ \E p \in Pins \cup {NoPin} : CallUnseal(c, p)
                       \/ Step(c)
    \/ \E i \in Moving : Extend(i)

Spec == Init /\ [][Next]_vars

-----------------------------------------------------------------------------
(* Properties *)

Srks == {"none", "ecc", "other"}
Stages == {"idle", "begin", "srk", "load", "session", "policy", "create", "unseal"}

\* Every variable has its type: the registers and the lockout counter stay within their
\* limits, no token is written beyond the room for it, and the flusher of a call tracks only
\* handles the TPM holds for that call.
TypeOK ==
    /\ tpm \in [srk : Persistent, managed : Managed]
    /\ pcr \in [Moving -> 0 .. MaxExtends]
    /\ failures \in 0 .. MaxTries
    /\ stranded \in [Kinds -> Nat] /\ lost \in [Kinds -> Nat]
    /\ Len(tokens) <= MaxTokens
    /\ pc \in [Call -> Stages] /\ op \in [Call -> {"none", "seal", "unseal"}]
    /\ pin \in [Call -> Pins \cup {NoPin}]
    /\ \A c \in Call : /\ todo[c] \subseteq DOMAIN list[c]
                       /\ pc[c] \notin {"idle", "begin"} => cur[c] \in DOMAIN list[c]
    /\ held \in [Call -> SUBSET Kinds] /\ tracked \in [Call -> SUBSET Kinds]
    /\ \A c \in Call : tracked[c] \subseteq held[c]
    /\ parent \in [Call -> Srks]
    /\ fault \in [Call -> BOOLEAN]

\* A call gives back every handle it took, on whichever step it ended (HandleFlusher):
\* a handle outlives its context only when the TPM would not flush it although the service
\* asked, or when it is an SRK that could not be serialized.  There are never more left of
\* a kind than there were such cases, and behind a resource manager there are none.
HandlesReturned ==
    /\ \A k \in Kinds : stranded[k] <= lost[k]
    /\ tpm.managed => \A k \in Kinds : stranded[k] = 0

\* The registers the object was sealed to hold the values they had.
AsSealed(t) == t.blob.policy.pcrs = [i \in DOMAIN t.blob.policy.pcrs |-> Value(i)]

\* The TPM would give out this token's secret to that PIN: it was sealed under the TPM's
\* SRK, its registers, if any, have not changed since, and the PIN is its own.
Opens(t, p) ==
    /\ t.blob.parent = IF tpm.srk = "none" THEN "ecc" ELSE tpm.srk
    /\ AsSealed(t)
    /\ t.pinRequired => p = t.blob.auth /\ failures < MaxTries

\* The token is bound to a register.  Other tools make tokens that are not, which the TPM
\* gives out and parse_pcr_indices ("PCR selection must not be empty") does not ask for.
BoundToPcrs(t) == DOMAIN t.blob.policy.pcrs # {}

\* An unlock fails only for a reason: when no TPM command failed by itself, no register
\* was extended meanwhile, two objects and a session still fit and every token was readable,
\* a failed unseal_from_tokens means that no token of the header that is bound to a register
\* opens with that PIN.  Tokens without a PIN still open in lockout, tokens of other PINs
\* and tokens bound to nothing do not get in the way, and what the enrollment wrote as
\* "tpm2-pcrs" is what it sealed to.
FailsForAReason ==
    [][\A c \in Call :
           /\ pc[c] = "begin" /\ pc'[c] = "idle" /\ op[c] = "unseal"
           /\ ~fault[c] /\ asked[c] = pcr /\ Readable(list[c])
           /\ stranded["srk"] + stranded["loaded"] + 2 <= Slots /\ SessionRoom
           => \A i \in DOMAIN list[c] :
                  BoundToPcrs(list[c][i]) => ~Opens(list[c][i], pin[c])]_vars

\* A secret leaves the TPM only under the terms it was sealed with: the registers named
\* at enrollment as they were then, whatever was extended between PolicyPCR and Unseal,
\* and, when the token says so, the PIN it was enrolled with.
SecretOnlyAsSealed ==
    [][\A c \in Call : pc[c] = "unseal" /\ pc'[c] = "idle" =>
           /\ AsSealed(Token(c))
           /\ Token(c).pinRequired => pin[c] = Token(c).blob.auth]_vars

\* Only somebody else's token costs an attempt: the dictionary-attack counter moves by
\* one, when a PIN was given, on a token enrolled with a different one.
OnlyAnotherPinCounts ==
    [][failures' # failures =>
           /\ failures' = failures + 1
           /\ \E c \in Call : /\ pc[c] = "unseal" /\ pin[c] # NoPin
                              /\ Token(c).pinRequired /\ Token(c).blob.auth # pin[c]]_vars

=============================================================================
