---------------------------- MODULE VolumeService ----------------------------
(***************************************************************************)
(* The privileged service of luks-enroll seen from one LUKS2 volume: the   *)
(* header (digest key, keyslots, tokens), the volume-key cache of each     *)
(* service process, and the D-Bus calls working on the volume.             *)
(*                                                                         *)
(* zbus dispatches every method call as a task of its own and the handlers *)
(* run their blocking part on a thread each (service.rs `blocking`); no    *)
(* lock is held from one luks:: helper to the next.  So one helper, or one *)
(* libcryptsetup call inside it, is one step here, and steps of different  *)
(* calls interleave.                                                       *)
(*                                                                         *)
(* Data is abstracted to identities.  A call makes at most one secret and  *)
(* at most one volume key, both unguessable, and so both named after the   *)
(* call that made them.  Polkit and argument validation (service.rs        *)
(* `gate_device`, `check_fd`) happen before a call enters the model.       *)
(***************************************************************************)
EXTENDS Integers, FiniteSets

CONSTANTS
    Calls,           \* the D-Bus calls that may be made, each at most once
    Passphrases,     \* passphrases the user knows
    Authenticators,  \* FIDO2 devices the user owns
    NumSlots,        \* keyslots of the LUKS2 header
    NumTokens,       \* token entries of the LUKS2 header
    MaxProcs,        \* service processes in succession (bound)
    MaxInFlight,     \* calls being served at a time (bound; 1: a client that waits)
    Faults,          \* what may go wrong, a subset of FaultKinds
    InitialKey,      \* volume key of a volume that exists at the start
    NoKey,           \* no volume key; no LUKS2 header on the device
    NoSecret         \* the empty passphrase; a token that stores no secret

(* read:    a metadata dump fails (luks::metadata_json returns None).      *)
(* write:   libcryptsetup refuses or fails a header update.                *)
(* device:  the authenticator, the TPM or the RNG fails.                   *)
(* lost:    a reply does not reach the client (client timeout, service     *)
(*          leaving the bus), though the service carries out the call.     *)
(* stop:    the service process is killed.                                 *)
FaultKinds == {"read", "write", "device", "lost", "stop"}

(* The history of a behaviour also notes calls made while others are being *)
(* served: overlap, and race when a wipe or a format is among them.        *)
MishapKinds == FaultKinds \cup {"overlap", "race"}

TokenMethods == {"systemd-fido2", "systemd-tpm2"}

ASSUME BoundsAssumption ==
    /\ NumSlots \in Nat \ {0} /\ NumTokens \in Nat \ {0} /\ MaxProcs \in Nat \ {0}
    /\ MaxInFlight \in Nat \ {0}

\* A LUKS2 header has room for a token beside every keyslot: libcryptsetup has 32 tokens
\* and 32 keyslots, or about 14 in the compact keyslots area (luks.rs COMPACT_KEYSLOTS_SIZE).
ASSUME TablesAssumption == NumSlots <= NumTokens

ASSUME FaultsAssumption == Faults \subseteq FaultKinds

ASSUME KeysAssumption ==
    InitialKey \notin Calls /\ NoKey \notin Calls /\ InitialKey # NoKey

ASSUME SecretsAssumption ==
    /\ NoSecret \notin Calls \cup Passphrases \cup TokenMethods
    /\ Calls \cap (Passphrases \cup TokenMethods) = {}
    /\ Passphrases \cap TokenMethods = {}
    /\ (Authenticators \cup {"tpm2", "recovery"}) \cap (Passphrases \cup {NoSecret}) = {}
    /\ Authenticators \cap {"tpm2", "recovery"} = {}

Slots    == 0 .. (NumSlots - 1)
TokenIds == 0 .. (NumTokens - 1)
Procs    == 1 .. MaxProcs
Keys     == Calls \cup {InitialKey}
Secrets  == Calls \cup Passphrases

NoSlot  == -1
NoToken == -1      \* find_token_for_keyslot's "none"

\* What an enrollment enrolls: a FIDO2 device, the TPM, a recovery key or a passphrase.
Modalities == Authenticators \cup {"tpm2", "recovery"} \cup Passphrases

VARIABLES
    vk,        \* volume key the header's digest commits to; NoKey without a header
    keyslots,  \* occupied slot -> secret that opens it
    tokens,    \* token id -> [by, slots, secret]
    cache,     \* VOLUME_KEY_CACHE of each process: [key, fresh]
    proc,      \* the process that owns the bus name
    call,      \* progress of every call
    returned,  \* recovery keys the user has been given
    mishap     \* the faults that have struck so far (history)

vars == <<vk, keyslots, tokens, cache, proc, call, returned, mishap>>
header == <<vk, keyslots, tokens>>

Token == [by : Modalities, slots : SUBSET Slots, secret : Calls \cup {NoSecret}]

NoEntry == [key |-> NoKey, fresh |-> FALSE]

Steps == {"dupcheck", "prepare", "getkey", "derive", "extract", "fill", "add",
          "settoken", "check", "findtoken", "rmtoken", "destroy",
          "wipefs", "format", "seed"}

CallRecord ==
    [op   : {"none", "verify", "enroll", "wipe", "format"},
     pc   : Steps \cup {"new", "done"},
     proc : Procs,
     by   : Modalities \cup {NoSecret},                       \* enroll: what
     cred : Secrets \cup TokenMethods \cup {NoSecret},        \* unlock credential
     slot : Slots \cup {NoSlot},                              \* added / to wipe
     tok  : TokenIds \cup {NoToken},                          \* token to remove
     key  : Keys \cup {NoKey},                                \* volume key in hand
     reply : {"awaited", "lost"}]                             \* is the client waiting

\* Which operations reach which steps, and with what in hand.
WellFormed(r) ==
    /\ r.pc \in {"dupcheck", "prepare", "add", "settoken"} => r.op = "enroll"
    /\ r.pc \in {"check", "findtoken", "rmtoken", "destroy"} => r.op = "wipe"
    /\ r.pc \in {"wipefs", "format", "seed"} => r.op = "format"
    /\ r.pc = "seed" => r.cred # NoSecret
    /\ r.op = "enroll" => r.by \in Modalities
    /\ r.op = "wipe" => r.slot \in Slots
    /\ r.op = "format" => /\ r.pc \in {"wipefs", "format", "fill", "seed"}
                          /\ r.cred \in Passphrases \cup {NoSecret}

CallState == {r \in CallRecord : WellFormed(r)}

Blank(pc) == [op |-> "none", pc |-> pc, proc |-> 1, by |-> NoSecret, cred |-> NoSecret,
              slot |-> NoSlot, tok |-> NoToken, key |-> NoKey, reply |-> "awaited"]

TypeOK ==
    /\ vk \in Keys \cup {NoKey}
    /\ DOMAIN keyslots \subseteq Slots
    /\ keyslots \in [DOMAIN keyslots -> Secrets]
    /\ DOMAIN tokens \subseteq TokenIds
    /\ tokens \in [DOMAIN tokens -> Token]
    /\ cache \in [Procs -> [key : Keys \cup {NoKey}, fresh : BOOLEAN]]
    /\ proc \in Procs
    /\ call \in [Calls -> CallState]
    /\ returned \subseteq Calls
    /\ mishap \subseteq MishapKinds

-----------------------------------------------------------------------------
(* Derived state *)

InFlight == {c \in Calls : call[c].pc \in Steps}

\* Processes still in memory: the owner of the bus name and those finishing their calls.
Alive(p) == p = proc \/ \E c \in InFlight : call[c].proc = p

FreeSlots  == Slots \ DOMAIN keyslots
FreeTokens == TokenIds \ DOMAIN tokens

\* libcryptsetup allocates the lowest free number (CRYPT_ANY_SLOT, CRYPT_ANY_TOKEN).
IsLowest(n, S) == n \in S /\ \A m \in S : n <= m

\* Secrets a user can type: passphrases and the recovery keys handed out.
Typeable == Passphrases \cup returned

\* luks.rs cached_volume_key: an entry counts only while younger than the TTL.
CachedVolumeKey(p) == IF cache[p].fresh THEN cache[p].key ELSE NoKey

\* luks.rs is_volume_key_cached, the answer of IsVolumeKeyCached.
IsVolumeKeyCached(p) == CachedVolumeKey(p) # NoKey

\* Tokens of a systemd token type (luks.rs tokens_by_type).
TokensOfType(method) ==
    {t \in DOMAIN tokens :
        IF method = "systemd-fido2" THEN tokens[t].by \in Authenticators
                                    ELSE tokens[t].by = "tpm2"}

-----------------------------------------------------------------------------
(* Building blocks of the actions *)

\* The call goes on to pc with its record otherwise as r.
Goto(c, r, pc) == call' = [call EXCEPT ![c] = [r EXCEPT !.pc = pc]]

\* The handler returns; what it held is dropped.
Return(c) == call' = [call EXCEPT ![c] = Blank("done")]

Fault(kind) == kind \in Faults /\ mishap' = mishap \cup {kind}

\* A step that fails with an error return and has changed nothing.
FailStep(c, kind) == /\ Fault(kind)
                     /\ Return(c)
                     /\ UNCHANGED <<header, cache, proc, returned>>

\* Mutant of AfterKey: the verify calls fall through into the enrollment spine.
AfterKeyFallsThrough(op) == IF op = "wipe" THEN "check" ELSE "add"

\* Where a call stands once get_volume_key has returned to its caller.
AfterKey(op) == CASE op = "enroll" -> "add" [] op = "wipe" -> "check" [] OTHER -> "done"

\* The call proceeds with key k in hand; op_wipe_slot drops it, its point being that there
\* is one; verify and format return, having only wanted the key cached.
WithKey(c, k) ==
    IF AfterKey(call[c].op) = "done"
    THEN Return(c)
    ELSE Goto(c, [call[c] EXCEPT !.key = IF call[c].op = "enroll" THEN k ELSE NoKey],
              AfterKey(call[c].op))

\* Mutant of NewSecret: the keyslot is added with the unlock passphrase instead.
NewSecretIsOldSecret(c) == call[c].cred

\* A new keyslot holds the enrolled passphrase, or the secret this call generated.
NewSecret(c) == IF call[c].by \in Passphrases THEN call[c].by ELSE c

\* Mutant of NewToken: the token is not stamped with the slot just added.
NewTokenUnstamped(c, s) == [by |-> call[c].by, slots |-> {0},
                            secret |-> IF call[c].by = "recovery" THEN NoSecret ELSE c]

\* The TPM blob or FIDO2 credential leads back to the secret; a recovery token does not.
NewToken(c, s) == [by |-> call[c].by, slots |-> {s},
                   secret |-> IF call[c].by = "recovery" THEN NoSecret ELSE c]
-----------------------------------------------------------------------------
(* Initial state: a volume with one passphrase keyslot, or a device without *)
(* a LUKS2 header; the service has just been activated.                     *)
Init ==
    /\ \/ vk = NoKey /\ keyslots = [s \in {} |-> NoSecret]
       \/ vk = InitialKey /\ \E p \in Passphrases : keyslots = [s \in {0} |-> p]
    /\ tokens = [t \in {} |-> NoSecret]
    /\ cache = [p \in Procs |-> NoEntry]
    /\ proc = 1
    /\ call = [c \in Calls |-> Blank("new")]
    /\ returned = {}
    /\ mishap = {}

(* A client makes call c.  The unlock credential is something the user can *)
(* type, the empty passphrase a keyless volume is enrolled with, or a       *)
(* token type.                                                              *)
Credentials == Typeable \cup {NoSecret} \cup TokenMethods

Begin(c, r) ==
    /\ call[c].pc = "new"
    /\ call' = [call EXCEPT ![c] = r]
    /\ \/ InFlight = {} /\ UNCHANGED mishap
       \/ /\ InFlight # {} /\ Cardinality(InFlight) < MaxInFlight
          /\ mishap' = mishap \cup {"overlap"} \cup
                 (IF \E d \in InFlight : {r.op, call[d].op} \cap {"wipe", "format"} # {}
                  THEN {"race"} ELSE {})
    /\ UNCHANGED <<header, cache, proc, returned>>

Request(op, pc, by, cred, slot) ==
    [op |-> op, pc |-> pc, proc |-> proc, by |-> by, cred |-> cred, slot |-> slot,
     tok |-> NoToken, key |-> NoKey, reply |-> "awaited"]

VerifyPassphrase(c) ==
    \E pw \in Typeable \cup {NoSecret} :
        Begin(c, Request("verify", "extract", NoSecret, pw, NoSlot))

UnlockWithToken(c) ==
    \E m \in TokenMethods : Begin(c, Request("verify", "derive", NoSecret, m, NoSlot))

EnrollFido2(c) ==
    \E a \in Authenticators, m \in Credentials :
        Begin(c, Request("enroll", "dupcheck", a, m, NoSlot))

EnrollTpm2(c) ==
    \E m \in Credentials :
        Begin(c, Request("enroll", "prepare", "tpm2", m, NoSlot))

EnrollRecoveryKey(c) ==
    \E m \in Credentials :
        Begin(c, Request("enroll", "prepare", "recovery", m, NoSlot))

EnrollPassphrase(c) ==
    \E p \in Passphrases, m \in Credentials :
        Begin(c, Request("enroll", "getkey", p, m, NoSlot))

WipeSlot(c) ==
    \E s \in Slots, m \in Credentials :
        Begin(c, Request("wipe", "getkey", NoSecret, m, s))

FormatPartition(c) ==
    \E pw \in Passphrases \cup {NoSecret} :
        Begin(c, Request("format", "wipefs", NoSecret, pw, NoSlot))
-----------------------------------------------------------------------------
(* Getting the volume key *)

\* Mutant of GetVolumeKeyHit: the age of the entry is not looked at.
GetVolumeKeyHitAnyAge(c) ==
    /\ call[c].pc = "getkey"
    /\ cache[call[c].proc].key # NoKey
    /\ WithKey(c, cache[call[c].proc].key)
    /\ UNCHANGED <<header, cache, proc, returned, mishap>>

\* get_volume_key: any unlock method is served from the cache, credential unread.
GetVolumeKeyHit(c) ==
    /\ call[c].pc = "getkey"
    /\ IsVolumeKeyCached(call[c].proc)
    /\ WithKey(c, CachedVolumeKey(call[c].proc))
    /\ UNCHANGED <<header, cache, proc, returned, mishap>>

\* get_volume_key on a miss (an expired entry is evicted) turns to the credential.
GetVolumeKeyMiss(c) ==
    /\ call[c].pc = "getkey"
    /\ ~IsVolumeKeyCached(call[c].proc)
    /\ cache' = [cache EXCEPT ![call[c].proc] = NoEntry]
    /\ Goto(c, call[c], IF call[c].cred \in TokenMethods THEN "derive" ELSE "extract")
    /\ UNCHANGED <<header, proc, returned, mishap>>

\* derive_passphrase_from_token: some enrolled token of the type answers, or none does.
DerivePassphraseFromToken(c) ==
    /\ call[c].pc = "derive"
    /\ \/ \E t \in TokensOfType(call[c].cred) :
             /\ Goto(c, [call[c] EXCEPT !.cred = tokens[t].secret], "extract")
             /\ UNCHANGED <<header, cache, proc, returned, mishap>>
       \/ /\ TokensOfType(call[c].cred) = {}
          /\ Return(c)
          /\ UNCHANGED <<header, cache, proc, returned, mishap>>
       \/ FailStep(c, "device")

\* Mutant of ExtractVolumeKey: a failed extraction is cached like a successful one.
ExtractVolumeKeyUnchecked(c) ==
    /\ call[c].pc = "extract"
    /\ IF \E s \in DOMAIN keyslots : keyslots[s] = call[c].cred
       THEN Goto(c, [call[c] EXCEPT !.key = vk], "fill")
       ELSE Goto(c, call[c], "fill")
    /\ UNCHANGED <<header, cache, proc, returned, mishap>>

\* crypt_volume_key_get: succeeds when some keyslot opens with the secret.
ExtractVolumeKey(c) ==
    /\ call[c].pc = "extract"
    /\ \/ /\ IF \E s \in DOMAIN keyslots : keyslots[s] = call[c].cred
             THEN Goto(c, [call[c] EXCEPT !.key = vk], "fill")
             ELSE Return(c)
          /\ UNCHANGED <<header, cache, proc, returned, mishap>>
       \/ FailStep(c, "read")

\* cache_volume_key: whatever was extracted replaces the entry and restarts the TTL.
CacheVolumeKey(c) ==
    /\ call[c].pc = "fill"
    /\ cache' = [cache EXCEPT ![call[c].proc] = [key |-> call[c].key, fresh |-> TRUE]]
    /\ WithKey(c, call[c].key)
    /\ UNCHANGED <<header, proc, returned, mishap>>
-----------------------------------------------------------------------------
(* Enrollment *)

\* Mutant of CheckNotEnrolled: no duplicate check.
CheckNotEnrolledSkipped(c) ==
    /\ call[c].pc = "dupcheck"
    /\ Goto(c, call[c], "prepare")
    /\ UNCHANGED <<header, cache, proc, returned, mishap>>

\* op_enroll_fido2's duplicate check; unreadable metadata counts as "not enrolled", and so
\* does an authenticator whose probe is inconclusive or that is busy.  Both are "read" faults.
CheckNotEnrolled(c) ==
    /\ call[c].pc = "dupcheck"
    /\ \/ /\ IF \E t \in DOMAIN tokens : tokens[t].by = call[c].by
             THEN Return(c)
             ELSE Goto(c, call[c], "prepare")
          /\ UNCHANGED mishap
       \/ /\ Fault("read")
          /\ Goto(c, call[c], "prepare")
    /\ UNCHANGED <<header, cache, proc, returned>>

\* enroll_token's `prepare`: the secret is made before the volume is touched.
Prepare(c) ==
    /\ call[c].pc = "prepare"
    /\ \/ /\ Goto(c, call[c], "getkey")
          /\ UNCHANGED <<header, cache, proc, returned, mishap>>
       \/ FailStep(c, "device")

\* add_keyslot_by_volume_key: libcryptsetup checks the key against the header's digest.
\* For a passphrase this is the last step of the call.
AddKeyslotByVolumeKey(c) ==
    /\ call[c].pc = "add"
    /\ \/ /\ call[c].key = vk
          /\ \E s \in FreeSlots :
                /\ IsLowest(s, FreeSlots)
                /\ keyslots' = [n \in DOMAIN keyslots \cup {s} |->
                                  IF n = s THEN NewSecret(c) ELSE keyslots[n]]
                /\ IF call[c].by \in Passphrases
                   THEN Return(c)
                   ELSE Goto(c, [call[c] EXCEPT !.slot = s, !.key = NoKey], "settoken")
          /\ UNCHANGED <<vk, tokens, cache, proc, returned, mishap>>
       \/ /\ call[c].key # vk \/ FreeSlots = {}
          /\ Return(c)
          /\ UNCHANGED <<header, cache, proc, returned, mishap>>
       \/ FailStep(c, "write")

\* set_token with a new token: it must name an existing keyslot.  On success the reply
\* carries the recovery key, if that is what was enrolled.
SetToken(c) ==
    /\ call[c].pc = "settoken"
    /\ \/ /\ call[c].slot \in DOMAIN keyslots
          /\ \E t \in FreeTokens :
                /\ IsLowest(t, FreeTokens)
                /\ tokens' = [n \in DOMAIN tokens \cup {t} |->
                                IF n = t THEN NewToken(c, call[c].slot) ELSE tokens[n]]
          /\ returned' = IF call[c].by = "recovery" /\ call[c].reply = "awaited"
                         THEN returned \cup {c} ELSE returned
          /\ Return(c)
          /\ UNCHANGED <<vk, keyslots, cache, proc, mishap>>
       \/ /\ call[c].slot \notin DOMAIN keyslots \/ FreeTokens = {}
          /\ Return(c)
          /\ UNCHANGED <<header, cache, proc, returned, mishap>>
       \/ FailStep(c, "write")
-----------------------------------------------------------------------------
(* Wiping a slot *)

\* Mutant of IsLastKeyslot: off by one in the number of keyslots.
IsLastKeyslotOffByOne(s) == s \in DOMAIN keyslots /\ Cardinality(DOMAIN keyslots) < 1

\* op_wipe_slot refuses when list_keyslots names this slot and no other.
IsLastKeyslot(s) == s \in DOMAIN keyslots /\ Cardinality(DOMAIN keyslots) <= 1

\* Mutant of CheckLastKeyslot: no check.
CheckLastKeyslotSkipped(c) ==
    /\ call[c].pc = "check"
    /\ Goto(c, call[c], "findtoken")
    /\ UNCHANGED <<header, cache, proc, returned, mishap>>

\* list_keyslots answers an empty map when the metadata cannot be read.
CheckLastKeyslot(c) ==
    /\ call[c].pc = "check"
    /\ \/ /\ IF IsLastKeyslot(call[c].slot)
             THEN Return(c)
             ELSE Goto(c, call[c], "findtoken")
          /\ UNCHANGED mishap
       \/ /\ Fault("read")
          /\ Goto(c, call[c], "findtoken")
    /\ UNCHANGED <<header, cache, proc, returned>>

\* Mutant of FindTokenForKeyslot: the keyslots a token names are not compared.
FindAnyToken(c) ==
    /\ call[c].pc = "findtoken"
    /\ IF DOMAIN tokens = {}
       THEN Goto(c, call[c], "destroy")
       ELSE \E t \in DOMAIN tokens : Goto(c, [call[c] EXCEPT !.tok = t], "rmtoken")
    /\ UNCHANGED <<header, cache, proc, returned, mishap>>

\* find_token_for_keyslot: a token naming the slot; none when the metadata is unreadable.
FindTokenForKeyslot(c) ==
    /\ call[c].pc = "findtoken"
    /\ \/ /\ \E t \in DOMAIN tokens :
                /\ call[c].slot \in tokens[t].slots
                /\ Goto(c, [call[c] EXCEPT !.tok = t], "rmtoken")
          /\ UNCHANGED mishap
       \/ /\ \A t \in DOMAIN tokens : call[c].slot \notin tokens[t].slots
          /\ Goto(c, call[c], "destroy")
          /\ UNCHANGED mishap
       \/ /\ Fault("read")
          /\ Goto(c, call[c], "destroy")
    /\ UNCHANGED <<header, cache, proc, returned>>

\* Mutant of RemoveToken: the wipe ends with the token, before the keyslot is destroyed.
RemoveTokenOnly(c) ==
    /\ call[c].pc = "rmtoken" /\ vk # NoKey
    /\ tokens' = [t \in DOMAIN tokens \ {call[c].tok} |-> tokens[t]]
    /\ Return(c)
    /\ UNCHANGED <<vk, keyslots, cache, proc, returned, mishap>>

\* set_token(None): the id is removed whatever it holds by now.
RemoveToken(c) ==
    /\ call[c].pc = "rmtoken"
    /\ \/ /\ vk # NoKey
          /\ tokens' = [t \in DOMAIN tokens \ {call[c].tok} |-> tokens[t]]
          /\ Goto(c, call[c], "destroy")
          /\ UNCHANGED <<vk, keyslots, cache, proc, returned, mishap>>
       \/ /\ vk = NoKey
          /\ Return(c)
          /\ UNCHANGED <<header, cache, proc, returned, mishap>>
       \/ FailStep(c, "write")

\* crypt_keyslot_destroy: also strikes the slot from every token that names it.
DestroyKeyslot(c) ==
    /\ call[c].pc = "destroy"
    /\ \/ /\ call[c].slot \in DOMAIN keyslots
          /\ keyslots' = [s \in DOMAIN keyslots \ {call[c].slot} |-> keyslots[s]]
          /\ tokens' = [t \in DOMAIN tokens |->
                          [tokens[t] EXCEPT !.slots = @ \ {call[c].slot}]]
          /\ Return(c)
          /\ UNCHANGED <<vk, cache, proc, returned, mishap>>
       \/ /\ call[c].slot \notin DOMAIN keyslots
          /\ Return(c)
          /\ UNCHANGED <<header, cache, proc, returned, mishap>>
       \/ FailStep(c, "write")
-----------------------------------------------------------------------------
(* Formatting a removable partition *)

\* wipefs takes the LUKS2 signature away before the new header is written, unless libblkid
\* does not report it, when the loop passes over it.
WipeSignatures(c) ==
    /\ call[c].pc = "wipefs"
    /\ \/ /\ \/ /\ vk' = NoKey
                /\ keyslots' = [s \in {} |-> NoSecret]
                /\ tokens' = [t \in {} |-> NoSecret]
             \/ UNCHANGED header
          /\ Goto(c, call[c], "format")
          /\ UNCHANGED <<cache, proc, returned, mishap>>
       \/ FailStep(c, "write")

\* crypt_format: a header with a new volume key and no keyslot.  Keyless formatting then
\* caches the key, formatting with a passphrase adds a keyslot and leaves the cache alone.
FormatLuks2(c) ==
    /\ call[c].pc = "format"
    /\ \/ /\ vk' = c
          /\ keyslots' = [s \in {} |-> NoSecret]
          /\ tokens' = [t \in {} |-> NoSecret]
          /\ Goto(c, [call[c] EXCEPT !.key = c],
                  IF call[c].cred = NoSecret THEN "fill" ELSE "seed")
          /\ UNCHANGED <<cache, proc, returned, mishap>>
       \/ FailStep(c, "write")

\* The passphrase keyslot; refused when the header is no longer the one just written.
SeedPassphrase(c) ==
    /\ call[c].pc = "seed"
    /\ \/ /\ vk = call[c].key
          /\ \E s \in FreeSlots :
                /\ IsLowest(s, FreeSlots)
                /\ keyslots' = [n \in DOMAIN keyslots \cup {s} |->
                                  IF n = s THEN call[c].cred ELSE keyslots[n]]
          /\ Return(c)
          /\ UNCHANGED <<vk, tokens, cache, proc, returned, mishap>>
       \/ /\ vk # call[c].key \/ FreeSlots = {}
          /\ Return(c)
          /\ UNCHANGED <<header, cache, proc, returned, mishap>>
       \/ FailStep(c, "write")
-----------------------------------------------------------------------------
(* The environment of the handlers *)

\* VOLUME_KEY_CACHE_TTL passes.
Expire(p) ==
    /\ Alive(p) /\ cache[p].fresh
    /\ cache' = [cache EXCEPT ![p].fresh = FALSE]
    /\ UNCHANGED <<header, proc, call, returned, mishap>>

\* The client gives up on a call.  Only the reply to EnrollRecoveryKey carries something
\* the model keeps, so only its loss is a step.
LoseReply(c) ==
    /\ c \in InFlight /\ call[c].by = "recovery" /\ call[c].reply = "awaited"
    /\ Fault("lost")
    /\ call' = [call EXCEPT ![c].reply = "lost"]
    /\ UNCHANGED <<header, cache, proc, returned>>

\* main returns (idle timeout, bus name lost): calls being served run to their end, as the
\* runtime waits for blocking threads, but their replies go nowhere.
ServiceExit ==
    /\ proc < MaxProcs
    /\ proc' = proc + 1
    /\ call' = [c \in Calls |-> IF c \in InFlight THEN [call[c] EXCEPT !.reply = "lost"]
                                                  ELSE call[c]]
    /\ IF InFlight = {} THEN UNCHANGED mishap ELSE Fault("lost")
    /\ UNCHANGED <<header, cache, returned>>

\* The process is killed: the cache is gone and its calls stop where they are.
ServiceKilled ==
    /\ proc < MaxProcs
    /\ proc' = proc + 1
    /\ cache' = [cache EXCEPT ![proc] = NoEntry]
    /\ call' = [c \in Calls |-> IF c \in InFlight /\ call[c].proc = proc
                                THEN Blank("done") ELSE call[c]]
    /\ Fault("stop")
    /\ UNCHANGED <<header, returned>>
-----------------------------------------------------------------------------
ClientCall(c) ==
    \/ VerifyPassphrase(c) \/ UnlockWithToken(c)
    \/ EnrollFido2(c) \/ EnrollTpm2(c) \/ EnrollRecoveryKey(c) \/ EnrollPassphrase(c)
    \/ WipeSlot(c) \/ FormatPartition(c)

KeyStep(c) ==
    \/ GetVolumeKeyHit(c) \/ GetVolumeKeyMiss(c) \/ DerivePassphraseFromToken(c)
    \/ ExtractVolumeKey(c) \/ CacheVolumeKey(c)

HandlerStep(c) ==
    \/ KeyStep(c)
    \/ CheckNotEnrolled(c) \/ Prepare(c) \/ AddKeyslotByVolumeKey(c) \/ SetToken(c)
    \/ CheckLastKeyslot(c) \/ FindTokenForKeyslot(c) \/ RemoveToken(c) \/ DestroyKeyslot(c)
    \/ WipeSignatures(c) \/ FormatLuks2(c) \/ SeedPassphrase(c)

Next ==
    \/ \E c \in Calls : ClientCall(c) \/ HandlerStep(c) \/ LoseReply(c)
    \/ \E p \in Procs : Expire(p)
    \/ ServiceExit
    \/ ServiceKilled

Spec == Init /\ [][Next]_vars
-----------------------------------------------------------------------------
(* Properties.  Those that hold only while certain faults have not struck  *)
(* say so through mishap.                                                  *)

Struck(kinds) == mishap \cap kinds # {}

\* Mishaps that leave nothing behind.
Benign == {"device", "overlap"}

\* Some way is left to open slot s: its secret can be typed, or derived through a token.
Usable(s) ==
    \/ keyslots[s] \in Typeable
    \/ \E t \in DOMAIN tokens : tokens[t].secret = keyslots[s]

Unlockable == \E s \in DOMAIN keyslots : Usable(s)

\* "you can never lock yourself out": while wipes and formats have the volume to themselves
\* and every header access and reply goes through, no step short of a reformat takes away
\* the last way to unlock a volume (enroll_token's ordering, op_wipe_slot's check and its
\* token-then-keyslot order together).
NeverLockedOut ==
    [][(Unlockable /\ vk' = vk /\ mishap' \subseteq Benign) => Unlockable']_vars

\* Once a volume has a keyslot it keeps one until it is reformatted: op_wipe_slot's check
\* holds through failed writes, lost replies and kills, given readable metadata (and clear
\* probes, which count as reads) and no other call at work during a wipe.
LastKeyslotKept ==
    [][(/\ vk # NoKey /\ vk' = vk /\ DOMAIN keyslots # {}
        /\ mishap' \cap {"read", "race"} = {})
         => DOMAIN keyslots' # {}]_vars

\* Why: op_wipe_slot's check is still good when the keyslot is destroyed two calls later.
\* Nothing else is at work then, and the other keyslot it counted is still there.
CheckStillGood ==
    ~Struck({"read", "race"}) =>
        /\ \A c, d \in InFlight : c # d => call[c].op \notin {"wipe", "format"}
        /\ \A c \in InFlight :
              (call[c].pc \in {"findtoken", "rmtoken", "destroy"} /\ call[c].slot \in DOMAIN keyslots)
                => \E s \in DOMAIN keyslots : s # call[c].slot

\* Between calls every keyslot can be opened by somebody and every token names exactly one
\* keyslot: enrollments and wipes that run undisturbed leave no half behind.
NoHalfEnrollment ==
    (InFlight = {} /\ mishap \subseteq Benign) =>
        /\ \A s \in DOMAIN keyslots : Usable(s)
        /\ \A t \in DOMAIN tokens : \E s \in Slots : tokens[t].slots = {s}

\* A token that stores a secret stores the one that opens the keyslots it names; slot
\* numbers are reused, so this is about a token outliving the keyslot it was made for.
TokenOpensItsKeyslot ==
    ~Struck({"race"}) =>
        \A t \in DOMAIN tokens : tokens[t].secret # NoSecret =>
            \A s \in tokens[t].slots : s \in DOMAIN keyslots /\ keyslots[s] = tokens[t].secret

\* op_enroll_fido2: "Reject if this physical token is already enrolled on this volume."  So
\* it is while calls do not overlap, the metadata can be read and every probe for an
\* enrolled authenticator is clear.
OneTokenPerAuthenticator ==
    ~Struck({"overlap", "read"}) =>
        \A t, u \in DOMAIN tokens :
            (tokens[t].by = tokens[u].by /\ tokens[t].by \in Authenticators) => t = u

\* A recovery key the user is given opens the volume at that moment.
DeliveredRecoveryKeyOpens ==
    [][\A c \in returned' \ returned :
         "race" \in mishap' \/ \E s \in DOMAIN keyslots' : keyslots'[s] = c]_vars

\* A volume without keyslots lives through its cached key alone (format_luks2_keyless):
\* until the entry's time is up nothing the service does may replace or drop it.
KeylessKeyKept ==
    [][(/\ DOMAIN keyslots = {} /\ vk # NoKey /\ CachedVolumeKey(proc) = vk
        /\ vk' = vk /\ proc' = proc /\ "race" \notin mishap')
         => cache'[proc].key = vk]_vars

\* Who may hold what: a process that has not started has cached nothing and serves
\* nothing, and a call that has not yet formatted the device is not the origin of its key.
Provenance ==
    /\ \A p \in Procs : p > proc => cache[p] = NoEntry
    /\ \A c \in Calls : call[c].proc <= proc
    /\ \A c \in Calls : vk = c => \/ call[c].pc = "done"
                                  \/ call[c].op = "format" /\ call[c].pc \in {"fill", "seed"}

\* Nothing can open the volume: no keyslot, no process caches its key, no call holds it.
Gone ==
    /\ vk # NoKey
    /\ DOMAIN keyslots = {}
    /\ \A p \in Procs : Alive(p) => CachedVolumeKey(p) # vk
    /\ \A c \in InFlight : call[c].key # vk

\* What a reformat offer rests on (IsVolumeKeyCached, issue #88): a volume in that state
\* stays in it until it is reformatted, whatever overlaps or fails.
GoneForGood == [][(Gone /\ vk' = vk) => Gone']_vars

-----------------------------------------------------------------------------
(* What the repository says without the conditions above; each is refuted. *)

\* README "you can never lock yourself out", op_wipe_slot "Refuse to wipe the last
\* remaining keyslot": a volume that is never reformatted keeps a keyslot, overlapping
\* wipes included.
KeyslotNeverLost ==
    [][(DOMAIN keyslots # {} /\ vk' = vk /\ vk = InitialKey) => DOMAIN keyslots' # {}]_vars

\* README "you can never lock yourself out", failed header writes included: a volume that
\* can be unlocked stays so (op_wipe_slot counts a keyslot whose token was never written).
AlwaysUnlockable == [][(Unlockable /\ vk' = vk) => Unlockable']_vars

\* is_volume_key_cached "Whether a device's volume key is currently recoverable from the
\* cache": with no call at work, a cached key is the key of the volume on the device.
CachedKeyIsTheVolumes ==
    (InFlight = {} /\ vk # NoKey /\ IsVolumeKeyCached(proc)) => CachedVolumeKey(proc) = vk

\* IsVolumeKeyCached "once this returns false it can never be unlocked": a volume without
\* keyslots, and without a format at work on it, gets no keyslot after such an answer.
NotCachedNeverUnlocked ==
    [][(/\ vk # NoKey /\ vk' = vk /\ DOMAIN keyslots = {} /\ ~IsVolumeKeyCached(proc)
        /\ \A c \in InFlight : call[c].op # "format")
         => DOMAIN keyslots' = {}]_vars
=============================================================================
