------------------------- MODULE VolumeServiceProofs -------------------------
(***************************************************************************)
(* Theorems about VolumeService, for every set of calls, every number of   *)
(* keyslots, tokens and processes, and every combination of faults.        *)
(***************************************************************************)
EXTENDS VolumeCustody, TLAPS

-----------------------------------------------------------------------------
(* Typing *)

\* A call that has returned, or has not been made, is a well-formed call record.
LEMMA BlankType ==
    ASSUME NEW pc \in {"new", "done"}
    PROVE  Blank(pc) \in CallState
  BY BoundsAssumption DEF Blank, CallState, CallRecord, WellFormed, Procs

\* Return keeps the table of calls well-formed.
LEMMA ReturnType ==
    ASSUME TypeOK, NEW c \in Calls, Return(c)
    PROVE  call' \in [Calls -> CallState]
  BY BlankType DEF TypeOK, Return

\* So does moving a call on with a well-formed record.
LEMMA GotoType ==
    ASSUME TypeOK, NEW c \in Calls, NEW r, NEW pc,
           [r EXCEPT !.pc = pc] \in CallState, Goto(c, r, pc)
    PROVE  call' \in [Calls -> CallState]
  BY DEF TypeOK, Goto

\* A step that fails changes neither the header nor the caches.
LEMMA FailStepType ==
    ASSUME TypeOK, NEW c \in Calls, NEW kind, FailStep(c, kind)
    PROVE  TypeOK'
  <1>1. call' \in [Calls -> CallState]
    BY ReturnType DEF FailStep
  <1>2. mishap' \subseteq MishapKinds
    BY FaultsAssumption DEF FailStep, Fault, TypeOK, MishapKinds
  <1>3. QED
    BY <1>1, <1>2 DEF FailStep, TypeOK, header

\* Admitting a call touches only the call and the history.
LEMMA BeginType ==
    ASSUME TypeOK, NEW c \in Calls, NEW r \in CallState, Begin(c, r)
    PROVE  TypeOK'
  <1>1. call' \in [Calls -> CallState]
    BY DEF TypeOK, Begin
  <1>2. mishap' \subseteq MishapKinds
    BY DEF TypeOK, Begin, MishapKinds
  <1>3. QED
    BY <1>1, <1>2 DEF TypeOK, Begin, header

\* Every client call keeps the types.
LEMMA ClientCallType ==
    ASSUME TypeOK, NEW c \in Calls, ClientCall(c)
    PROVE  TypeOK'
  <1>1. Credentials \subseteq Secrets \cup TokenMethods \cup {NoSecret}
    BY DEF Credentials, Typeable, Secrets, TypeOK
  <1>2. Typeable \cup {NoSecret} \cup TokenMethods = Credentials
    BY DEF Credentials
  <1>3. \E r \in CallState : Begin(c, r)
    <2> USE <1>1, <1>2 DEF Request, CallState, CallRecord, WellFormed, Steps, Modalities, TypeOK
    <2>1. CASE VerifyPassphrase(c)
      BY <2>1 DEF VerifyPassphrase
    <2>2. CASE UnlockWithToken(c)
      BY <2>2 DEF UnlockWithToken
    <2>3. CASE EnrollFido2(c)
      BY <2>3 DEF EnrollFido2
    <2>4. CASE EnrollTpm2(c)
      BY <2>4 DEF EnrollTpm2
    <2>5. CASE EnrollRecoveryKey(c)
      BY <2>5 DEF EnrollRecoveryKey
    <2>6. CASE EnrollPassphrase(c)
      BY <2>6 DEF EnrollPassphrase
    <2>7. CASE WipeSlot(c)
      BY <2>7 DEF WipeSlot
    <2>8. CASE FormatPartition(c)
      BY <2>8 DEF FormatPartition, Secrets
    <2>9. QED
      BY <2>1, <2>2, <2>3, <2>4, <2>5, <2>6, <2>7, <2>8 DEF ClientCall
  <1>4. QED
    BY <1>3, BeginType

\* The steps of get_volume_key and of the two verify calls keep the types.
LEMMA KeyStepType ==
    ASSUME TypeOK, NEW c \in Calls, KeyStep(c)
    PROVE  TypeOK'
  <1>0. call[c] \in CallState
    BY DEF TypeOK
  <1>1. ASSUME NEW k \in Keys \cup {NoKey}, WithKey(c, k)
        PROVE  call' \in [Calls -> CallState]
    <2>1. CASE AfterKey(call[c].op) = "done"
      BY <1>1, <2>1, ReturnType DEF WithKey
    <2>2. CASE AfterKey(call[c].op) # "done"
      <3>1. call[c].op \in {"enroll", "wipe"}
        BY <2>2 DEF AfterKey
      <3>2. CASE call[c].op = "enroll"
        <4>1. Goto(c, [call[c] EXCEPT !.key = k], "add")
          BY <1>1, <3>2 DEF WithKey, AfterKey
        <4>2. [[call[c] EXCEPT !.key = k] EXCEPT !.pc = "add"] \in CallState
          BY <1>0, <1>1, <3>2 DEF CallState, CallRecord, WellFormed, Steps
        <4>3. QED
          BY <4>1, <4>2, GotoType
      <3>3. CASE call[c].op = "wipe"
        <4>1. Goto(c, [call[c] EXCEPT !.key = NoKey], "check")
          BY <1>1, <3>3 DEF WithKey, AfterKey
        <4>2. [[call[c] EXCEPT !.key = NoKey] EXCEPT !.pc = "check"] \in CallState
          BY <1>0, <3>3 DEF CallState, CallRecord, WellFormed, Steps
        <4>3. QED
          BY <4>1, <4>2, GotoType
      <3>4. QED
        BY <3>1, <3>2, <3>3
    <2>3. QED
      BY <2>1, <2>2
  <1>2. CASE GetVolumeKeyHit(c)
    <2>1. CachedVolumeKey(call[c].proc) \in Keys \cup {NoKey}
      BY <1>0 DEF CachedVolumeKey, TypeOK, CallState, CallRecord
    <2>2. call' \in [Calls -> CallState]
      BY <1>1, <1>2, <2>1 DEF GetVolumeKeyHit
    <2>3. QED
      BY <1>2, <2>2 DEF GetVolumeKeyHit, TypeOK, header
  <1>3. CASE GetVolumeKeyMiss(c)
    <2>1. \A pc \in {"derive", "extract"} : [call[c] EXCEPT !.pc = pc] \in CallState
      BY <1>0, <1>3 DEF GetVolumeKeyMiss, CallState, CallRecord, WellFormed, Steps
    <2>2. call' \in [Calls -> CallState]
      BY <1>3, <2>1, GotoType DEF GetVolumeKeyMiss
    <2>3. cache' \in [Procs -> [key : Keys \cup {NoKey}, fresh : BOOLEAN]]
      BY <1>3 DEF GetVolumeKeyMiss, TypeOK, NoEntry
    <2>4. QED
      BY <1>3, <2>2, <2>3 DEF GetVolumeKeyMiss, TypeOK, header
  <1>4. CASE DerivePassphraseFromToken(c)
    <2>1. ASSUME NEW t \in TokensOfType(call[c].cred),
                 Goto(c, [call[c] EXCEPT !.cred = tokens[t].secret], "extract")
          PROVE  call' \in [Calls -> CallState]
      <3>1. tokens[t].secret \in Secrets \cup {NoSecret}
        BY <2>1 DEF TokensOfType, TypeOK, Token, Secrets
      <3>2. [[call[c] EXCEPT !.cred = tokens[t].secret] EXCEPT !.pc = "extract"] \in CallState
        BY <1>0, <1>4, <3>1
        DEF DerivePassphraseFromToken, CallState, CallRecord, WellFormed, Steps
      <3>3. QED
        BY <2>1, <3>2, GotoType
    <2>2. CASE FailStep(c, "device")
      BY <2>2, FailStepType
    <2>3. CASE ~FailStep(c, "device")
      <3>1. call' \in [Calls -> CallState]
        BY <1>4, <2>1, <2>3, ReturnType DEF DerivePassphraseFromToken
      <3>2. QED
        BY <1>4, <2>3, <3>1 DEF DerivePassphraseFromToken, TypeOK, header
    <2>4. QED
      BY <2>2, <2>3
  <1>5. CASE ExtractVolumeKey(c)
    <2>0. call[c].pc = "extract" /\ vk \in Keys \cup {NoKey}
      BY <1>5 DEF ExtractVolumeKey, TypeOK
    <2> DEFINE r == [[call[c] EXCEPT !.key = vk] EXCEPT !.pc = "fill"]
    <2>a. r \in CallRecord
      BY <1>0, <2>0 DEF CallState, CallRecord, Steps
    <2>b. WellFormed(r)
      BY <1>0, <2>0 DEF CallState, CallRecord, WellFormed, Steps
    <2>1. r \in CallState
      BY <2>a, <2>b DEF CallState
    <2>2. CASE FailStep(c, "read")
      BY <2>2, FailStepType
    <2>3. CASE ~FailStep(c, "read")
      <3>1. call' \in [Calls -> CallState]
        BY <1>5, <2>1, <2>3, GotoType, ReturnType DEF ExtractVolumeKey
      <3>2. QED
        BY <1>5, <2>3, <3>1 DEF ExtractVolumeKey, TypeOK, header
    <2>4. QED
      BY <2>2, <2>3
  <1>6. CASE CacheVolumeKey(c)
    <2>1. call[c].key \in Keys \cup {NoKey}
      BY <1>0 DEF CallState, CallRecord
    <2>2. call' \in [Calls -> CallState]
      BY <1>1, <1>6, <2>1 DEF CacheVolumeKey
    <2>3. cache' \in [Procs -> [key : Keys \cup {NoKey}, fresh : BOOLEAN]]
      BY <1>6, <2>1 DEF CacheVolumeKey, TypeOK
    <2>4. QED
      BY <1>6, <2>2, <2>3 DEF CacheVolumeKey, TypeOK, header
  <1>7. QED
    BY <1>2, <1>3, <1>4, <1>5, <1>6 DEF KeyStep

\* Adding a keyslot with a secret keeps the keyslots well-formed.
LEMMA AddSlotType ==
    ASSUME TypeOK, NEW s \in FreeSlots, NEW x \in Secrets,
           keyslots' = [n \in DOMAIN keyslots \cup {s} |-> IF n = s THEN x ELSE keyslots[n]]
    PROVE  /\ DOMAIN keyslots' \subseteq Slots
           /\ keyslots' \in [DOMAIN keyslots' -> Secrets]
  BY DEF TypeOK, FreeSlots

\* The enrollment steps keep the types.
LEMMA EnrollStepType ==
    ASSUME TypeOK, NEW c \in Calls,
           CheckNotEnrolled(c) \/ Prepare(c) \/ AddKeyslotByVolumeKey(c) \/ SetToken(c)
    PROVE  TypeOK'
  <1>0. call[c] \in CallState
    BY DEF TypeOK
  <1>1. CASE CheckNotEnrolled(c)
    <2>1. [call[c] EXCEPT !.pc = "prepare"] \in CallState
      BY <1>0, <1>1 DEF CheckNotEnrolled, CallState, CallRecord, WellFormed, Steps
    <2>2. call' \in [Calls -> CallState]
      BY <1>1, <2>1, GotoType, ReturnType DEF CheckNotEnrolled
    <2>3. mishap' \subseteq MishapKinds
      BY <1>1, FaultsAssumption DEF CheckNotEnrolled, Fault, TypeOK, MishapKinds
    <2>4. QED
      BY <1>1, <2>2, <2>3 DEF CheckNotEnrolled, TypeOK, header
  <1>2. CASE Prepare(c)
    <2>1. CASE FailStep(c, "device")
      BY <2>1, FailStepType
    <2>2. CASE ~FailStep(c, "device")
      <3>1. [call[c] EXCEPT !.pc = "getkey"] \in CallState
        BY <1>0, <1>2 DEF Prepare, CallState, CallRecord, WellFormed, Steps
      <3>2. call' \in [Calls -> CallState]
        BY <1>2, <2>2, <3>1, GotoType DEF Prepare
      <3>3. QED
        BY <1>2, <2>2, <3>2 DEF Prepare, TypeOK, header
    <2>3. QED
      BY <2>1, <2>2
  <1>3. CASE AddKeyslotByVolumeKey(c)
    <2>1. CASE FailStep(c, "write")
      BY <2>1, FailStepType
    <2>2. CASE Return(c) /\ UNCHANGED <<header, cache, proc, returned, mishap>>
      BY <2>2, ReturnType DEF TypeOK, header
    <2>3. ASSUME NEW s \in FreeSlots,
                 keyslots' = [n \in DOMAIN keyslots \cup {s} |->
                                IF n = s THEN NewSecret(c) ELSE keyslots[n]],
                 IF call[c].by \in Passphrases
                 THEN Return(c)
                 ELSE Goto(c, [call[c] EXCEPT !.slot = s, !.key = NoKey], "settoken"),
                 UNCHANGED <<vk, tokens, cache, proc, returned, mishap>>
          PROVE  TypeOK'
      <3>1. NewSecret(c) \in Secrets
        BY DEF NewSecret, Secrets
      <3>2. [[call[c] EXCEPT !.slot = s, !.key = NoKey] EXCEPT !.pc = "settoken"] \in CallState
        BY <1>0, <1>3
        DEF AddKeyslotByVolumeKey, CallState, CallRecord, WellFormed, Steps, FreeSlots
      <3>3. call' \in [Calls -> CallState]
        BY <2>3, <3>2, GotoType, ReturnType
      <3>4. QED
        BY <2>3, <3>1, <3>3, AddSlotType DEF TypeOK
    <2>4. QED
      BY <1>3, <2>1, <2>2, <2>3 DEF AddKeyslotByVolumeKey
  <1>4. CASE SetToken(c)
    <2>1. CASE FailStep(c, "write")
      BY <2>1, FailStepType
    <2>2. CASE Return(c) /\ UNCHANGED <<header, cache, proc, returned, mishap>>
      BY <2>2, ReturnType DEF TypeOK, header
    <2>3. ASSUME call[c].slot \in DOMAIN keyslots,
                 NEW t \in FreeTokens,
                 tokens' = [n \in DOMAIN tokens \cup {t} |->
                              IF n = t THEN NewToken(c, call[c].slot) ELSE tokens[n]],
                 returned' = IF call[c].by = "recovery" /\ call[c].reply = "awaited"
                             THEN returned \cup {c} ELSE returned,
                 Return(c),
                 UNCHANGED <<vk, keyslots, cache, proc, mishap>>
          PROVE  TypeOK'
      <3>1. call[c].by \in Modalities
        BY <1>0, <1>4 DEF SetToken, CallState, CallRecord, WellFormed
      <3>2. NewToken(c, call[c].slot) \in Token
        BY <2>3, <3>1 DEF NewToken, Token, TypeOK
      <3>3. /\ DOMAIN tokens' \subseteq TokenIds
            /\ tokens' \in [DOMAIN tokens' -> Token]
        BY <2>3, <3>2 DEF TypeOK, FreeTokens
      <3>4. returned' \subseteq Calls
        BY <2>3 DEF TypeOK
      <3>5. call' \in [Calls -> CallState]
        BY <2>3, ReturnType
      <3>6. QED
        BY <2>3, <3>3, <3>4, <3>5 DEF TypeOK
    <2>4. QED
      BY <1>4, <2>1, <2>2, <2>3 DEF SetToken
  <1>5. QED
    BY <1>1, <1>2, <1>3, <1>4

\* The steps of a wipe keep the types.
LEMMA WipeStepType ==
    ASSUME TypeOK, NEW c \in Calls,
           \/ CheckLastKeyslot(c) \/ FindTokenForKeyslot(c)
           \/ RemoveToken(c) \/ DestroyKeyslot(c)
    PROVE  TypeOK'
  <1>0. call[c] \in CallState
    BY DEF TypeOK
  <1>1. CASE CheckLastKeyslot(c)
    <2>1. [call[c] EXCEPT !.pc = "findtoken"] \in CallState
      BY <1>0, <1>1 DEF CheckLastKeyslot, CallState, CallRecord, WellFormed, Steps
    <2>2. call' \in [Calls -> CallState]
      BY <1>1, <2>1, GotoType, ReturnType DEF CheckLastKeyslot
    <2>3. mishap' \subseteq MishapKinds
      BY <1>1, FaultsAssumption DEF CheckLastKeyslot, Fault, TypeOK, MishapKinds
    <2>4. QED
      BY <1>1, <2>2, <2>3 DEF CheckLastKeyslot, TypeOK, header
  <1>2. CASE FindTokenForKeyslot(c)
    <2>1. [call[c] EXCEPT !.pc = "destroy"] \in CallState
      BY <1>0, <1>2 DEF FindTokenForKeyslot, CallState, CallRecord, WellFormed, Steps
    <2>2. \A t \in DOMAIN tokens :
             [[call[c] EXCEPT !.tok = t] EXCEPT !.pc = "rmtoken"] \in CallState
      BY <1>0, <1>2 DEF FindTokenForKeyslot, CallState, CallRecord, WellFormed, Steps, TypeOK
    <2>3. call' \in [Calls -> CallState]
      BY <1>2, <2>1, <2>2, GotoType DEF FindTokenForKeyslot
    <2>4. mishap' \subseteq MishapKinds
      BY <1>2, FaultsAssumption DEF FindTokenForKeyslot, Fault, TypeOK, MishapKinds
    <2>5. QED
      BY <1>2, <2>3, <2>4 DEF FindTokenForKeyslot, TypeOK, header
  <1>3. CASE RemoveToken(c)
    <2>1. CASE FailStep(c, "write")
      BY <2>1, FailStepType
    <2>2. CASE Return(c) /\ UNCHANGED <<header, cache, proc, returned, mishap>>
      BY <2>2, ReturnType DEF TypeOK, header
    <2>3. CASE /\ tokens' = [t \in DOMAIN tokens \ {call[c].tok} |-> tokens[t]]
               /\ Goto(c, call[c], "destroy")
               /\ UNCHANGED <<vk, keyslots, cache, proc, returned, mishap>>
      <3>1. [call[c] EXCEPT !.pc = "destroy"] \in CallState
        BY <1>0, <1>3 DEF RemoveToken, CallState, CallRecord, WellFormed, Steps
      <3>2. call' \in [Calls -> CallState]
        BY <2>3, <3>1, GotoType
      <3>3. QED
        BY <2>3, <3>2 DEF TypeOK
    <2>4. QED
      BY <1>3, <2>1, <2>2, <2>3 DEF RemoveToken
  <1>4. CASE DestroyKeyslot(c)
    <2>1. CASE FailStep(c, "write")
      BY <2>1, FailStepType
    <2>2. CASE Return(c) /\ UNCHANGED <<header, cache, proc, returned, mishap>>
      BY <2>2, ReturnType DEF TypeOK, header
    <2>3. CASE /\ keyslots' = [s \in DOMAIN keyslots \ {call[c].slot} |-> keyslots[s]]
               /\ tokens' = [t \in DOMAIN tokens |->
                               [tokens[t] EXCEPT !.slots = @ \ {call[c].slot}]]
               /\ Return(c)
               /\ UNCHANGED <<vk, cache, proc, returned, mishap>>
      <3>1. call' \in [Calls -> CallState]
        BY <2>3, ReturnType
      <3>2. \A t \in DOMAIN tokens :
               [tokens[t] EXCEPT !.slots = @ \ {call[c].slot}] \in Token
        BY DEF TypeOK, Token
      <3>3. DOMAIN tokens' \subseteq TokenIds /\ tokens' \in [DOMAIN tokens' -> Token]
        BY <2>3, <3>2 DEF TypeOK
      <3>4. QED
        BY <2>3, <3>1, <3>3 DEF TypeOK
    <2>4. QED
      BY <1>4, <2>1, <2>2, <2>3 DEF DestroyKeyslot
  <1>5. QED
    BY <1>1, <1>2, <1>3, <1>4

\* The steps of a format keep the types.
LEMMA FormatStepType ==
    ASSUME TypeOK, NEW c \in Calls,
           WipeSignatures(c) \/ FormatLuks2(c) \/ SeedPassphrase(c)
    PROVE  TypeOK'
  <1>0. call[c] \in CallState
    BY DEF TypeOK
  <1>1. CASE WipeSignatures(c)
    <2>1. CASE FailStep(c, "write")
      BY <2>1, FailStepType
    <2>2. CASE ~FailStep(c, "write")
      <3>1. [call[c] EXCEPT !.pc = "format"] \in CallState
        BY <1>0, <1>1 DEF WipeSignatures, CallState, CallRecord, WellFormed, Steps
      <3>2. call' \in [Calls -> CallState]
        BY <1>1, <2>2, <3>1, GotoType DEF WipeSignatures
      <3>3. /\ vk' \in Keys \cup {NoKey}
            /\ DOMAIN keyslots' \subseteq Slots /\ keyslots' \in [DOMAIN keyslots' -> Secrets]
            /\ DOMAIN tokens' \subseteq TokenIds /\ tokens' \in [DOMAIN tokens' -> Token]
        BY <1>1, <2>2 DEF WipeSignatures, TypeOK, header
      <3>4. QED
        BY <1>1, <2>2, <3>2, <3>3 DEF WipeSignatures, TypeOK
    <2>3. QED
      BY <2>1, <2>2
  <1>2. CASE FormatLuks2(c)
    <2>1. CASE FailStep(c, "write")
      BY <2>1, FailStepType
    <2>2. CASE ~FailStep(c, "write")
      <3>0. call[c].pc = "format" /\ c \in Keys
        BY <1>2 DEF FormatLuks2, Keys
      <3>1. [[call[c] EXCEPT !.key = c] EXCEPT !.pc = "fill"] \in CallState
        BY <1>0, <3>0 DEF CallState, CallRecord, WellFormed, Steps
      <3>2. ASSUME call[c].cred # NoSecret
            PROVE  [[call[c] EXCEPT !.key = c] EXCEPT !.pc = "seed"] \in CallState
        BY <1>0, <3>0, <3>2 DEF CallState, CallRecord, WellFormed, Steps
      <3>3. call' \in [Calls -> CallState]
        BY <1>2, <2>2, <3>1, <3>2, GotoType DEF FormatLuks2
      <3>4. QED
        BY <1>2, <2>2, <3>3 DEF FormatLuks2, TypeOK, Keys
    <2>3. QED
      BY <2>1, <2>2
  <1>3. CASE SeedPassphrase(c)
    <2>1. CASE FailStep(c, "write")
      BY <2>1, FailStepType
    <2>2. CASE Return(c) /\ UNCHANGED <<header, cache, proc, returned, mishap>>
      BY <2>2, ReturnType DEF TypeOK, header
    <2>3. ASSUME NEW s \in FreeSlots,
                 keyslots' = [n \in DOMAIN keyslots \cup {s} |->
                                IF n = s THEN call[c].cred ELSE keyslots[n]],
                 Return(c),
                 UNCHANGED <<vk, tokens, cache, proc, returned, mishap>>
          PROVE  TypeOK'
      <3>1. call[c].cred \in Secrets
        BY <1>0, <1>3 DEF SeedPassphrase, CallState, CallRecord, WellFormed, Secrets
      <3>2. call' \in [Calls -> CallState]
        BY <2>3, ReturnType
      <3>3. QED
        BY <2>3, <3>1, <3>2, AddSlotType DEF TypeOK
    <2>4. QED
      BY <1>3, <2>1, <2>2, <2>3 DEF SeedPassphrase
  <1>4. QED
    BY <1>1, <1>2, <1>3

\* The passing of time, lost replies and the end of a process keep the types.
LEMMA EnvironmentType ==
    ASSUME TypeOK,
           \/ \E c \in Calls : LoseReply(c)
           \/ \E p \in Procs : Expire(p)
           \/ ServiceExit
           \/ ServiceKilled
    PROVE  TypeOK'
  <1>1. ASSUME NEW c \in Calls, LoseReply(c) PROVE TypeOK'
    <2>1. [call[c] EXCEPT !.reply = "lost"] \in CallState
      BY DEF TypeOK, CallState, CallRecord, WellFormed
    <2>2. mishap' \subseteq MishapKinds
      BY <1>1, FaultsAssumption DEF LoseReply, Fault, TypeOK, MishapKinds
    <2>3. QED
      BY <1>1, <2>1, <2>2 DEF LoseReply, TypeOK, header
  <1>2. ASSUME NEW p \in Procs, Expire(p) PROVE TypeOK'
    BY <1>2 DEF Expire, TypeOK, header
  <1>3. CASE ServiceExit
    <2>1. \A c \in Calls : [call[c] EXCEPT !.reply = "lost"] \in CallState
      BY DEF TypeOK, CallState, CallRecord, WellFormed
    <2>2. mishap' \subseteq MishapKinds
      BY <1>3, FaultsAssumption DEF ServiceExit, Fault, TypeOK, MishapKinds
    <2>3. proc' \in Procs
      BY <1>3, BoundsAssumption DEF ServiceExit, TypeOK, Procs
    <2>4. QED
      BY <1>3, <2>1, <2>2, <2>3 DEF ServiceExit, TypeOK, header
  <1>4. CASE ServiceKilled
    <2>1. mishap' \subseteq MishapKinds
      BY <1>4, FaultsAssumption DEF ServiceKilled, Fault, TypeOK, MishapKinds
    <2>2. proc' \in Procs
      BY <1>4, BoundsAssumption DEF ServiceKilled, TypeOK, Procs
    <2>3. call' \in [Calls -> CallState]
      BY <1>4, BlankType DEF ServiceKilled, TypeOK
    <2>4. cache' \in [Procs -> [key : Keys \cup {NoKey}, fresh : BOOLEAN]]
      BY <1>4 DEF ServiceKilled, TypeOK, NoEntry
    <2>5. QED
      BY <1>4, <2>1, <2>2, <2>3, <2>4 DEF ServiceKilled, TypeOK, header
  <1>5. QED
    BY <1>1, <1>2, <1>3, <1>4

\* The initial states are well typed.
LEMMA InitType == Init => TypeOK
  <1> SUFFICES ASSUME Init PROVE TypeOK
    OBVIOUS
  <1>1. DOMAIN keyslots \subseteq Slots /\ keyslots \in [DOMAIN keyslots -> Secrets]
    <2>1. CASE keyslots = [s \in {} |-> NoSecret]
      BY <2>1
    <2>2. ASSUME NEW p \in Passphrases, keyslots = [s \in {0} |-> p]
          PROVE  DOMAIN keyslots \subseteq Slots /\ keyslots \in [DOMAIN keyslots -> Secrets]
      BY <2>2, BoundsAssumption DEF Slots, Secrets
    <2>3. QED
      BY <2>1, <2>2 DEF Init
  <1>2. call \in [Calls -> CallState]
    BY BlankType DEF Init
  <1>3. vk \in Keys \cup {NoKey}
    BY DEF Init, Keys
  <1>4. QED
    BY <1>1, <1>2, <1>3, BoundsAssumption DEF Init, TypeOK, NoEntry, Procs

\* Every step keeps the types.
LEMMA NextType == TypeOK /\ [Next]_vars => TypeOK'
  <1> SUFFICES ASSUME TypeOK, [Next]_vars PROVE TypeOK'
    OBVIOUS
  <1>1. ASSUME NEW c \in Calls, ClientCall(c) PROVE TypeOK'
    BY <1>1, ClientCallType
  <1>2. ASSUME NEW c \in Calls, HandlerStep(c) PROVE TypeOK'
    BY <1>2, KeyStepType, EnrollStepType, WipeStepType, FormatStepType DEF HandlerStep
  <1>3. CASE UNCHANGED vars
    BY <1>3 DEF vars, TypeOK
  <1>4. QED
    BY <1>1, <1>2, <1>3, EnvironmentType DEF Next

\* TypeOK is an invariant of the service: the header holds only allocated slots and token
\* ids, and each handler is at a step of its own operation with what that step needs.
THEOREM TypeCorrect == Spec => []TypeOK
  BY InitType, NextType, PTL DEF Spec

-----------------------------------------------------------------------------
(* Provenance of keys and processes *)

\* What a step of call c may do to the table of calls: finish c, or move it on within its
\* operation and its process; it leaves the other calls alone.
Advances(c) ==
    /\ \A d \in Calls : d # c => call'[d] = call[d]
    /\ \/ call'[c] = Blank("done")
       \/ /\ call'[c].pc \in Steps
          /\ call'[c].proc = call[c].proc
          /\ call'[c].op = call[c].op

LEMMA ReturnAdvances ==
    ASSUME TypeOK, NEW c \in Calls, Return(c)
    PROVE  Advances(c) /\ call'[c] = Blank("done")
  BY DEF TypeOK, Return, Advances

\* Every step of a handler advances its call, and nothing but process ends moves proc.
LEMMA HandlerAdvances ==
    ASSUME TypeOK, NEW c \in Calls, HandlerStep(c)
    PROVE  proc' = proc /\ c \in InFlight /\ Advances(c)
  <1>0. call[c] \in CallRecord /\ call \in [Calls -> CallState]
    BY DEF TypeOK, CallState
  <1>1. proc' = proc /\ c \in InFlight
    BY DEF HandlerStep, KeyStep, GetVolumeKeyHit, GetVolumeKeyMiss, DerivePassphraseFromToken,
           ExtractVolumeKey, CacheVolumeKey, CheckNotEnrolled, Prepare, AddKeyslotByVolumeKey,
           SetToken, CheckLastKeyslot, FindTokenForKeyslot, RemoveToken, DestroyKeyslot,
           WipeSignatures, FormatLuks2, SeedPassphrase, FailStep, InFlight, Steps
  <1>2. SUFFICES Advances(c)
    BY <1>1
  <1>3. CASE Return(c)
    BY <1>3, ReturnAdvances
  <1>4. CASE ~Return(c)
    <2>1. ASSUME NEW pc \in Steps, Goto(c, call[c], pc) PROVE Advances(c)
      BY <1>0, <2>1 DEF Goto, CallRecord, Advances
    <2>2. ASSUME NEW k, NEW pc \in Steps, Goto(c, [call[c] EXCEPT !.key = k], pc)
          PROVE  Advances(c)
      BY <1>0, <2>2 DEF Goto, CallRecord, Advances
    <2>3. ASSUME NEW x, NEW pc \in Steps, Goto(c, [call[c] EXCEPT !.cred = x], pc)
          PROVE  Advances(c)
      BY <1>0, <2>3 DEF Goto, CallRecord, Advances
    <2>4. ASSUME NEW s, NEW pc \in Steps,
                 Goto(c, [call[c] EXCEPT !.slot = s, !.key = NoKey], pc)
          PROVE  Advances(c)
      BY <1>0, <2>4 DEF Goto, CallRecord, Advances
    <2>5. ASSUME NEW t, NEW pc \in Steps, Goto(c, [call[c] EXCEPT !.tok = t], pc)
          PROVE  Advances(c)
      BY <1>0, <2>5 DEF Goto, CallRecord, Advances
    <2>6. ASSUME NEW k, WithKey(c, k) PROVE Advances(c)
      <3>1. AfterKey(call[c].op) = "done" \/ AfterKey(call[c].op) \in Steps
        BY DEF AfterKey, Steps
      <3>2. QED
        BY <1>4, <2>2, <2>6, <3>1 DEF WithKey
    <2>7. CASE KeyStep(c)
      BY <1>4, <2>1, <2>3, <2>2, <2>6, <2>7
      DEF KeyStep, GetVolumeKeyHit, CacheVolumeKey, GetVolumeKeyMiss,
          DerivePassphraseFromToken, ExtractVolumeKey, FailStep, Steps
    <2>8. CASE CheckNotEnrolled(c) \/ Prepare(c) \/ AddKeyslotByVolumeKey(c) \/ SetToken(c)
      BY <1>4, <2>1, <2>4, <2>8
      DEF CheckNotEnrolled, Prepare, AddKeyslotByVolumeKey, SetToken, FailStep, Steps
    <2>9. CASE \/ CheckLastKeyslot(c) \/ FindTokenForKeyslot(c)
               \/ RemoveToken(c) \/ DestroyKeyslot(c)
      BY <1>4, <2>1, <2>5, <2>9
      DEF CheckLastKeyslot, FindTokenForKeyslot, RemoveToken, DestroyKeyslot, FailStep, Steps
    <2>10. CASE WipeSignatures(c) \/ FormatLuks2(c) \/ SeedPassphrase(c)
      BY <1>4, <2>1, <2>2, <2>10
      DEF WipeSignatures, FormatLuks2, SeedPassphrase, FailStep, Steps
    <2>11. QED
      BY <2>7, <2>8, <2>9, <2>10 DEF HandlerStep
  <1>5. QED
    BY <1>3, <1>4

\* Admitting a call sets it up with the process that owns the bus name, and empty-handed.
LEMMA ClientCallAdmits ==
    ASSUME TypeOK, NEW c \in Calls, ClientCall(c)
    PROVE  /\ UNCHANGED <<header, cache, proc>>
           /\ call[c].pc = "new"
           /\ \A d \in Calls : d # c => call'[d] = call[d]
           /\ call'[c].pc \in Steps /\ call'[c].proc = proc /\ call'[c].key = NoKey
  <1>1. ASSUME NEW op, NEW pc \in Steps, NEW by, NEW cred, NEW slot,
               Begin(c, Request(op, pc, by, cred, slot))
        PROVE  /\ UNCHANGED <<header, cache, proc>>
               /\ call[c].pc = "new"
               /\ \A d \in Calls : d # c => call'[d] = call[d]
               /\ call'[c].pc \in Steps /\ call'[c].proc = proc /\ call'[c].key = NoKey
    BY <1>1 DEF Begin, Request, TypeOK
  <1>2. \E op, by, cred, slot : \E pc \in Steps : Begin(c, Request(op, pc, by, cred, slot))
    BY DEF ClientCall, VerifyPassphrase, UnlockWithToken, EnrollFido2, EnrollTpm2,
           EnrollRecoveryKey, EnrollPassphrase, WipeSlot, FormatPartition, Steps
  <1>3. QED
    BY <1>1, <1>2

\* A handler touches the cache of its own process only.
LEMMA HandlerCache ==
    ASSUME TypeOK, NEW c \in Calls, HandlerStep(c)
    PROVE  \A p \in Procs : p # call[c].proc => cache'[p] = cache[p]
  BY DEF TypeOK, HandlerStep, KeyStep, GetVolumeKeyHit, GetVolumeKeyMiss,
         DerivePassphraseFromToken, ExtractVolumeKey, CacheVolumeKey, CheckNotEnrolled,
         Prepare, AddKeyslotByVolumeKey, SetToken, CheckLastKeyslot, FindTokenForKeyslot,
         RemoveToken, DestroyKeyslot, WipeSignatures, FormatLuks2, SeedPassphrase, FailStep

\* Only crypt_format gives the device a new key, the key of the call that runs it.
LEMMA HandlerKey ==
    ASSUME TypeOK, NEW c \in Calls, HandlerStep(c), vk' # vk, vk' # NoKey
    PROVE  vk' = c /\ call'[c].op = "format" /\ call'[c].pc \in {"fill", "seed"}
  <1>1. CASE FormatLuks2(c)
    <2>1. vk' = c /\ Goto(c, [call[c] EXCEPT !.key = c],
                          IF call[c].cred = NoSecret THEN "fill" ELSE "seed")
      BY <1>1 DEF FormatLuks2, FailStep, header
    <2>2. call[c] \in CallRecord /\ call[c].op = "format"
      BY <1>1 DEF FormatLuks2, TypeOK, CallState, WellFormed
    <2>3. QED
      BY <2>1, <2>2 DEF Goto, CallRecord, TypeOK
  <1>2. CASE ~FormatLuks2(c)
    BY <1>2 DEF HandlerStep, KeyStep, GetVolumeKeyHit, GetVolumeKeyMiss,
         DerivePassphraseFromToken, ExtractVolumeKey, CacheVolumeKey, CheckNotEnrolled,
         Prepare, AddKeyslotByVolumeKey, SetToken, CheckLastKeyslot, FindTokenForKeyslot,
         RemoveToken, DestroyKeyslot, WipeSignatures, SeedPassphrase, FailStep, header
  <1>3. QED
    BY <1>1, <1>2

\* The steps after crypt_format end the call.
LEMMA FormatTail ==
    ASSUME TypeOK, NEW c \in Calls, HandlerStep(c),
           call[c].op = "format", call[c].pc \in {"fill", "seed"}
    PROVE  call'[c].pc = "done"
  <1>1. SUFFICES Return(c)
    BY ReturnAdvances DEF Blank
  <1>2. CacheVolumeKey(c) \/ SeedPassphrase(c)
    BY DEF HandlerStep, KeyStep, GetVolumeKeyHit, GetVolumeKeyMiss,
         DerivePassphraseFromToken, ExtractVolumeKey, CheckNotEnrolled,
         Prepare, AddKeyslotByVolumeKey, SetToken, CheckLastKeyslot, FindTokenForKeyslot,
         RemoveToken, DestroyKeyslot, WipeSignatures, FormatLuks2
  <1>3. QED
    BY <1>2 DEF CacheVolumeKey, SeedPassphrase, WithKey, AfterKey, FailStep

\* Provenance holds throughout.
LEMMA ProvenanceStep == TypeOK /\ Provenance /\ [Next]_vars => Provenance'
  <1> SUFFICES ASSUME TypeOK, Provenance, [Next]_vars PROVE Provenance'
    OBVIOUS
  <1>0. proc \in Nat /\ Procs \subseteq Nat /\ \A c \in Calls : call[c].proc \in Procs
    BY DEF TypeOK, Procs, CallState, CallRecord
  <1>1. ASSUME NEW c \in Calls, ClientCall(c) PROVE Provenance'
    <2>1. \A d \in Calls : call'[d].proc <= proc
      BY <1>0, <1>1, ClientCallAdmits DEF Provenance
    <2>2. \A d \in Calls : vk' = d => \/ call'[d].pc = "done"
                                      \/ call'[d].op = "format" /\ call'[d].pc \in {"fill", "seed"}
      BY <1>1, ClientCallAdmits DEF Provenance, header
    <2>3. QED
      BY <1>1, <2>1, <2>2, ClientCallAdmits DEF Provenance, header
  <1>2. ASSUME NEW c \in Calls, HandlerStep(c) PROVE Provenance'
    <2>1. proc' = proc /\ Advances(c)
      BY <1>2, HandlerAdvances
    <2>2. \A p \in Procs : p > proc => cache'[p] = NoEntry
      BY <1>0, <1>2, HandlerCache DEF Provenance
    <2>3. \A d \in Calls : call'[d].proc <= proc
      BY <1>0, <2>1 DEF Provenance, Advances, Blank, TypeOK, Procs
    <2>4. ASSUME NEW d \in Calls, vk' = d
          PROVE  \/ call'[d].pc = "done"
                 \/ call'[d].op = "format" /\ call'[d].pc \in {"fill", "seed"}
      <3>1. CASE vk' # vk
        BY <1>2, <2>4, <3>1, HandlerKey, KeysAssumption
      <3>2. CASE vk' = vk /\ d # c
        BY <2>1, <2>4, <3>2 DEF Provenance, Advances
      <3>3. CASE vk' = vk /\ d = c
        <4>1. c \in InFlight
          BY <1>2, HandlerAdvances
        <4>2. call[c].op = "format" /\ call[c].pc \in {"fill", "seed"}
          BY <2>4, <3>3, <4>1 DEF Provenance, InFlight, Steps
        <4>3. QED
          BY <1>2, <3>3, <4>2, FormatTail
      <3>4. QED
        BY <3>1, <3>2, <3>3
    <2>5. QED
      BY <2>1, <2>2, <2>3, <2>4 DEF Provenance
  <1>3. ASSUME NEW c \in Calls, LoseReply(c) PROVE Provenance'
    <2>1. call'[c].proc = call[c].proc /\ call'[c].op = call[c].op /\ call'[c].pc = call[c].pc
      BY <1>3 DEF LoseReply, TypeOK, CallState, CallRecord
    <2>2. \A d \in Calls : d # c => call'[d] = call[d]
      BY <1>3 DEF LoseReply, TypeOK
    <2>3. UNCHANGED <<vk, cache, proc>>
      BY <1>3 DEF LoseReply, header
    <2>4. QED
      BY <2>1, <2>2, <2>3 DEF Provenance
  <1>4. ASSUME NEW p \in Procs, Expire(p) PROVE Provenance'
    <2>1. UNCHANGED <<vk, call, proc>>
      BY <1>4 DEF Expire, header
    <2>2. cache[p] # NoEntry
      BY <1>4 DEF Expire, NoEntry
    <2>3. \A q \in Procs : q # p => cache'[q] = cache[q]
      BY <1>4 DEF Expire, TypeOK
    <2>4. QED
      BY <2>1, <2>2, <2>3 DEF Provenance
  <1>5. CASE ServiceExit
    <2>1. \A d \in Calls : /\ call'[d].proc = call[d].proc
                           /\ call'[d].op = call[d].op
                           /\ call'[d].pc = call[d].pc
      BY <1>5 DEF ServiceExit, TypeOK, CallState, CallRecord
    <2>2. UNCHANGED <<vk, cache>> /\ proc' = proc + 1
      BY <1>5 DEF ServiceExit, header
    <2>3. \A p \in Procs : p > proc' => cache'[p] = NoEntry
      BY <1>0, <2>2 DEF Provenance
    <2>4. \A d \in Calls : call'[d].proc <= proc'
      BY <1>0, <2>1, <2>2 DEF Provenance, TypeOK, Procs
    <2>5. \A d \in Calls : vk' = d => \/ call'[d].pc = "done"
                                      \/ call'[d].op = "format" /\ call'[d].pc \in {"fill", "seed"}
      BY <2>1, <2>2 DEF Provenance
    <2>6. QED
      BY <2>3, <2>4, <2>5 DEF Provenance
  <1>6. CASE ServiceKilled
    <2>1. \A d \in Calls : call'[d] = call[d] \/ call'[d] = Blank("done")
      BY <1>6 DEF ServiceKilled
    <2>2. UNCHANGED vk /\ proc' = proc + 1
      BY <1>6 DEF ServiceKilled, header
    <2>3. \A p \in Procs : p > proc' => cache'[p] = NoEntry
      BY <1>0, <1>6, <2>2 DEF ServiceKilled, Provenance, TypeOK
    <2>4. \A d \in Calls : call'[d].proc <= proc'
      BY <1>0, <2>1, <2>2 DEF Provenance, Blank, TypeOK, Procs
    <2>5. \A d \in Calls : vk' = d => \/ call'[d].pc = "done"
                                      \/ call'[d].op = "format" /\ call'[d].pc \in {"fill", "seed"}
      BY <2>1, <2>2 DEF Provenance, Blank
    <2>6. QED
      BY <2>3, <2>4, <2>5 DEF Provenance
  <1>7. CASE UNCHANGED vars
    BY <1>7 DEF vars, Provenance
  <1>8. QED
    BY <1>1, <1>2, <1>3, <1>4, <1>5, <1>6, <1>7 DEF Next

\* Keys come from where they should: no process has cached anything, and no call is at
\* work, before its time, and a device carries call c's key only once c has formatted it.
THEOREM KeyProvenance == Spec => []Provenance
  <1>1. Init => Provenance
    BY KeysAssumption DEF Init, Provenance, Blank, NoEntry
  <1>2. QED
    BY <1>1, TypeCorrect, ProvenanceStep, PTL DEF Spec

-----------------------------------------------------------------------------
(* Custody of the volume key *)

\* A process that serves a call of c is in memory.
LEMMA ServingIsAlive ==
    ASSUME NEW c \in InFlight
    PROVE  Alive(call[c].proc)
  BY DEF Alive

NoSlots == [s \in {} |-> NoSecret]

\* What a handler's step may do to the header and to the key its call has in hand: carry
\* on with the key it had, or one it found cached; take the key out of a keyslot; use it up
\* in adding a keyslot; destroy a keyslot; erase the header; make a new key.
KeyFlow(c) ==
    \/ /\ UNCHANGED <<vk, keyslots>>
       /\ call'[c].key \in {NoKey, call[c].key, CachedVolumeKey(call[c].proc)}
    \/ /\ UNCHANGED <<vk, keyslots>>
       /\ call'[c].key = vk /\ DOMAIN keyslots # {}
    \/ /\ UNCHANGED vk
       /\ call[c].pc \in {"add", "seed"} /\ call[c].key = vk /\ call'[c].key = NoKey
       /\ \E s \in FreeSlots, x \in Secrets :
             keyslots' = [n \in DOMAIN keyslots \cup {s} |-> IF n = s THEN x ELSE keyslots[n]]
    \/ /\ UNCHANGED vk
       /\ call'[c].key = NoKey
       /\ \E s \in DOMAIN keyslots : keyslots' = [n \in DOMAIN keyslots \ {s} |-> keyslots[n]]
    \/ vk' = NoKey /\ keyslots' = NoSlots /\ call'[c].key = call[c].key
    \/ /\ vk' = c /\ keyslots' = NoSlots
       /\ call[c].pc = "format" /\ call'[c].key = c

\* A step that needs the key is reached with one.
KeyReady(c) ==
    call'[c].pc \in {"fill", "add", "seed"} =>
        \/ call'[c].key \in {CachedVolumeKey(call[c].proc), c} \ {NoKey}
        \/ call'[c].key = vk /\ DOMAIN keyslots # {}
        \/ call'[c].key = call[c].key /\ call[c].pc = "fill"

\* Where Goto puts the call, and with which key.
LEMMA GotoKey ==
    ASSUME TypeOK, NEW c \in Calls, NEW pc
    PROVE  /\ Goto(c, call[c], pc) => call'[c].pc = pc /\ call'[c].key = call[c].key
           /\ \A x : Goto(c, [call[c] EXCEPT !.cred = x], pc)
                        => call'[c].pc = pc /\ call'[c].key = call[c].key
           /\ \A x : Goto(c, [call[c] EXCEPT !.tok = x], pc)
                        => call'[c].pc = pc /\ call'[c].key = call[c].key
           /\ \A x : Goto(c, [call[c] EXCEPT !.key = x], pc) => call'[c].pc = pc /\ call'[c].key = x
           /\ \A x : Goto(c, [call[c] EXCEPT !.slot = x, !.key = NoKey], pc)
                        => call'[c].pc = pc /\ call'[c].key = NoKey
  <1>0. call[c] \in CallRecord /\ call \in [Calls -> CallState]
    BY DEF TypeOK, CallState
  <1> USE <1>0 DEF Goto, CallRecord
  <1>1. Goto(c, call[c], pc) => call'[c].pc = pc /\ call'[c].key = call[c].key
    OBVIOUS
  <1>2. \A x : Goto(c, [call[c] EXCEPT !.cred = x], pc)
                  => call'[c].pc = pc /\ call'[c].key = call[c].key
    OBVIOUS
  <1>3. \A x : Goto(c, [call[c] EXCEPT !.tok = x], pc)
                  => call'[c].pc = pc /\ call'[c].key = call[c].key
    OBVIOUS
  <1>4. \A x : Goto(c, [call[c] EXCEPT !.key = x], pc) => call'[c].pc = pc /\ call'[c].key = x
    OBVIOUS
  <1>5. \A x : Goto(c, [call[c] EXCEPT !.slot = x, !.key = NoKey], pc)
                  => call'[c].pc = pc /\ call'[c].key = NoKey
    OBVIOUS
  <1>6. QED
    BY <1>1, <1>2, <1>3, <1>4, <1>5

\* Every step of a handler treats keys in one of these ways.
LEMMA HandlerKeys ==
    ASSUME TypeOK, NEW c \in Calls, HandlerStep(c)
    PROVE  KeyFlow(c) /\ KeyReady(c)
  <1>0. Return(c) => call'[c].pc = "done" /\ call'[c].key = NoKey
    BY ReturnAdvances DEF Blank
  <1>1. ASSUME Return(c), UNCHANGED <<vk, keyslots>> PROVE KeyFlow(c) /\ KeyReady(c)
    BY <1>0, <1>1 DEF KeyFlow, KeyReady
  <1>2. ASSUME NEW kind, FailStep(c, kind) PROVE KeyFlow(c) /\ KeyReady(c)
    BY <1>1, <1>2 DEF FailStep, header
  <1>3. ASSUME UNCHANGED <<vk, keyslots>>, call'[c].key = call[c].key,
               call'[c].pc \notin {"fill", "add", "seed"}
        PROVE  KeyFlow(c) /\ KeyReady(c)
    BY <1>3 DEF KeyFlow, KeyReady
  <1>4. ASSUME NEW k, WithKey(c, k)
        PROVE  \/ Return(c)
               \/ call'[c].pc = "add" /\ call'[c].key = k
               \/ call'[c].pc = "check" /\ call'[c].key = NoKey
    BY <1>4, GotoKey DEF WithKey, AfterKey
  <1>5. CASE GetVolumeKeyHit(c)
    BY <1>1, <1>4, <1>5 DEF GetVolumeKeyHit, IsVolumeKeyCached, KeyFlow, KeyReady, header
  <1>6. CASE GetVolumeKeyMiss(c)
    BY <1>3, <1>6, GotoKey DEF GetVolumeKeyMiss, header
  <1>7. CASE DerivePassphraseFromToken(c)
    BY <1>1, <1>2, <1>3, <1>7, GotoKey DEF DerivePassphraseFromToken, header
  <1>8. CASE ExtractVolumeKey(c)
    BY <1>1, <1>2, <1>8, GotoKey DEF ExtractVolumeKey, KeyFlow, KeyReady, header
  <1>9. CASE CacheVolumeKey(c)
    BY <1>1, <1>4, <1>9 DEF CacheVolumeKey, KeyFlow, KeyReady, header
  <1>10. CASE CheckNotEnrolled(c) \/ Prepare(c)
    BY <1>1, <1>2, <1>3, <1>10, GotoKey DEF CheckNotEnrolled, Prepare, header
  <1>11. CASE AddKeyslotByVolumeKey(c)
    <2>1. NewSecret(c) \in Secrets
      BY DEF NewSecret, Secrets
    <2>2. ASSUME NEW s \in FreeSlots, call[c].key = vk, UNCHANGED vk,
                 keyslots' = [n \in DOMAIN keyslots \cup {s} |->
                                IF n = s THEN NewSecret(c) ELSE keyslots[n]],
                 IF call[c].by \in Passphrases
                 THEN Return(c)
                 ELSE Goto(c, [call[c] EXCEPT !.slot = s, !.key = NoKey], "settoken")
          PROVE  KeyFlow(c) /\ KeyReady(c)
      <3>1. call'[c].key = NoKey /\ call'[c].pc \in {"done", "settoken"}
        BY <1>0, <2>2, GotoKey
      <3>2. QED
        BY <1>11, <2>1, <2>2, <3>1 DEF AddKeyslotByVolumeKey, KeyFlow, KeyReady
    <2>3. QED
      BY <1>1, <1>2, <1>11, <2>2 DEF AddKeyslotByVolumeKey, header
  <1>12. CASE SetToken(c)
    BY <1>1, <1>2, <1>12 DEF SetToken, header
  <1>13. CASE CheckLastKeyslot(c) \/ FindTokenForKeyslot(c)
    BY <1>1, <1>3, <1>13, GotoKey DEF CheckLastKeyslot, FindTokenForKeyslot, header
  <1>14. CASE RemoveToken(c)
    BY <1>1, <1>2, <1>3, <1>14, GotoKey DEF RemoveToken, header
  <1>15. CASE DestroyKeyslot(c)
    BY <1>0, <1>1, <1>2, <1>15 DEF DestroyKeyslot, KeyFlow, KeyReady, header
  <1>16. CASE WipeSignatures(c)
    BY <1>2, <1>3, <1>16, GotoKey DEF WipeSignatures, KeyFlow, KeyReady, NoSlots, header
  <1>17. CASE FormatLuks2(c)
    BY <1>2, <1>17, GotoKey, KeysAssumption DEF FormatLuks2, KeyFlow, KeyReady, NoSlots
  <1>18. CASE SeedPassphrase(c)
    <2>1. call[c].cred \in Secrets
      BY <1>18 DEF SeedPassphrase, TypeOK, CallState, WellFormed, Secrets
    <2>2. QED
      BY <1>0, <1>1, <1>2, <1>18, <2>1 DEF SeedPassphrase, KeyFlow, KeyReady, header
  <1>19. QED
    BY <1>5, <1>6, <1>7, <1>8, <1>9, <1>10, <1>11, <1>12, <1>13, <1>14, <1>15, <1>16, <1>17, <1>18
    DEF HandlerStep, KeyStep

\* A device without a header has no keyslots, and a call that is about to cache or to use a
\* key has one.
RealKeys ==
    /\ vk = NoKey => DOMAIN keyslots = {}
    /\ \A c \in InFlight : call[c].pc \in {"fill", "add", "seed"} => call[c].key # NoKey

\* Outside the handlers the header stays as it is, calls keep their keys or end, and a
\* process serves from its cache what it did before, or nothing.
LEMMA SurroundingsKeys ==
    ASSUME TypeOK, Provenance,
           \/ \E c \in Calls : LoseReply(c)
           \/ \E p \in Procs : Expire(p)
           \/ ServiceExit \/ ServiceKilled \/ UNCHANGED vars
    PROVE  /\ UNCHANGED <<vk, keyslots>>
           /\ \A d \in Calls : \/ call'[d].pc = "done"
                               \/ /\ call'[d].pc = call[d].pc /\ call'[d].key = call[d].key
                                  /\ call'[d].op = call[d].op /\ call'[d].proc = call[d].proc
           /\ \A p \in Procs : CachedVolumeKey(p)' \in {CachedVolumeKey(p), NoKey}
           /\ proc' # proc => \A p \in Procs : p = proc' => CachedVolumeKey(p)' = NoKey
  <1> DEFINE Kept(d) == /\ call'[d].pc = call[d].pc /\ call'[d].key = call[d].key
                        /\ call'[d].op = call[d].op /\ call'[d].proc = call[d].proc
             Goal == /\ UNCHANGED <<vk, keyslots>>
                     /\ \A d \in Calls : call'[d].pc = "done" \/ Kept(d)
                     /\ \A p \in Procs : CachedVolumeKey(p)' \in {CachedVolumeKey(p), NoKey}
                     /\ proc' # proc => \A p \in Procs : p = proc' => CachedVolumeKey(p)' = NoKey
  <1>1. ASSUME NEW c \in Calls, LoseReply(c) PROVE Goal
    <2>1. \A d \in Calls : Kept(d)
      BY <1>1 DEF LoseReply, TypeOK, CallState, CallRecord
    <2>2. UNCHANGED <<vk, keyslots, cache, proc>>
      BY <1>1 DEF LoseReply, header
    <2>3. QED
      BY <2>1, <2>2 DEF CachedVolumeKey
  <1>2. ASSUME NEW p \in Procs, Expire(p) PROVE Goal
    <2>1. UNCHANGED <<vk, keyslots, call, proc>>
      BY <1>2 DEF Expire, header
    <2>2. \A q \in Procs : cache'[q] = cache[q] \/ cache'[q].fresh = FALSE
      BY <1>2 DEF Expire, TypeOK
    <2>3. QED
      BY <2>1, <2>2 DEF CachedVolumeKey
  <1>3. ASSUME proc' = proc + 1 PROVE \A p \in Procs : p = proc' => cache[p] = NoEntry
    BY <1>3 DEF Provenance, TypeOK, Procs
  <1>4. CASE ServiceExit
    <2>1. \A d \in Calls : Kept(d)
      BY <1>4 DEF ServiceExit, TypeOK, CallState, CallRecord
    <2>2. UNCHANGED <<vk, keyslots, cache>> /\ proc' = proc + 1
      BY <1>4 DEF ServiceExit, header
    <2>3. QED
      BY <1>3, <2>1, <2>2 DEF CachedVolumeKey, NoEntry
  <1>5. CASE ServiceKilled
    <2>1. \A d \in Calls : call'[d] = call[d] \/ call'[d].pc = "done"
      BY <1>5 DEF ServiceKilled, Blank
    <2>2. UNCHANGED <<vk, keyslots>> /\ proc' = proc + 1
      BY <1>5 DEF ServiceKilled, header
    <2>3. \A p \in Procs : cache'[p] = cache[p] \/ cache'[p] = NoEntry
      BY <1>5 DEF ServiceKilled, TypeOK
    <2>4. QED
      BY <1>3, <2>1, <2>2, <2>3 DEF CachedVolumeKey, NoEntry
  <1>6. CASE UNCHANGED vars
    BY <1>6 DEF vars, CachedVolumeKey
  <1>7. QED
    BY <1>1, <1>2, <1>4, <1>5, <1>6

LEMMA RealKeysStep == TypeOK /\ Provenance /\ RealKeys /\ [Next]_vars => RealKeys'
  <1> SUFFICES ASSUME TypeOK, Provenance, RealKeys, [Next]_vars PROVE RealKeys'
    OBVIOUS
  <1>1. ASSUME NEW c \in Calls, HandlerStep(c) PROVE RealKeys'
    <2>1. /\ c \in InFlight /\ InFlight' \subseteq InFlight /\ InFlight \subseteq Calls
          /\ \A d \in Calls : d # c => call'[d] = call[d]
      BY <1>1, HandlerAdvances DEF Advances, InFlight
    <2>2. KeyFlow(c) /\ KeyReady(c)
      BY <1>1, HandlerKeys
    <2>3. vk' = NoKey => DOMAIN keyslots' = {}
      BY <2>1, <2>2, KeysAssumption DEF KeyFlow, RealKeys, NoSlots
    <2>4. \A d \in InFlight' : call'[d].pc \in {"fill", "add", "seed"} => call'[d].key # NoKey
      BY <2>1, <2>2 DEF KeyReady, RealKeys
    <2>5. QED
      BY <2>3, <2>4 DEF RealKeys
  <1>2. ASSUME NEW c \in Calls, ClientCall(c) PROVE RealKeys'
    <2>1. call'[c].pc \notin {"fill", "add", "seed"}
      <3>1. ASSUME NEW op, NEW pc \in Steps \ {"fill", "add", "seed"}, NEW by, NEW cred, NEW slot,
                   Begin(c, Request(op, pc, by, cred, slot))
            PROVE  call'[c].pc \notin {"fill", "add", "seed"}
        BY <3>1 DEF Begin, Request, TypeOK
      <3>2. \E op, by, cred, slot : \E pc \in Steps \ {"fill", "add", "seed"} :
                Begin(c, Request(op, pc, by, cred, slot))
        BY <1>2 DEF ClientCall, VerifyPassphrase, UnlockWithToken, EnrollFido2, EnrollTpm2,
               EnrollRecoveryKey, EnrollPassphrase, WipeSlot, FormatPartition, Steps
      <3>3. QED
        BY <3>1, <3>2
    <2>2. UNCHANGED <<vk, keyslots>> /\ \A d \in Calls : d # c => call'[d] = call[d]
      BY <1>2, ClientCallAdmits DEF header
    <2>3. \A d \in InFlight' : d = c \/ (d \in InFlight /\ call'[d] = call[d])
      BY <2>2 DEF InFlight
    <2>4. QED
      BY <2>1, <2>2, <2>3 DEF RealKeys
  <1>3. CASE \/ \E c \in Calls : LoseReply(c)
             \/ \E p \in Procs : Expire(p)
             \/ ServiceExit \/ ServiceKilled \/ UNCHANGED vars
    <2>1. /\ UNCHANGED <<vk, keyslots>>
          /\ \A d \in Calls : \/ call'[d].pc = "done"
                              \/ call'[d].pc = call[d].pc /\ call'[d].key = call[d].key
      BY <1>3, SurroundingsKeys
    <2>2. \A d \in InFlight' : d \in InFlight /\ call'[d].pc = call[d].pc /\ call'[d].key = call[d].key
      BY <2>1 DEF InFlight, Steps
    <2>3. QED
      BY <2>1, <2>2 DEF RealKeys
  <1>4. QED
    BY <1>1, <1>2, <1>3 DEF Next

LEMMA RealKeysInvariant == Spec => []RealKeys
  <1>1. Init => RealKeys
    BY KeysAssumption DEF Init, RealKeys, InFlight, Blank, Steps
  <1>2. QED
    BY <1>1, TypeCorrect, KeyProvenance, RealKeysStep, PTL DEF Spec

\* A handler's step leaves nobody with a key that was not held, but for the key its own call
\* has in hand.
LEMMA HandlerHeld ==
    ASSUME TypeOK, NEW c \in Calls, HandlerStep(c)
    PROVE  /\ Held' \subseteq Held \cup {call'[c].key}
           /\ \A k \in {call[c].key, CachedVolumeKey(call[c].proc)} : k = NoKey \/ k \in Held
  <1>1. /\ proc' = proc /\ c \in InFlight /\ InFlight' \subseteq InFlight /\ InFlight \subseteq Calls
        /\ \A d \in Calls : d # c => call'[d] = call[d]
        /\ \A d \in InFlight' : call'[d].proc = call[d].proc
    BY HandlerAdvances DEF Advances, InFlight, Blank, Steps
  <1>2. call[c].proc \in Procs /\ Alive(call[c].proc)
    BY <1>1, ServingIsAlive DEF TypeOK, CallState, CallRecord
  <1>3. \A k \in {call[c].key, CachedVolumeKey(call[c].proc)} : k = NoKey \/ k \in Held
    BY <1>1, <1>2 DEF Held
  <1>4. \A p \in Procs : Alive(p)' => Alive(p)
    BY <1>1 DEF Alive
  <1>5. \A p \in Procs : CachedVolumeKey(p)' \in {CachedVolumeKey(p), NoKey, call[c].key}
    <2>1. CASE UNCHANGED cache
      BY <2>1 DEF CachedVolumeKey
    <2>2. CASE GetVolumeKeyMiss(c) \/ CacheVolumeKey(c)
      <3>1. \A p \in Procs : \/ cache'[p] = cache[p] \/ cache'[p] = NoEntry
                             \/ cache'[p] = [key |-> call[c].key, fresh |-> TRUE]
        BY <2>2 DEF GetVolumeKeyMiss, CacheVolumeKey, TypeOK
      <3>2. QED
        BY <3>1 DEF CachedVolumeKey, NoEntry
    <2>3. QED
      BY <2>1, <2>2 DEF HandlerStep, KeyStep, GetVolumeKeyHit, DerivePassphraseFromToken,
         ExtractVolumeKey, CheckNotEnrolled, Prepare, AddKeyslotByVolumeKey, SetToken,
         CheckLastKeyslot, FindTokenForKeyslot, RemoveToken, DestroyKeyslot, WipeSignatures,
         FormatLuks2, SeedPassphrase, FailStep
  <1>6. ASSUME NEW k \in Held' PROVE k \in Held \cup {call'[c].key}
    <2>1. CASE \E p \in Procs : Alive(p)' /\ k = CachedVolumeKey(p)'
      BY <1>3, <1>4, <1>5, <1>6, <2>1 DEF Held
    <2>2. CASE \E d \in InFlight' : k = call'[d].key
      BY <1>1, <1>6, <2>2 DEF Held
    <2>3. QED
      BY <1>6, <2>1, <2>2 DEF Held
  <1>7. QED
    BY <1>3, <1>6

\* Calls that have ended, or have formatted, stay so; the key on the device is used up.
LEMMA UsedStep ==
    ASSUME TypeOK, Provenance, [Next]_vars
    PROVE  Used \subseteq Used' /\ vk' \in Used' \cup {NoKey}
  <1>1. vk' \in Used' \cup {NoKey}
    <2>1. TypeOK' /\ Provenance'
      BY NextType, ProvenanceStep
    <2>2. QED
      BY <2>1 DEF TypeOK, Provenance, Used, Keys
  <1>2. ASSUME NEW c \in Calls, HandlerStep(c) PROVE Used \subseteq Used'
    <2>1. /\ c \in InFlight /\ \A d \in Calls : d # c => call'[d] = call[d]
      BY <1>2, HandlerAdvances DEF Advances
    <2>2. c \in Used => c \in Used'
      <3>1. CASE c = InitialKey
        BY <3>1, KeysAssumption
      <3>2. CASE c # InitialKey
        BY <1>2, <2>1, <3>2, FormatTail DEF Used, InFlight, Steps
      <3>3. QED
        BY <3>1, <3>2
    <2>3. QED
      BY <2>1, <2>2 DEF Used
  <1>3. ASSUME NEW c \in Calls, ClientCall(c) PROVE Used \subseteq Used'
    <2>1. call[c].pc = "new" /\ \A d \in Calls : d # c => call'[d] = call[d]
      BY <1>3, ClientCallAdmits
    <2>2. QED
      BY <2>1 DEF Used
  <1>4. CASE \/ \E c \in Calls : LoseReply(c)
             \/ \E p \in Procs : Expire(p)
             \/ ServiceExit \/ ServiceKilled \/ UNCHANGED vars
    <2>1. \A d \in Calls : \/ call'[d].pc = "done"
                           \/ call'[d].pc = call[d].pc /\ call'[d].op = call[d].op
      BY <1>4, SurroundingsKeys
    <2>2. QED
      BY <1>1, <2>1 DEF Used
  <1>5. QED
    BY <1>1, <1>2, <1>3, <1>4 DEF Next

LEMMA CustodyInit == Init => Custody!Init
  <1> SUFFICES ASSUME Init PROVE Custody!Init
    OBVIOUS
  <1>1. vk \in Keys \cup {NoKey} /\ vk \in {InitialKey, NoKey}
    BY DEF Init, Keys
  <1>2. keyslots \in UNION {[S -> Secrets] : S \in SUBSET Slots}
    BY InitType DEF TypeOK
  <1>3. Held = {}
    BY DEF Init, Held, CachedVolumeKey, NoEntry, InFlight, Blank, Steps
  <1>4. Used \subseteq Keys /\ InitialKey \in Used
    BY DEF Used, Keys
  <1>5. QED
    BY <1>1, <1>2, <1>3, <1>4 DEF Custody!Init

\* Every step of the service is a step of KeyCustody.
LEMMA CustodyStep ==
    ASSUME TypeOK, Provenance, RealKeys, [Next]_vars
    PROVE  Custody!Next
  <1>0. SUFFICES \/ Custody!Learn \/ Custody!AddKeyslot \/ Custody!DestroyKeyslot
                 \/ Custody!Erase \/ Custody!Format
                 \/ Custody!Forget /\ UNCHANGED <<vk, keyslots>>
    BY UsedStep DEF Custody!Next
  <1>1. ASSUME NEW c \in Calls, HandlerStep(c)
        PROVE  \/ Custody!Learn \/ Custody!AddKeyslot \/ Custody!DestroyKeyslot
               \/ Custody!Erase \/ Custody!Format
               \/ Custody!Forget /\ UNCHANGED <<vk, keyslots>>
    <2>1. c \in InFlight
      BY <1>1, HandlerAdvances
    <2>2. /\ Held' \subseteq Held \cup {call'[c].key} /\ NoKey \notin Held'
          /\ \A k \in {call[c].key, CachedVolumeKey(call[c].proc)} : k = NoKey \/ k \in Held
      BY <1>1, HandlerHeld DEF Held
    <2>3. ASSUME call'[c].key \in {NoKey, call[c].key, CachedVolumeKey(call[c].proc)}
          PROVE  Custody!Forget
      BY <2>2, <2>3 DEF Custody!Forget
    <2>4. CASE /\ UNCHANGED <<vk, keyslots>>
               /\ call'[c].key \in {NoKey, call[c].key, CachedVolumeKey(call[c].proc)}
      BY <2>3, <2>4
    <2>5. CASE UNCHANGED <<vk, keyslots>> /\ call'[c].key = vk /\ DOMAIN keyslots # {}
      BY <2>2, <2>5 DEF Custody!Learn, RealKeys
    <2>6. CASE /\ UNCHANGED vk
               /\ call[c].pc \in {"add", "seed"} /\ call[c].key = vk /\ call'[c].key = NoKey
               /\ \E s \in FreeSlots, x \in Secrets :
                     keyslots' = [n \in DOMAIN keyslots \cup {s} |-> IF n = s THEN x ELSE keyslots[n]]
      <3>1. vk \in Held
        BY <2>1, <2>2, <2>6 DEF RealKeys
      <3>2. QED
        BY <2>3, <2>6, <3>1 DEF Custody!AddKeyslot, FreeSlots
    <2>7. CASE /\ UNCHANGED vk /\ call'[c].key = NoKey
               /\ \E s \in DOMAIN keyslots :
                     keyslots' = [n \in DOMAIN keyslots \ {s} |-> keyslots[n]]
      BY <2>3, <2>7 DEF Custody!DestroyKeyslot
    <2>8. CASE vk' = NoKey /\ keyslots' = NoSlots /\ call'[c].key = call[c].key
      <3>1. NoSlots = Custody!NoSlots
        BY DEF NoSlots, Custody!NoSlots
      <3>2. QED
        BY <2>3, <2>8, <3>1 DEF Custody!Erase
    <2>9. CASE vk' = c /\ keyslots' = NoSlots /\ call[c].pc = "format" /\ call'[c].key = c
      <3>1. NoSlots = Custody!NoSlots
        BY DEF NoSlots, Custody!NoSlots
      <3>2. c \in Keys \ Used
        BY <2>9, KeysAssumption DEF Keys, Used
      <3>3. QED
        BY <2>2, <2>9, <3>1, <3>2 DEF Custody!Format
    <2>10. QED
      BY <1>1, <2>4, <2>5, <2>6, <2>7, <2>8, <2>9, HandlerKeys DEF KeyFlow
  <1>2. ASSUME NEW c \in Calls, ClientCall(c)
        PROVE  Custody!Forget /\ UNCHANGED <<vk, keyslots>>
    <2>1. /\ UNCHANGED <<vk, keyslots, cache, proc>>
          /\ \A d \in Calls : d # c => call'[d] = call[d]
          /\ call'[c].proc = proc /\ call'[c].key = NoKey
      BY <1>2, ClientCallAdmits DEF header
    <2>2. \A p \in Procs : Alive(p)' => Alive(p)
      BY <2>1 DEF Alive, InFlight
    <2>3. \A p \in Procs : CachedVolumeKey(p)' = CachedVolumeKey(p)
      BY <2>1 DEF CachedVolumeKey
    <2>4. Held' \subseteq Held
      BY <2>1, <2>2, <2>3 DEF Held, InFlight
    <2>5. QED
      BY <2>1, <2>4 DEF Custody!Forget
  <1>3. CASE \/ \E c \in Calls : LoseReply(c)
             \/ \E p \in Procs : Expire(p)
             \/ ServiceExit \/ ServiceKilled \/ UNCHANGED vars
    <2>1. /\ UNCHANGED <<vk, keyslots>>
          /\ \A d \in Calls : \/ call'[d].pc = "done"
                              \/ /\ call'[d].pc = call[d].pc /\ call'[d].key = call[d].key
                                 /\ call'[d].op = call[d].op /\ call'[d].proc = call[d].proc
          /\ \A p \in Procs : CachedVolumeKey(p)' \in {CachedVolumeKey(p), NoKey}
          /\ proc' # proc => \A p \in Procs : p = proc' => CachedVolumeKey(p)' = NoKey
      BY <1>3, SurroundingsKeys
    <2>2. \A d \in InFlight' : /\ d \in InFlight /\ call'[d].key = call[d].key
                               /\ call'[d].proc = call[d].proc
      BY <2>1 DEF InFlight, Steps
    <2>3. \A p \in Procs : Alive(p)' => Alive(p) \/ CachedVolumeKey(p)' = NoKey
      BY <2>1, <2>2 DEF Alive
    <2>4. Held' \subseteq Held
      BY <2>1, <2>2, <2>3 DEF Held
    <2>5. QED
      BY <2>1, <2>4 DEF Custody!Forget
  <1>4. QED
    BY <1>1, <1>2, <1>3 DEF Next

\* The service implements KeyCustody, for every set of calls and every combination of faults:
\* get_volume_key never comes by a key that no keyslot opened and nobody had, and
\* add_keyslot_by_volume_key never enrolls without it.
THEOREM VolumeKeyInCustody == Spec => KeyInCustody
  <1>1. TypeOK /\ Provenance /\ RealKeys /\ [Next]_vars => [Custody!Next]_(Custody!custody)
    BY CustodyStep
  <1>2. QED
    BY <1>1, CustodyInit, TypeCorrect, KeyProvenance, RealKeysInvariant, PTL
    DEF Spec, KeyInCustody, Custody!Spec

-----------------------------------------------------------------------------
(* A volume nobody can open *)

\* KeyCustody alone rules out that a volume nobody can open comes back.
LEMMA GoneStep ==
    ASSUME Custody!Next, Gone, vk \in Used, vk' = vk
    PROVE  Gone'
  <1>1. vk # NoKey /\ DOMAIN keyslots = {} /\ vk \notin Held
    BY DEF Gone, Held
  <1>2. Custody!Forget /\ DOMAIN keyslots' = {}
    BY <1>1 DEF Custody!Next, Custody!Learn, Custody!AddKeyslot, Custody!DestroyKeyslot,
                Custody!Erase, Custody!Format
  <1>3. vk \notin Held'
    BY <1>1, <1>2 DEF Custody!Forget
  <1>4. QED
    BY <1>1, <1>2, <1>3 DEF Gone, Held

\* A volume without keyslots whose key no process caches and no call holds can never be
\* unlocked again short of a reformat, whatever overlaps, fails, times out or is killed:
\* what IsVolumeKeyCached's "can never be unlocked" needs.
THEOREM GoneStaysGone == Spec => GoneForGood
  <1>1. TypeOK /\ Provenance /\ RealKeys /\ [Next]_vars => [(Gone /\ vk' = vk) => Gone']_vars
    <2> SUFFICES ASSUME TypeOK, Provenance, RealKeys, [Next]_vars, Gone, vk' = vk PROVE Gone'
      OBVIOUS
    <2>1. vk \in Used
      BY DEF TypeOK, Provenance, Gone, Used, Keys
    <2>2. QED
      BY <2>1, CustodyStep, GoneStep
  <1>2. QED
    BY <1>1, TypeCorrect, KeyProvenance, RealKeysInvariant, PTL DEF Spec, GoneForGood
=============================================================================
