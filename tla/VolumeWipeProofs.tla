--------------------------- MODULE VolumeWipeProofs ---------------------------
(***************************************************************************)
(* Theorems about wiping: the last keyslot survives every wipe that has    *)
(* the volume to itself and readable metadata, whatever else fails.        *)
(***************************************************************************)
EXTENDS VolumeServiceProofs, FiniteSetTheorems

\* op_wipe_slot's test in words: a slot that is there and is not the last has another
\* beside it.
LEMMA AnotherKeyslot ==
    ASSUME NEW s \in DOMAIN keyslots, ~IsLastKeyslot(s)
    PROVE  \E x \in DOMAIN keyslots : x # s
  <1>1. SUFFICES ASSUME \A x \in DOMAIN keyslots : x = s PROVE FALSE
    OBVIOUS
  <1>2. DOMAIN keyslots = {s}
    BY <1>1
  <1>3. Cardinality({s}) = 1
    BY FS_Singleton
  <1>4. QED
    BY <1>2, <1>3 DEF IsLastKeyslot

\* The history only grows.
LEMMA MishapsStay == [Next]_vars => mishap \subseteq mishap'
  <1> SUFFICES ASSUME [Next]_vars PROVE mishap \subseteq mishap'
    OBVIOUS
  <1>1. ASSUME NEW c \in Calls, ClientCall(c) PROVE mishap \subseteq mishap'
    BY <1>1 DEF ClientCall, VerifyPassphrase, UnlockWithToken, EnrollFido2, EnrollTpm2,
           EnrollRecoveryKey, EnrollPassphrase, WipeSlot, FormatPartition, Begin
  <1>2. ASSUME NEW c \in Calls, HandlerStep(c) PROVE mishap \subseteq mishap'
    BY <1>2 DEF HandlerStep, KeyStep, GetVolumeKeyHit, GetVolumeKeyMiss,
         DerivePassphraseFromToken, ExtractVolumeKey, CacheVolumeKey, CheckNotEnrolled,
         Prepare, AddKeyslotByVolumeKey, SetToken, CheckLastKeyslot, FindTokenForKeyslot,
         RemoveToken, DestroyKeyslot, WipeSignatures, FormatLuks2, SeedPassphrase,
         FailStep, Fault
  <1>3. CASE \/ \E c \in Calls : LoseReply(c)
             \/ \E p \in Procs : Expire(p)
             \/ ServiceExit \/ ServiceKilled \/ UNCHANGED vars
    BY <1>3 DEF LoseReply, Expire, ServiceExit, ServiceKilled, Fault, vars
  <1>4. QED
    BY <1>1, <1>2, <1>3 DEF Next

\* A call that is admitted without a race on record has no wipe or format beside it, and
\* it is not one itself unless it is alone.
LEMMA AdmittedAlone ==
    ASSUME TypeOK, NEW c \in Calls, ClientCall(c), "race" \notin mishap'
    PROVE  /\ call'[c].pc \notin {"findtoken", "rmtoken", "destroy"}
           /\ \A d \in InFlight : {call'[c].op, call[d].op} \cap {"wipe", "format"} = {}
  <1>1. ASSUME NEW op, NEW by, NEW cred, NEW slot,
               NEW pc \in Steps \ {"findtoken", "rmtoken", "destroy"},
               Begin(c, Request(op, pc, by, cred, slot))
        PROVE  /\ call'[c].pc \notin {"findtoken", "rmtoken", "destroy"}
               /\ \A d \in InFlight : {call'[c].op, call[d].op} \cap {"wipe", "format"} = {}
    <2>1. call'[c].op = op /\ call'[c].pc = pc
      BY <1>1 DEF Begin, Request, TypeOK
    <2>2. ASSUME NEW d \in InFlight PROVE {op, call[d].op} \cap {"wipe", "format"} = {}
      BY <1>1 DEF Begin, Request
    <2>3. QED
      BY <2>1, <2>2
  <1>2. \E op, by, cred, slot : \E pc \in Steps \ {"findtoken", "rmtoken", "destroy"} :
            Begin(c, Request(op, pc, by, cred, slot))
    BY DEF ClientCall, VerifyPassphrase, UnlockWithToken, EnrollFido2, EnrollTpm2,
           EnrollRecoveryKey, EnrollPassphrase, WipeSlot, FormatPartition, Steps
  <1>3. QED
    BY <1>1, <1>2

\* A handler that stands between op_wipe_slot's check and the destruction got there by the
\* check, which it passed with what it read, or was there before; the keyslots are as then.
LEMMA WipeWindow ==
    ASSUME TypeOK, NEW c \in Calls, HandlerStep(c),
           call'[c].pc \in {"findtoken", "rmtoken", "destroy"}
    PROVE  /\ keyslots' = keyslots /\ call'[c].slot = call[c].slot
           /\ \/ call[c].pc \in {"findtoken", "rmtoken"}
              \/ ~IsLastKeyslot(call[c].slot)
              \/ "read" \in mishap'
  <1>0. call[c] \in CallRecord /\ call \in [Calls -> CallState]
    BY DEF TypeOK, CallState
  <1>1. ASSUME NEW pc, Goto(c, call[c], pc) PROVE call'[c].slot = call[c].slot /\ call'[c].pc = pc
    BY <1>0, <1>1 DEF Goto, CallRecord
  <1>2. ASSUME NEW t, NEW pc, Goto(c, [call[c] EXCEPT !.tok = t], pc)
        PROVE  call'[c].slot = call[c].slot /\ call'[c].pc = pc
    BY <1>0, <1>2 DEF Goto, CallRecord
  <1>3. ~Return(c)
    BY ReturnAdvances DEF Blank
  <1>4. CASE CheckLastKeyslot(c)
    BY <1>1, <1>3, <1>4 DEF CheckLastKeyslot, Fault, header
  <1>5. CASE FindTokenForKeyslot(c)
    <2>1. call'[c].slot = call[c].slot
      BY <1>1, <1>2, <1>5 DEF FindTokenForKeyslot
    <2>2. QED
      BY <1>5, <2>1 DEF FindTokenForKeyslot, header
  <1>6. CASE RemoveToken(c)
    BY <1>1, <1>3, <1>6 DEF RemoveToken, FailStep
  <1>7. CASE ~CheckLastKeyslot(c) /\ ~FindTokenForKeyslot(c) /\ ~RemoveToken(c)
    <2>1. ASSUME NEW k, NEW pc, Goto(c, [call[c] EXCEPT !.key = k], pc) PROVE call'[c].pc = pc
      BY <1>0, <2>1 DEF Goto, CallRecord
    <2>2. ASSUME NEW x, NEW pc, Goto(c, [call[c] EXCEPT !.cred = x], pc) PROVE call'[c].pc = pc
      BY <1>0, <2>2 DEF Goto, CallRecord
    <2>3. ASSUME NEW s, NEW pc, Goto(c, [call[c] EXCEPT !.slot = s, !.key = NoKey], pc)
          PROVE  call'[c].pc = pc
      BY <1>0, <2>3 DEF Goto, CallRecord
    <2>4. ASSUME NEW k, WithKey(c, k) PROVE call'[c].pc \in {"add", "check"}
      <3>1. AfterKey(call[c].op) \in {"add", "check", "done"}
        BY DEF AfterKey
      <3>2. QED
        BY <1>3, <2>1, <2>4, <3>1 DEF WithKey
    <2>5. CASE GetVolumeKeyHit(c) \/ CacheVolumeKey(c)
      BY <2>4, <2>5 DEF GetVolumeKeyHit, CacheVolumeKey
    <2>6. CASE GetVolumeKeyMiss(c)
      BY <1>1, <2>6 DEF GetVolumeKeyMiss
    <2>7. CASE DerivePassphraseFromToken(c)
      BY <1>3, <2>2, <2>7 DEF DerivePassphraseFromToken, FailStep
    <2>8. CASE ExtractVolumeKey(c)
      BY <1>3, <2>1, <2>8 DEF ExtractVolumeKey, FailStep
    <2>9. CASE CheckNotEnrolled(c) \/ Prepare(c)
      BY <1>1, <1>3, <2>9 DEF CheckNotEnrolled, Prepare, FailStep
    <2>10. CASE AddKeyslotByVolumeKey(c)
      BY <1>3, <2>3, <2>10 DEF AddKeyslotByVolumeKey, FailStep
    <2>11. CASE SetToken(c)
      BY <1>3, <2>11 DEF SetToken, FailStep
    <2>12. CASE DestroyKeyslot(c)
      BY <1>3, <2>12 DEF DestroyKeyslot, FailStep
    <2>13. CASE WipeSignatures(c) \/ FormatLuks2(c) \/ SeedPassphrase(c)
      BY <1>1, <1>3, <2>1, <2>13 DEF WipeSignatures, FormatLuks2, SeedPassphrase, FailStep
    <2>14. QED
      BY <1>7, <2>5, <2>6, <2>12, <2>13, <2>7, <2>8, <2>9, <2>10, <2>11 DEF HandlerStep, KeyStep
  <1>8. QED
    BY <1>4, <1>5, <1>6, <1>7

\* CheckStillGood is inductive: the one step that could spoil another call's check, a step
\* of a second call, is not possible without a race on record.
LEMMA CheckStillGoodStep == TypeOK /\ CheckStillGood /\ [Next]_vars => CheckStillGood'
  <1> SUFFICES ASSUME TypeOK, CheckStillGood, [Next]_vars,
                      mishap' \cap {"read", "race"} = {}
               PROVE  /\ \A c, d \in InFlight' : c # d => call'[c].op \notin {"wipe", "format"}
                      /\ \A c \in InFlight' :
                            (/\ call'[c].pc \in {"findtoken", "rmtoken", "destroy"}
                             /\ call'[c].slot \in DOMAIN keyslots')
                              => \E s \in DOMAIN keyslots' : s # call'[c].slot
    BY DEF CheckStillGood, Struck
  <1> DEFINE Alone == \A c, d \in InFlight' : c # d => call'[c].op \notin {"wipe", "format"}
             Window == {"findtoken", "rmtoken", "destroy"}
             Kept == \A c \in InFlight' :
                        (call'[c].pc \in Window /\ call'[c].slot \in DOMAIN keyslots')
                           => \E s \in DOMAIN keyslots' : s # call'[c].slot
  <1>1. /\ \A c, d \in InFlight : c # d => call[c].op \notin {"wipe", "format"}
        /\ \A c \in InFlight :
              (call[c].pc \in Window /\ call[c].slot \in DOMAIN keyslots)
                => \E s \in DOMAIN keyslots : s # call[c].slot
    BY MishapsStay DEF CheckStillGood, Struck
  <1>2. \A c \in InFlight : call[c].pc \in Window => call[c].op = "wipe"
    BY DEF TypeOK, CallState, WellFormed, InFlight
  <1>3. ASSUME NEW c \in Calls, HandlerStep(c) PROVE Alone /\ Kept
    <2>1. c \in InFlight /\ Advances(c)
      BY <1>3, HandlerAdvances
    <2>2. InFlight' \subseteq InFlight /\ \A d \in InFlight' : call'[d].op = call[d].op
      BY <2>1 DEF InFlight, Advances, Blank, Steps
    <2>3. Alone
      BY <1>1, <2>2
    <2>4. ASSUME NEW d \in InFlight', call'[d].pc \in Window, call'[d].slot \in DOMAIN keyslots'
          PROVE  \E s \in DOMAIN keyslots' : s # call'[d].slot
      <3>1. CASE d # c
        <4>1. call'[d] = call[d] /\ d \in InFlight
          BY <2>1, <2>2, <3>1 DEF Advances, InFlight
        <4>2. QED
          BY <1>1, <1>2, <2>1, <2>4, <3>1, <4>1
      <3>2. CASE d = c
        <4>1. /\ keyslots' = keyslots /\ call'[c].slot = call[c].slot
              /\ call[c].pc \in {"findtoken", "rmtoken"} \/ ~IsLastKeyslot(call[c].slot)
          BY <1>3, <2>4, <3>2, WipeWindow
        <4>2. QED
          BY <1>1, <2>1, <2>4, <3>2, <4>1, AnotherKeyslot
      <3>3. QED
        BY <3>1, <3>2
    <2>5. QED
      BY <2>3, <2>4
  <1>4. ASSUME NEW c \in Calls, ClientCall(c) PROVE Alone /\ Kept
    <2>1. /\ UNCHANGED keyslots /\ call[c].pc = "new"
          /\ \A d \in Calls : d # c => call'[d] = call[d]
      BY <1>4, ClientCallAdmits DEF header
    <2>2. /\ call'[c].pc \notin Window
          /\ \A d \in InFlight : {call'[c].op, call[d].op} \cap {"wipe", "format"} = {}
      BY <1>4, AdmittedAlone
    <2>3. \A d \in InFlight' : d = c \/ (d \in InFlight /\ call'[d] = call[d])
      BY <2>1 DEF InFlight
    <2>4. Alone
      BY <1>1, <2>2, <2>3
    <2>5. QED
      BY <1>1, <2>1, <2>2, <2>3, <2>4
  <1>5. ASSUME UNCHANGED keyslots, InFlight' \subseteq InFlight,
               \A d \in InFlight' : /\ call'[d].op = call[d].op /\ call'[d].pc = call[d].pc
                                    /\ call'[d].slot = call[d].slot
        PROVE  Alone /\ Kept
    BY <1>1, <1>5
  <1>6. ASSUME NEW c \in Calls, LoseReply(c) PROVE Alone /\ Kept
    <2>1. \A d \in Calls : /\ call'[d].op = call[d].op /\ call'[d].pc = call[d].pc
                           /\ call'[d].slot = call[d].slot
      BY <1>6 DEF LoseReply, TypeOK, CallState, CallRecord
    <2>2. UNCHANGED keyslots
      BY <1>6 DEF LoseReply, header
    <2>3. QED
      BY <1>5, <2>1, <2>2 DEF InFlight
  <1>7. ASSUME NEW p \in Procs, Expire(p) PROVE Alone /\ Kept
    BY <1>5, <1>7 DEF Expire, InFlight, header
  <1>8. CASE ServiceExit
    <2>1. \A d \in Calls : /\ call'[d].op = call[d].op /\ call'[d].pc = call[d].pc
                           /\ call'[d].slot = call[d].slot
      BY <1>8 DEF ServiceExit, TypeOK, CallState, CallRecord
    <2>2. UNCHANGED keyslots
      BY <1>8 DEF ServiceExit, header
    <2>3. QED
      BY <1>5, <2>1, <2>2 DEF InFlight
  <1>9. CASE ServiceKilled
    <2>1. \A d \in Calls : call'[d] = call[d] \/ call'[d].pc = "done"
      BY <1>9 DEF ServiceKilled, Blank
    <2>2. UNCHANGED keyslots
      BY <1>9 DEF ServiceKilled, header
    <2>3. QED
      BY <1>5, <2>1, <2>2 DEF InFlight, Steps
  <1>10. CASE UNCHANGED vars
    BY <1>5, <1>10 DEF vars, InFlight
  <1>11. QED
    BY <1>3, <1>4, <1>6, <1>7, <1>8, <1>9, <1>10 DEF Next

\* From op_wipe_slot's check to the destruction of the keyslot, the check stays good.
THEOREM WipeCheckHolds == Spec => []CheckStillGood
  <1>1. Init => CheckStillGood
    BY DEF Init, CheckStillGood, InFlight, Blank, Steps
  <1>2. QED
    BY <1>1, TypeCorrect, CheckStillGoodStep, PTL DEF Spec

\* A handler's step takes no keyslot away except by destroying the slot it was asked to
\* wipe, or by replacing the header.
LEMMA KeyslotsGoOneWay ==
    ASSUME TypeOK, Provenance, NEW c \in Calls, HandlerStep(c), vk' = vk, vk # NoKey
    PROVE  \/ DOMAIN keyslots \subseteq DOMAIN keyslots'
           \/ /\ call[c].pc = "destroy"
              /\ call[c].slot \in DOMAIN keyslots
              /\ DOMAIN keyslots' = DOMAIN keyslots \ {call[c].slot}
  <1>1. CASE DestroyKeyslot(c)
    BY <1>1 DEF DestroyKeyslot, FailStep, header
  <1>2. CASE WipeSignatures(c)
    BY <1>2 DEF WipeSignatures, FailStep, header
  <1>3. CASE FormatLuks2(c)
    <2>1. vk # c
      BY <1>3 DEF FormatLuks2, Provenance
    <2>2. QED
      BY <1>3, <2>1 DEF FormatLuks2, FailStep, header
  <1>4. CASE AddKeyslotByVolumeKey(c) \/ SeedPassphrase(c)
    BY <1>4 DEF AddKeyslotByVolumeKey, SeedPassphrase, FailStep, header
  <1>5. CASE KeyStep(c)
    BY <1>5 DEF KeyStep, GetVolumeKeyHit, GetVolumeKeyMiss, DerivePassphraseFromToken,
                ExtractVolumeKey, CacheVolumeKey, FailStep, header
  <1>6. CASE \/ CheckNotEnrolled(c) \/ Prepare(c) \/ SetToken(c)
             \/ CheckLastKeyslot(c) \/ FindTokenForKeyslot(c) \/ RemoveToken(c)
    BY <1>6 DEF CheckNotEnrolled, Prepare, SetToken, CheckLastKeyslot, FindTokenForKeyslot,
                RemoveToken, FailStep, header
  <1>7. QED
    BY <1>1, <1>2, <1>3, <1>4, <1>5, <1>6 DEF HandlerStep

\* op_wipe_slot never takes the last keyslot of a volume, for any number of slots, calls and
\* processes, through failed header writes, lost replies, expiry and kills, as long as no
\* metadata read has failed and no call has overlapped a wipe or a format.
THEOREM LastKeyslotSafe == Spec => LastKeyslotKept
  <1>1. ASSUME TypeOK, Provenance, CheckStillGood, [Next]_vars,
               vk # NoKey, vk' = vk, DOMAIN keyslots # {},
               mishap' \cap {"read", "race"} = {}
        PROVE  DOMAIN keyslots' # {}
    <2>1. mishap \cap {"read", "race"} = {}
      BY <1>1, MishapsStay
    <2>2. ASSUME NEW c \in Calls, HandlerStep(c) PROVE DOMAIN keyslots' # {}
      <3>1. CASE DOMAIN keyslots \subseteq DOMAIN keyslots'
        BY <1>1, <3>1
      <3>2. CASE /\ call[c].pc = "destroy"
                 /\ call[c].slot \in DOMAIN keyslots
                 /\ DOMAIN keyslots' = DOMAIN keyslots \ {call[c].slot}
        <4>1. c \in InFlight
          BY <1>1, <2>2, HandlerAdvances
        <4>2. \E s \in DOMAIN keyslots : s # call[c].slot
          BY <1>1, <2>1, <3>2, <4>1 DEF CheckStillGood, Struck
        <4>3. QED
          BY <3>2, <4>2
      <3>3. QED
        BY <1>1, <2>2, <3>1, <3>2, KeyslotsGoOneWay
    <2>3. ASSUME NEW c \in Calls, ClientCall(c) PROVE DOMAIN keyslots' # {}
      BY <1>1, <2>3, ClientCallAdmits DEF header
    <2>4. CASE \/ \E c \in Calls : LoseReply(c)
               \/ \E p \in Procs : Expire(p)
               \/ ServiceExit \/ ServiceKilled \/ UNCHANGED vars
      BY <1>1, <2>4 DEF LoseReply, Expire, ServiceExit, ServiceKilled, vars, header
    <2>5. QED
      BY <1>1, <2>2, <2>3, <2>4 DEF Next
  <1>2. TypeOK /\ Provenance /\ CheckStillGood /\ [Next]_vars
          => [(/\ vk # NoKey /\ vk' = vk /\ DOMAIN keyslots # {}
               /\ mishap' \cap {"read", "race"} = {})
                => DOMAIN keyslots' # {}]_vars
    BY <1>1
  <1>3. QED
    BY <1>2, TypeCorrect, KeyProvenance, WipeCheckHolds, PTL DEF Spec, LastKeyslotKept
=============================================================================
