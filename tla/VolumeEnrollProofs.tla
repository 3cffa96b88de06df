-------------------------- MODULE VolumeEnrollProofs --------------------------
(***************************************************************************)
(* Theorems about enrolling: tokens and keyslots stay in step, nobody is   *)
(* locked out, a recovery key that is handed out opens the volume, and the *)
(* only copy of a keyless volume's key is kept, for every set of calls and *)
(* every number of keyslots, tokens and processes.                         *)
(***************************************************************************)
EXTENDS VolumeWipeProofs

-----------------------------------------------------------------------------
(* What a handler's step does to the header and to its own call *)

\* The call moves on to one of the steps pcs and is otherwise what it was.
Moves(c, pcs) ==
    /\ call'[c].pc \in pcs
    /\ call'[c].op = call[c].op /\ call'[c].by = call[c].by
    /\ call'[c].reply = call[c].reply

NoHeader == [s \in {} |-> NoSecret]

WithSlot(s, x) == [n \in DOMAIN keyslots \cup {s} |-> IF n = s THEN x ELSE keyslots[n]]

\* The call ends without a change to the header; where that leaves something undone, why.
Ends(c) ==
    /\ UNCHANGED <<header, returned>>
    /\ call'[c] = Blank("done")
    /\ call[c].pc = "settoken" => \/ call[c].slot \notin DOMAIN keyslots \/ FreeTokens = {}
                                  \/ "write" \in mishap'
    /\ call[c].pc = "destroy" => call[c].slot \notin DOMAIN keyslots \/ "write" \in mishap'

\* A step that only reads the header.
Reads(c) ==
    /\ UNCHANGED <<header, returned>>
    /\ call[c].pc \notin {"add", "settoken", "rmtoken", "destroy", "wipefs", "format", "seed"}
    /\ Moves(c, Steps \ {"dupcheck", "settoken", "wipefs", "format", "seed"})
    /\ call'[c].slot = call[c].slot
    /\ call'[c].pc = "prepare" \/ call[c].pc # "dupcheck"
    /\ call'[c].pc = "prepare" => \/ \A t \in DOMAIN tokens : tokens[t].by # call[c].by
                                  \/ "read" \in mishap'
    /\ call'[c].pc = "fill" => call'[c].key = vk
    /\ call'[c].pc = "rmtoken" => /\ call'[c].tok \in DOMAIN tokens
                                  /\ call[c].slot \in tokens[call'[c].tok].slots
    /\ call'[c].pc = "destroy" => \/ \A t \in DOMAIN tokens : call[c].slot \notin tokens[t].slots
                                  \/ "read" \in mishap'

Adds(c) ==
    /\ call[c].pc = "add" /\ UNCHANGED <<vk, tokens, returned>>
    /\ \E s \in FreeSlots :
          /\ keyslots' = WithSlot(s, NewSecret(c))
          /\ IF call[c].by \in Passphrases
             THEN call'[c] = Blank("done")
             ELSE Moves(c, {"settoken"}) /\ call'[c].slot = s

Names(c) ==
    /\ call[c].pc = "settoken" /\ UNCHANGED <<vk, keyslots>>
    /\ call[c].slot \in DOMAIN keyslots
    /\ \E t \in FreeTokens :
          tokens' = [n \in DOMAIN tokens \cup {t} |->
                       IF n = t THEN NewToken(c, call[c].slot) ELSE tokens[n]]
    /\ returned' = IF call[c].by = "recovery" /\ call[c].reply = "awaited"
                   THEN returned \cup {c} ELSE returned
    /\ call'[c] = Blank("done")

Unnames(c) ==
    /\ call[c].pc = "rmtoken" /\ UNCHANGED <<vk, keyslots, returned>>
    /\ tokens' = [t \in DOMAIN tokens \ {call[c].tok} |-> tokens[t]]
    /\ Moves(c, {"destroy"}) /\ call'[c].slot = call[c].slot

Destroys(c) ==
    /\ call[c].pc = "destroy" /\ UNCHANGED <<vk, returned>>
    /\ call[c].slot \in DOMAIN keyslots
    /\ keyslots' = [s \in DOMAIN keyslots \ {call[c].slot} |-> keyslots[s]]
    /\ tokens' = [t \in DOMAIN tokens |-> [tokens[t] EXCEPT !.slots = @ \ {call[c].slot}]]
    /\ call'[c] = Blank("done")

\* wipefs, which may pass over the signature, and crypt_format.
Clears(c) ==
    /\ call[c].pc \in {"wipefs", "format"} /\ UNCHANGED returned
    /\ \/ UNCHANGED header
       \/ vk' \in {c, NoKey} /\ keyslots' = NoHeader /\ tokens' = NoHeader
    /\ Moves(c, {"format", "fill", "seed"}) /\ call'[c].slot = call[c].slot
    /\ call'[c].pc \in {"fill", "seed"} => vk' = c /\ call'[c].key = c

Seeds(c) ==
    /\ call[c].pc = "seed" /\ UNCHANGED <<vk, tokens, returned>>
    /\ \E s \in FreeSlots : keyslots' = WithSlot(s, call[c].cred)
    /\ call'[c] = Blank("done")

Effect(c) ==
    \/ Ends(c) \/ Reads(c) \/ Adds(c) \/ Names(c) \/ Unnames(c) \/ Destroys(c)
    \/ Clears(c) \/ Seeds(c)

\* What Goto leaves of the record.
LEMMA GotoMoves ==
    ASSUME TypeOK, NEW c \in Calls, NEW pc
    PROVE  /\ Goto(c, call[c], pc) =>
                Moves(c, {pc}) /\ call'[c].slot = call[c].slot /\ call'[c].key = call[c].key
           /\ \A k : Goto(c, [call[c] EXCEPT !.key = k], pc) =>
                Moves(c, {pc}) /\ call'[c].slot = call[c].slot /\ call'[c].key = k
           /\ \A x : Goto(c, [call[c] EXCEPT !.cred = x], pc) =>
                Moves(c, {pc}) /\ call'[c].slot = call[c].slot
           /\ \A t : Goto(c, [call[c] EXCEPT !.tok = t], pc) =>
                Moves(c, {pc}) /\ call'[c].slot = call[c].slot /\ call'[c].tok = t
           /\ \A s : Goto(c, [call[c] EXCEPT !.slot = s, !.key = NoKey], pc) =>
                Moves(c, {pc}) /\ call'[c].slot = s
  <1>0. call[c] \in CallRecord /\ call \in [Calls -> CallState]
    BY DEF TypeOK, CallState
  <1> USE <1>0 DEF Goto, CallRecord, Moves
  <1>1. Goto(c, call[c], pc) =>
           Moves(c, {pc}) /\ call'[c].slot = call[c].slot /\ call'[c].key = call[c].key
    OBVIOUS
  <1>2. \A k : Goto(c, [call[c] EXCEPT !.key = k], pc) =>
           Moves(c, {pc}) /\ call'[c].slot = call[c].slot /\ call'[c].key = k
    OBVIOUS
  <1>3. \A x : Goto(c, [call[c] EXCEPT !.cred = x], pc) =>
           Moves(c, {pc}) /\ call'[c].slot = call[c].slot
    OBVIOUS
  <1>4. \A t : Goto(c, [call[c] EXCEPT !.tok = t], pc) =>
           Moves(c, {pc}) /\ call'[c].slot = call[c].slot /\ call'[c].tok = t
    OBVIOUS
  <1>5. \A s : Goto(c, [call[c] EXCEPT !.slot = s, !.key = NoKey], pc) =>
           Moves(c, {pc}) /\ call'[c].slot = s
    OBVIOUS
  <1>6. QED
    BY <1>1, <1>2, <1>3, <1>4, <1>5

\* Every step of a handler has one of these effects.
LEMMA HandlerEffect ==
    ASSUME TypeOK, NEW c \in Calls, HandlerStep(c)
    PROVE  Effect(c)
  <1>0. Return(c) => call'[c] = Blank("done")
    BY ReturnAdvances
  <1>1. ASSUME NEW kind, FailStep(c, kind), call[c].pc \notin {"settoken", "destroy"} \/ kind = "write"
        PROVE  Ends(c)
    BY <1>0, <1>1 DEF FailStep, Fault, Ends
  <1>2. ASSUME Return(c), UNCHANGED <<header, returned>>,
               call[c].pc \notin {"settoken", "destroy"}
        PROVE  Ends(c)
    BY <1>0, <1>2 DEF Ends
  <1>3. ASSUME NEW k, WithKey(c, k), UNCHANGED <<header, returned>>,
               call[c].pc \in {"getkey", "fill"}
        PROVE  Effect(c)
    <2>1. AfterKey(call[c].op) \in {"add", "check", "done"}
      BY DEF AfterKey
    <2>2. CASE AfterKey(call[c].op) = "done"
      BY <1>2, <1>3, <2>2 DEF WithKey, Effect
    <2>3. CASE AfterKey(call[c].op) \in {"add", "check"}
      <3>1. \E x : Goto(c, [call[c] EXCEPT !.key = x], AfterKey(call[c].op))
        BY <1>3, <2>3 DEF WithKey
      <3>2. Moves(c, {AfterKey(call[c].op)}) /\ call'[c].slot = call[c].slot
        BY <3>1, GotoMoves
      <3>3. Reads(c)
        BY <1>3, <2>3, <3>2 DEF Reads, Moves, Steps
      <3>4. QED
        BY <3>3 DEF Effect
    <2>4. QED
      BY <2>1, <2>2, <2>3
  <1>4. CASE GetVolumeKeyHit(c) \/ CacheVolumeKey(c)
    BY <1>3, <1>4 DEF GetVolumeKeyHit, CacheVolumeKey
  <1>5. CASE GetVolumeKeyMiss(c)
    <2>1. PICK pc \in {"derive", "extract"} : Goto(c, call[c], pc)
      BY <1>5 DEF GetVolumeKeyMiss
    <2>2. Moves(c, {pc}) /\ call'[c].slot = call[c].slot
      BY <2>1, GotoMoves
    <2>3. QED
      BY <1>5, <2>2 DEF GetVolumeKeyMiss, Reads, Moves, Steps, Effect
  <1>6. CASE DerivePassphraseFromToken(c)
    <2>1. CASE FailStep(c, "device")
      BY <1>1, <1>6, <2>1 DEF DerivePassphraseFromToken, Effect
    <2>2. CASE Return(c) /\ UNCHANGED <<header, returned>>
      BY <1>2, <1>6, <2>2 DEF DerivePassphraseFromToken, Effect
    <2>3. CASE UNCHANGED <<header, returned>> /\ \E x : Goto(c, [call[c] EXCEPT !.cred = x], "extract")
      <3>1. Moves(c, {"extract"}) /\ call'[c].slot = call[c].slot
        BY <2>3, GotoMoves
      <3>2. QED
        BY <1>6, <2>3, <3>1 DEF DerivePassphraseFromToken, Reads, Moves, Steps, Effect
    <2>4. QED
      BY <1>6, <2>1, <2>2, <2>3 DEF DerivePassphraseFromToken
  <1>7. CASE ExtractVolumeKey(c)
    <2>1. CASE FailStep(c, "read")
      BY <1>1, <1>7, <2>1 DEF ExtractVolumeKey, Effect
    <2>2. CASE Return(c) /\ UNCHANGED <<header, returned>>
      BY <1>2, <1>7, <2>2 DEF ExtractVolumeKey, Effect
    <2>3. CASE UNCHANGED <<header, returned>> /\ Goto(c, [call[c] EXCEPT !.key = vk], "fill")
      <3>1. Moves(c, {"fill"}) /\ call'[c].slot = call[c].slot /\ call'[c].key = vk
        BY <2>3, GotoMoves
      <3>2. QED
        BY <1>7, <2>3, <3>1 DEF ExtractVolumeKey, Reads, Moves, Steps, Effect
    <2>4. QED
      BY <1>7, <2>1, <2>2, <2>3 DEF ExtractVolumeKey
  <1>8. CASE CheckNotEnrolled(c)
    <2>1. CASE Return(c)
      BY <1>2, <1>8, <2>1 DEF CheckNotEnrolled, Effect
    <2>2. CASE Goto(c, call[c], "prepare") /\ ~Return(c)
      <3>1. Moves(c, {"prepare"}) /\ call'[c].slot = call[c].slot
        BY <2>2, GotoMoves
      <3>2. QED
        BY <1>8, <2>2, <3>1 DEF CheckNotEnrolled, Fault, Reads, Moves, Steps, Effect
    <2>3. QED
      BY <1>8, <2>1, <2>2 DEF CheckNotEnrolled
  <1>9. CASE Prepare(c)
    <2>1. CASE FailStep(c, "device")
      BY <1>1, <1>9, <2>1 DEF Prepare, Effect
    <2>2. CASE UNCHANGED <<header, returned>> /\ Goto(c, call[c], "getkey")
      <3>1. Moves(c, {"getkey"}) /\ call'[c].slot = call[c].slot
        BY <2>2, GotoMoves
      <3>2. QED
        BY <1>9, <2>2, <3>1 DEF Prepare, Reads, Moves, Steps, Effect
    <2>3. QED
      BY <1>9, <2>1, <2>2 DEF Prepare
  <1>10. CASE AddKeyslotByVolumeKey(c)
    <2>1. CASE FailStep(c, "write")
      BY <1>1, <2>1 DEF Effect
    <2>2. CASE Return(c) /\ UNCHANGED <<header, returned>>
      BY <1>2, <1>10, <2>2 DEF AddKeyslotByVolumeKey, Effect
    <2>3. ASSUME NEW s \in FreeSlots, UNCHANGED <<vk, tokens, returned>>,
                 keyslots' = WithSlot(s, NewSecret(c)),
                 IF call[c].by \in Passphrases THEN Return(c)
                 ELSE Goto(c, [call[c] EXCEPT !.slot = s, !.key = NoKey], "settoken")
          PROVE  Adds(c)
      BY <1>0, <1>10, <2>3, GotoMoves DEF AddKeyslotByVolumeKey, Adds
    <2>4. QED
      BY <1>10, <2>1, <2>2, <2>3 DEF AddKeyslotByVolumeKey, Effect, WithSlot
  <1>11. CASE SetToken(c)
    <2>1. CASE FailStep(c, "write")
      BY <1>1, <2>1 DEF Effect
    <2>2. CASE /\ Return(c) /\ UNCHANGED <<header, returned>>
               /\ call[c].slot \notin DOMAIN keyslots \/ FreeTokens = {}
      BY <1>0, <1>11, <2>2 DEF SetToken, Ends, Effect
    <2>3. QED
      BY <1>0, <1>11, <2>1, <2>2 DEF SetToken, Names, Effect
  <1>12. CASE CheckLastKeyslot(c)
    <2>1. CASE Return(c)
      BY <1>2, <1>12, <2>1 DEF CheckLastKeyslot, Effect
    <2>2. CASE Goto(c, call[c], "findtoken")
      <3>1. Moves(c, {"findtoken"}) /\ call'[c].slot = call[c].slot
        BY <2>2, GotoMoves
      <3>2. QED
        BY <1>12, <2>2, <3>1 DEF CheckLastKeyslot, Reads, Moves, Steps, Effect
    <2>3. QED
      BY <1>12, <2>1, <2>2 DEF CheckLastKeyslot
  <1>13. CASE FindTokenForKeyslot(c)
    <2>1. ASSUME NEW t \in DOMAIN tokens, call[c].slot \in tokens[t].slots,
                 Goto(c, [call[c] EXCEPT !.tok = t], "rmtoken")
          PROVE  Reads(c)
      <3>1. Moves(c, {"rmtoken"}) /\ call'[c].slot = call[c].slot /\ call'[c].tok = t
        BY <2>1, GotoMoves
      <3>2. QED
        BY <1>13, <2>1, <3>1 DEF FindTokenForKeyslot, Reads, Moves, Steps
    <2>2. ASSUME \/ \A t \in DOMAIN tokens : call[c].slot \notin tokens[t].slots
                 \/ "read" \in mishap',
                 Goto(c, call[c], "destroy")
          PROVE  Reads(c)
      <3>1. Moves(c, {"destroy"}) /\ call'[c].slot = call[c].slot
        BY <2>2, GotoMoves
      <3>2. QED
        BY <1>13, <2>2, <3>1 DEF FindTokenForKeyslot, Reads, Moves, Steps
    <2>3. QED
      BY <1>13, <2>1, <2>2 DEF FindTokenForKeyslot, Fault, Effect
  <1>14. CASE RemoveToken(c)
    <2>1. CASE FailStep(c, "write")
      BY <1>1, <2>1 DEF Effect
    <2>2. CASE Return(c) /\ UNCHANGED <<header, returned>>
      BY <1>2, <1>14, <2>2 DEF RemoveToken, Effect
    <2>3. CASE /\ tokens' = [t \in DOMAIN tokens \ {call[c].tok} |-> tokens[t]]
               /\ Goto(c, call[c], "destroy")
               /\ UNCHANGED <<vk, keyslots, returned>>
      BY <1>14, <2>3, GotoMoves DEF RemoveToken, Unnames, Effect
    <2>4. QED
      BY <1>14, <2>1, <2>2, <2>3 DEF RemoveToken
  <1>15. CASE DestroyKeyslot(c)
    <2>1. CASE FailStep(c, "write")
      BY <1>1, <2>1 DEF Effect
    <2>2. CASE /\ Return(c) /\ UNCHANGED <<header, returned>>
               /\ call[c].slot \notin DOMAIN keyslots
      BY <1>0, <1>15, <2>2 DEF DestroyKeyslot, Ends, Effect
    <2>3. QED
      BY <1>0, <1>15, <2>1, <2>2 DEF DestroyKeyslot, Destroys, Effect
  <1>16. CASE WipeSignatures(c)
    <2>1. CASE FailStep(c, "write")
      BY <1>1, <2>1 DEF Effect
    <2>2. CASE Goto(c, call[c], "format") /\ ~FailStep(c, "write")
      <3>1. Moves(c, {"format"}) /\ call'[c].slot = call[c].slot
        BY <2>2, GotoMoves
      <3>2. QED
        BY <1>16, <2>2, <3>1 DEF WipeSignatures, Clears, Moves, NoHeader, Effect
    <2>3. QED
      BY <1>16, <2>1, <2>2 DEF WipeSignatures
  <1>17. CASE FormatLuks2(c)
    <2>1. CASE FailStep(c, "write")
      BY <1>1, <2>1 DEF Effect
    <2>2. CASE ~FailStep(c, "write")
      <3>1. PICK pc \in {"fill", "seed"} : Goto(c, [call[c] EXCEPT !.key = c], pc)
        BY <1>17, <2>2 DEF FormatLuks2
      <3>2. Moves(c, {pc}) /\ call'[c].slot = call[c].slot /\ call'[c].key = c
        BY <3>1, GotoMoves
      <3>3. QED
        BY <1>17, <2>2, <3>2 DEF FormatLuks2, Clears, Moves, NoHeader, Effect
    <2>3. QED
      BY <2>1, <2>2
  <1>18. CASE SeedPassphrase(c)
    <2>1. CASE FailStep(c, "write")
      BY <1>1, <2>1 DEF Effect
    <2>2. CASE Return(c) /\ UNCHANGED <<header, returned>>
      BY <1>2, <1>18, <2>2 DEF SeedPassphrase, Effect
    <2>3. QED
      BY <1>0, <1>18, <2>1, <2>2 DEF SeedPassphrase, Seeds, WithSlot, Effect
  <1>19. QED
    BY <1>4, <1>5, <1>6, <1>7, <1>8, <1>9, <1>10, <1>11, <1>12, <1>13, <1>14, <1>15, <1>16,
       <1>17, <1>18 DEF HandlerStep, KeyStep

-----------------------------------------------------------------------------
(* The three kinds of step *)

\* A call begins; it has touched nothing yet.
Admits(c) ==
    /\ UNCHANGED <<header, returned, cache, proc>>
    /\ call[c].pc = "new"
    /\ \A d \in Calls : d # c => call'[d] = call[d]
    /\ call'[c].pc \in {"extract", "derive", "dupcheck", "prepare", "getkey", "wipefs"}
    /\ call'[c].reply = "awaited"
    /\ call'[c].by \in Authenticators => call'[c].pc = "dupcheck"
    /\ InFlight = {} \/ "overlap" \in mishap'
    /\ \/ "race" \in mishap'
       \/ \A d \in InFlight : {call'[c].op, call[d].op} \cap {"wipe", "format"} = {}

\* A handler takes one of its steps.
Works(c) ==
    /\ c \in InFlight /\ proc' = proc
    /\ Advances(c) /\ Effect(c)

\* Expiry, a lost reply, the end of a process: the header is left alone, and so are the
\* calls, but for those that are cut off.
Surrounds ==
    /\ UNCHANGED <<header, returned>>
    /\ \A d \in Calls :
          \/ call'[d] = Blank("done") /\ "stop" \in mishap'
          \/ /\ call'[d].pc = call[d].pc /\ call'[d].op = call[d].op
             /\ call'[d].by = call[d].by /\ call'[d].slot = call[d].slot
             /\ call'[d].tok = call[d].tok /\ call'[d].key = call[d].key
             /\ call'[d].reply = call[d].reply \/ "lost" \in mishap'

LEMMA ClientAdmits ==
    ASSUME TypeOK, NEW c \in Calls, ClientCall(c)
    PROVE  Admits(c)
  <1> DEFINE First == {"extract", "derive", "dupcheck", "prepare", "getkey", "wipefs"}
  <1>1. ASSUME NEW op, NEW pc \in First, NEW by, NEW cred, NEW slot,
               by \in Authenticators => pc = "dupcheck",
               Begin(c, Request(op, pc, by, cred, slot))
        PROVE  Admits(c)
    <2>1. call'[c] = Request(op, pc, by, cred, slot)
      BY <1>1 DEF Begin, TypeOK
    <2>2. /\ call'[c].op = op /\ call'[c].pc = pc /\ call'[c].by = by
          /\ call'[c].reply = "awaited"
      BY <2>1 DEF Request
    <2>3. \/ "race" \in mishap'
          \/ \A d \in InFlight : {op, call[d].op} \cap {"wipe", "format"} = {}
      BY <1>1 DEF Begin, Request
    <2>4. InFlight = {} \/ "overlap" \in mishap'
      BY <1>1 DEF Begin
    <2>5. /\ UNCHANGED <<header, returned, cache, proc>> /\ call[c].pc = "new"
          /\ \A d \in Calls : d # c => call'[d] = call[d]
      BY <1>1 DEF Begin, TypeOK
    <2>6. QED
      BY <1>1, <2>2, <2>3, <2>4, <2>5 DEF Admits
  <1>2. \E op, by, cred, slot : \E pc \in First :
            /\ by \in Authenticators => pc = "dupcheck"
            /\ Begin(c, Request(op, pc, by, cred, slot))
    <2>1. /\ NoSecret \notin Authenticators /\ "tpm2" \notin Authenticators
          /\ "recovery" \notin Authenticators
          /\ \A p \in Passphrases : p \notin Authenticators
      BY SecretsAssumption
    <2>2. CASE VerifyPassphrase(c)
      BY <2>1, <2>2 DEF VerifyPassphrase
    <2>3. CASE UnlockWithToken(c)
      BY <2>1, <2>3 DEF UnlockWithToken
    <2>4. CASE EnrollFido2(c)
      BY <2>4 DEF EnrollFido2
    <2>5. CASE EnrollTpm2(c) \/ EnrollRecoveryKey(c)
      BY <2>1, <2>5 DEF EnrollTpm2, EnrollRecoveryKey
    <2>6. CASE EnrollPassphrase(c)
      BY <2>1, <2>6 DEF EnrollPassphrase
    <2>7. CASE WipeSlot(c) \/ FormatPartition(c)
      BY <2>1, <2>7 DEF WipeSlot, FormatPartition
    <2>8. QED
      BY <2>2, <2>3, <2>4, <2>5, <2>6, <2>7 DEF ClientCall
  <1>3. QED
    BY <1>1, <1>2

\* Every step is of one of these kinds.
LEMMA StepKinds ==
    ASSUME TypeOK, [Next]_vars
    PROVE  Surrounds \/ \E c \in Calls : Admits(c) \/ Works(c)
  <1>1. ASSUME NEW c \in Calls, HandlerStep(c) PROVE Works(c)
    BY <1>1, HandlerAdvances, HandlerEffect DEF Works
  <1>2. ASSUME NEW c \in Calls, LoseReply(c) PROVE Surrounds
    BY <1>2 DEF LoseReply, Surrounds, Fault, TypeOK, CallState, CallRecord
  <1>3. CASE UNCHANGED <<header, returned, call>>
    BY <1>3 DEF Surrounds
  <1>4. CASE ServiceExit
    <2>1. \A d \in InFlight : "lost" \in mishap'
      BY <1>4 DEF ServiceExit, Fault
    <2>2. QED
      BY <1>4, <2>1 DEF ServiceExit, Surrounds, TypeOK, CallState, CallRecord
  <1>5. CASE ServiceKilled
    BY <1>5 DEF ServiceKilled, Surrounds, Fault
  <1>6. QED
    BY <1>1, <1>2, <1>3, <1>4, <1>5, ClientAdmits DEF Next, vars, Expire, header

-----------------------------------------------------------------------------
(* Tokens and the keyslots they name *)

\* While no call has overlapped a wipe or a format: those work alone, the key a call is
\* about to cache is the volume's, and the keyslot a call is about to name in a token is
\* the one it added.  A token written by SetToken is right only because of the last.
InHand ==
    /\ \A c, d \in InFlight : c # d => call[c].op \notin {"wipe", "format"}
    /\ \A c \in InFlight : call[c].pc = "fill" => call[c].key = vk
    /\ \A c \in InFlight : call[c].pc = "settoken" =>
          call[c].slot \in DOMAIN keyslots /\ keyslots[call[c].slot] = c

InStep == ("race" \notin mishap => InHand) /\ TokenOpensItsKeyslot

LEMMA InStepStep == TypeOK /\ InStep /\ [Next]_vars => InStep'
  <1> SUFFICES ASSUME TypeOK, InStep, [Next]_vars, "race" \notin mishap' PROVE InStep'
    BY DEF InStep, TokenOpensItsKeyslot, Struck
  <1> DEFINE Names1(k, ts) ==
               \A t \in DOMAIN ts : ts[t].secret # NoSecret =>
                   \A s \in ts[t].slots : s \in DOMAIN k /\ k[s] = ts[t].secret
  <1>0. InHand /\ Names1(keyslots, tokens)
    BY MishapsStay DEF InStep, TokenOpensItsKeyslot, Struck
  <1>1. SUFFICES InHand' /\ Names1(keyslots', tokens')
    BY DEF InStep, TokenOpensItsKeyslot
  <1>2. \A c \in InFlight : /\ call[c].pc = "destroy" => call[c].op = "wipe"
                            /\ call[c].pc \in {"wipefs", "format", "seed"} => call[c].op = "format"
    BY DEF InFlight, TypeOK, CallState, WellFormed
  <1>3. CASE Surrounds
    <2>1. InFlight' \subseteq InFlight
      BY <1>3 DEF Surrounds, InFlight, Blank, Steps
    <2>2. \A d \in InFlight' : /\ call'[d].pc = call[d].pc /\ call'[d].op = call[d].op
                               /\ call'[d].slot = call[d].slot /\ call'[d].key = call[d].key
      BY <1>3 DEF Surrounds, InFlight, Blank, Steps
    <2>3. QED
      BY <1>0, <1>3, <2>1, <2>2 DEF InHand, Surrounds, header
  <1>4. ASSUME NEW c \in Calls, Admits(c) PROVE InHand' /\ Names1(keyslots', tokens')
    <2>1. InFlight' \subseteq InFlight \cup {c} /\ c \notin InFlight /\ InFlight \subseteq Calls
      BY <1>4 DEF Admits, InFlight, Steps
    <2>2. \A d \in InFlight' : d # c => d \in InFlight /\ call'[d] = call[d]
      BY <1>4, <2>1 DEF Admits
    <2>3. \A d, e \in InFlight' : d # e => call'[d].op \notin {"wipe", "format"}
      BY <1>0, <1>4, <2>1, <2>2 DEF InHand, Admits
    <2>4. QED
      BY <1>0, <1>4, <2>2, <2>3 DEF InHand, Admits, header
  <1>5. ASSUME NEW c \in Calls, Works(c) PROVE InHand' /\ Names1(keyslots', tokens')
    <2>1. /\ c \in InFlight /\ InFlight' \subseteq InFlight /\ InFlight \subseteq Calls
          /\ \A d \in InFlight' : call'[d].op = call[d].op
          /\ \A d \in Calls : d # c => call'[d] = call[d]
          /\ call'[c] = Blank("done") => c \notin InFlight'
      BY <1>5 DEF Works, Advances, InFlight, Blank, Steps
    <2>2. \A d, e \in InFlight' : d # e => call'[d].op \notin {"wipe", "format"}
      BY <1>0, <2>1 DEF InHand
    <2>3. \A d \in InFlight' : d # c =>
             /\ call'[d].pc = "fill" => call'[d].key = vk
             /\ call'[d].pc = "settoken" =>
                   call'[d].slot \in DOMAIN keyslots /\ keyslots[call'[d].slot] = d
      BY <1>0, <2>1 DEF InHand
    <2> DEFINE Grows == /\ vk' = vk /\ DOMAIN keyslots \subseteq DOMAIN keyslots'
                        /\ \A s \in DOMAIN keyslots : keyslots'[s] = keyslots[s]
    <2>31. ASSUME Names1(keyslots', tokens'),
                  c \in InFlight' => /\ call'[c].pc = "fill" => call'[c].key = vk'
                                     /\ call'[c].pc = "settoken" =>
                                          /\ call'[c].slot \in DOMAIN keyslots'
                                          /\ keyslots'[call'[c].slot] = c,
                  Grows \/ \A d \in InFlight' : d = c
           PROVE  InHand' /\ Names1(keyslots', tokens')
      <3>1. \A d \in InFlight' : call'[d].pc = "fill" => call'[d].key = vk'
        BY <2>3, <2>31
      <3>2. \A d \in InFlight' : call'[d].pc = "settoken" =>
                    call'[d].slot \in DOMAIN keyslots' /\ keyslots'[call'[d].slot] = d
        BY <2>3, <2>31
      <3>3. QED
        BY <2>2, <2>31, <3>1, <3>2 DEF InHand
    <2>4. CASE Ends(c)
      BY <1>0, <2>1, <2>31, <2>4 DEF Ends, header
    <2>5. CASE Reads(c)
      BY <1>0, <2>31, <2>5 DEF Reads, Moves, header
    <2>6. CASE Adds(c)
      <3>1. PICK s \in FreeSlots :
               /\ keyslots' = WithSlot(s, NewSecret(c))
               /\ IF call[c].by \in Passphrases
                  THEN call'[c] = Blank("done")
                  ELSE Moves(c, {"settoken"}) /\ call'[c].slot = s
        BY <2>6 DEF Adds
      <3>2. /\ DOMAIN keyslots' = DOMAIN keyslots \cup {s} /\ s \notin DOMAIN keyslots
            /\ keyslots'[s] = NewSecret(c) /\ \A n \in DOMAIN keyslots : keyslots'[n] = keyslots[n]
        BY <3>1 DEF WithSlot, FreeSlots
      <3>3. Names1(keyslots', tokens')
        BY <1>0, <2>6, <3>2 DEF Adds
      <3>4. NewSecret(c) = c \/ call[c].by \in Passphrases
        BY DEF NewSecret
      <3>5. QED
        BY <2>1, <2>31, <2>6, <3>1, <3>2, <3>3, <3>4 DEF Adds, Moves
    <2>7. CASE Names(c)
      <3>1. PICK t \in FreeTokens :
               tokens' = [n \in DOMAIN tokens \cup {t} |->
                            IF n = t THEN NewToken(c, call[c].slot) ELSE tokens[n]]
        BY <2>7 DEF Names
      <3>2. /\ DOMAIN tokens' = DOMAIN tokens \cup {t}
            /\ tokens'[t] = NewToken(c, call[c].slot)
            /\ \A n \in DOMAIN tokens : n # t => tokens'[n] = tokens[n]
        BY <3>1
      <3>3. keyslots[call[c].slot] = c /\ call[c].slot \in DOMAIN keyslots
        BY <1>0, <2>1, <2>7 DEF InHand, Names
      <3>4. NewToken(c, call[c].slot).slots = {call[c].slot} /\ NewToken(c, call[c].slot).secret \in {c, NoSecret}
        BY DEF NewToken
      <3>5. Names1(keyslots', tokens')
        BY <1>0, <2>7, <3>2, <3>3, <3>4 DEF Names
      <3>6. QED
        BY <2>1, <2>31, <2>7, <3>5 DEF Names
    <2>8. CASE Unnames(c)
      <3>1. Names1(keyslots', tokens')
        BY <1>0, <2>8 DEF Unnames
      <3>2. QED
        BY <2>31, <2>8, <3>1 DEF Unnames, Moves
    <2>9. CASE Destroys(c) \/ Clears(c) \/ Seeds(c)
      <3>1. \A d \in InFlight' : d = c
        BY <1>0, <1>2, <2>1, <2>9 DEF InHand, Destroys, Clears, Seeds
      <3>2. CASE Destroys(c)
        <4>1. \A t \in DOMAIN tokens' : /\ t \in DOMAIN tokens
                                        /\ tokens'[t].secret = tokens[t].secret
                                        /\ tokens'[t].slots = tokens[t].slots \ {call[c].slot}
          BY <3>2 DEF Destroys, TypeOK, Token
        <4>2. Names1(keyslots', tokens')
          BY <1>0, <3>2, <4>1 DEF Destroys
        <4>3. QED
          BY <2>1, <2>31, <3>1, <3>2, <4>2 DEF Destroys
      <3>3. CASE Clears(c)
        <4>1. Names1(keyslots', tokens')
          BY <1>0, <3>3 DEF Clears, NoHeader, header
        <4>2. QED
          BY <2>31, <3>1, <3>3, <4>1 DEF Clears, Moves
      <3>4. CASE Seeds(c)
        <4>1. PICK s \in FreeSlots : keyslots' = WithSlot(s, call[c].cred)
          BY <3>4 DEF Seeds
        <4>2. Names1(keyslots', tokens')
          BY <1>0, <3>4, <4>1 DEF Seeds, WithSlot, FreeSlots
        <4>3. QED
          BY <2>1, <2>31, <3>1, <3>4, <4>2 DEF Seeds
      <3>5. QED
        BY <2>9, <3>2, <3>3, <3>4
    <2>10. QED
      BY <1>5, <2>4, <2>5, <2>6, <2>7, <2>8, <2>9 DEF Works, Effect
  <1>6. QED
    BY <1>3, <1>4, <1>5, StepKinds

LEMMA InStepInvariant == Spec => []InStep
  <1>1. Init => InStep
    BY DEF Init, InStep, InHand, TokenOpensItsKeyslot, InFlight, Blank, Steps
  <1>2. QED
    BY <1>1, TypeCorrect, InStepStep, PTL DEF Spec

\* A token that stores a secret always stores the one that opens the keyslots it names, for
\* every number of slots and tokens and through every fault, as long as no call overlaps a
\* wipe or a format: keyslot numbers are reused, tokens never outlive the keyslot they name.
THEOREM TokensMatchKeyslots == Spec => []TokenOpensItsKeyslot
  BY InStepInvariant, PTL DEF InStep

\* The recovery key that EnrollRecoveryKey's reply carries opens the volume when it is
\* handed out, because its keyslot is added, and stays, before its token is written.
THEOREM RecoveryKeyOpens == Spec => DeliveredRecoveryKeyOpens
  <1>1. ASSUME TypeOK, InStep, [Next]_vars, NEW c \in returned' \ returned, "race" \notin mishap'
        PROVE  \E s \in DOMAIN keyslots' : keyslots'[s] = c
    <2>1. InHand
      BY <1>1, MishapsStay DEF InStep
    <2>2. PICK d \in Calls : Works(d) /\ returned' # returned
      BY <1>1, StepKinds DEF Surrounds, Admits
    <2>3. Names(d)
      BY <2>2 DEF Works, Effect, Ends, Reads, Adds, Unnames, Destroys, Clears, Seeds
    <2>4. d = c /\ d \in InFlight /\ call[d].pc = "settoken" /\ keyslots' = keyslots
      BY <1>1, <2>2, <2>3 DEF Names, Works
    <2>5. QED
      BY <2>1, <2>4 DEF InHand
  <1>2. TypeOK /\ InStep /\ [Next]_vars
          => [\A c \in returned' \ returned :
                "race" \in mishap' \/ \E s \in DOMAIN keyslots' : keyslots'[s] = c]_vars
    BY <1>1
  <1>3. QED
    BY <1>2, TypeCorrect, InStepInvariant, PTL DEF Spec, DeliveredRecoveryKeyOpens

\* The cached key of a volume without keyslots, its only copy, is neither replaced nor
\* dropped before its time is up: a call that fills the cache fills it with the volume's key.
THEOREM KeylessKeySafe == Spec => KeylessKeyKept
  <1>1. ASSUME TypeOK, InStep, [Next]_vars, vk # NoKey, CachedVolumeKey(proc) = vk,
               vk' = vk, proc' = proc, "race" \notin mishap'
        PROVE  cache'[proc].key = vk
    <2>1. InHand
      BY <1>1, MishapsStay DEF InStep
    <2>2. cache[proc].key = vk /\ cache[proc].fresh /\ cache \in [Procs -> [key : Keys \cup {NoKey}, fresh : BOOLEAN]] /\ proc \in Procs
      BY <1>1 DEF CachedVolumeKey, TypeOK
    <2>3. CASE UNCHANGED cache
      BY <2>2, <2>3
    <2>4. ASSUME NEW c \in Calls, GetVolumeKeyMiss(c) PROVE cache'[proc].key = vk
      <3>1. call[c].proc # proc
        BY <1>1, <2>4 DEF GetVolumeKeyMiss, IsVolumeKeyCached
      <3>2. QED
        BY <2>2, <2>4, <3>1 DEF GetVolumeKeyMiss
    <2>5. ASSUME NEW c \in Calls, CacheVolumeKey(c) PROVE cache'[proc].key = vk
      <3>1. c \in InFlight /\ call[c].pc = "fill"
        BY <2>5 DEF CacheVolumeKey, InFlight, Steps
      <3>2. call[c].key = vk
        BY <2>1, <3>1 DEF InHand
      <3>3. QED
        BY <2>2, <2>5, <3>2 DEF CacheVolumeKey
    <2>6. ASSUME NEW p \in Procs, Expire(p) PROVE cache'[proc].key = vk
      BY <2>2, <2>6 DEF Expire
    <2>7. ASSUME NEW c \in Calls, HandlerStep(c), ~GetVolumeKeyMiss(c), ~CacheVolumeKey(c)
          PROVE  UNCHANGED cache
      BY <2>7 DEF HandlerStep, KeyStep, GetVolumeKeyHit, DerivePassphraseFromToken,
         ExtractVolumeKey, CheckNotEnrolled, Prepare, AddKeyslotByVolumeKey, SetToken,
         CheckLastKeyslot, FindTokenForKeyslot, RemoveToken, DestroyKeyslot, WipeSignatures,
         FormatLuks2, SeedPassphrase, FailStep
    <2>8. ~ServiceKilled
      BY <1>1 DEF ServiceKilled, TypeOK, Procs
    <2>9. ASSUME NEW c \in Calls, ClientCall(c) \/ LoseReply(c) PROVE UNCHANGED cache
      BY <1>1, <2>9, ClientCallAdmits DEF LoseReply
    <2>10. CASE ServiceExit \/ UNCHANGED vars
      BY <2>3, <2>10 DEF ServiceExit, vars
    <2>11. QED
      BY <1>1, <2>3, <2>4, <2>5, <2>6, <2>7, <2>8, <2>9, <2>10 DEF Next
  <1>2. TypeOK /\ InStep /\ [Next]_vars
          => [(/\ DOMAIN keyslots = {} /\ vk # NoKey /\ CachedVolumeKey(proc) = vk
               /\ vk' = vk /\ proc' = proc /\ "race" \notin mishap')
                => cache'[proc].key = vk]_vars
    BY <1>1
  <1>3. QED
    BY <1>2, TypeCorrect, InStepInvariant, PTL DEF Spec, KeylessKeyKept

-----------------------------------------------------------------------------
(* One token per authenticator *)

\* With one call at a time, readable metadata and clear probes, what op_enroll_fido2's
\* duplicate check found is still so when the token is written, four calls later.
StillNotEnrolled ==
    /\ \A c, d \in InFlight : c = d
    /\ \A c \in InFlight : (call[c].by \in Authenticators /\ call[c].pc # "dupcheck")
                              => \A t \in DOMAIN tokens : tokens[t].by # call[c].by

NotTwice == (~Struck({"overlap", "read"}) => StillNotEnrolled) /\ OneTokenPerAuthenticator

LEMMA NotTwiceStep == TypeOK /\ NotTwice /\ [Next]_vars => NotTwice'
  <1> DEFINE Distinct(ts) ==
               \A t, u \in DOMAIN ts :
                  (ts[t].by = ts[u].by /\ ts[t].by \in Authenticators) => t = u
  <1> SUFFICES ASSUME TypeOK, NotTwice, [Next]_vars, mishap' \cap {"overlap", "read"} = {}
               PROVE  StillNotEnrolled' /\ Distinct(tokens')
    BY DEF NotTwice, OneTokenPerAuthenticator, Struck
  <1>0. StillNotEnrolled /\ Distinct(tokens)
    BY MishapsStay DEF NotTwice, OneTokenPerAuthenticator, Struck
  <1>1. CASE Surrounds
    <2>1. InFlight' \subseteq InFlight
      BY <1>1 DEF Surrounds, InFlight, Blank, Steps
    <2>2. \A d \in InFlight' : call'[d].pc = call[d].pc /\ call'[d].by = call[d].by
      BY <1>1 DEF Surrounds, InFlight, Blank, Steps
    <2>3. QED
      BY <1>0, <1>1, <2>1, <2>2 DEF StillNotEnrolled, Surrounds, header
  <1>2. ASSUME NEW c \in Calls, Admits(c) PROVE StillNotEnrolled' /\ Distinct(tokens')
    <2>1. InFlight' \subseteq InFlight \cup {c}
      BY <1>2 DEF Admits, InFlight
    <2>2. InFlight = {}
      BY <1>2 DEF Admits
    <2>3. QED
      BY <1>0, <1>2, <2>1, <2>2 DEF StillNotEnrolled, Admits, header
  <1>3. ASSUME NEW c \in Calls, Works(c) PROVE StillNotEnrolled' /\ Distinct(tokens')
    <2>1. /\ c \in InFlight /\ \A d \in InFlight' : d = c
          /\ call'[c] = Blank("done") => InFlight' = {}
      BY <1>0, <1>3 DEF StillNotEnrolled, Works, Advances, InFlight, Blank, Steps
    <2>2. (call[c].by \in Authenticators /\ call[c].pc # "dupcheck")
              => \A t \in DOMAIN tokens : tokens[t].by # call[c].by
      BY <1>0, <2>1 DEF StillNotEnrolled
    <2>3. ASSUME \/ call'[c] = Blank("done")
                 \/ /\ call'[c].by = call[c].by
                    /\ call'[c].by \in Authenticators
                          => \A t \in DOMAIN tokens' : tokens'[t].by # call'[c].by
          PROVE  StillNotEnrolled'
      BY <2>1, <2>3 DEF StillNotEnrolled
    <2>4. CASE Ends(c)
      BY <1>0, <2>3, <2>4 DEF Ends, header
    <2>5. CASE Reads(c)
      <3>1. call[c].by \in Authenticators => \A t \in DOMAIN tokens : tokens[t].by # call[c].by
        BY <2>2, <2>5 DEF Reads
      <3>2. QED
        BY <1>0, <2>3, <2>5, <3>1 DEF Reads, Moves, header
    <2>6. CASE Adds(c) \/ Seeds(c)
      BY <1>0, <2>2, <2>3, <2>6 DEF Adds, Seeds, Moves
    <2>7. CASE Names(c)
      <3>1. PICK t \in FreeTokens :
               tokens' = [n \in DOMAIN tokens \cup {t} |->
                            IF n = t THEN NewToken(c, call[c].slot) ELSE tokens[n]]
        BY <2>7 DEF Names
      <3>2. /\ DOMAIN tokens' = DOMAIN tokens \cup {t}
            /\ tokens'[t].by = call[c].by
            /\ \A n \in DOMAIN tokens : n # t => tokens'[n].by = tokens[n].by
        BY <3>1 DEF NewToken
      <3>3. Distinct(tokens')
        BY <1>0, <2>2, <2>7, <3>2 DEF Names
      <3>4. QED
        BY <2>3, <2>7, <3>3 DEF Names
    <2>8. CASE Unnames(c)
      BY <1>0, <2>2, <2>3, <2>8 DEF Unnames, Moves
    <2>9. CASE Destroys(c)
      <3>1. DOMAIN tokens' = DOMAIN tokens /\ \A t \in DOMAIN tokens : tokens'[t].by = tokens[t].by
        BY <2>9 DEF Destroys, TypeOK, Token
      <3>2. QED
        BY <1>0, <2>3, <2>9, <3>1 DEF Destroys
    <2>10. CASE Clears(c)
      BY <1>0, <2>2, <2>3, <2>10 DEF Clears, Moves, NoHeader, header
    <2>11. QED
      BY <1>3, <2>4, <2>5, <2>6, <2>7, <2>8, <2>9, <2>10 DEF Works, Effect
  <1>4. QED
    BY <1>1, <1>2, <1>3, StepKinds

\* op_enroll_fido2 never enrolls an authenticator twice, whatever else fails, given readable
\* metadata, a clear probe and one call at a time: between its check and its token no other
\* token appears.
THEOREM NeverEnrolledTwice == Spec => []OneTokenPerAuthenticator
  <1>1. Init => NotTwice
    BY DEF Init, NotTwice, StillNotEnrolled, OneTokenPerAuthenticator, InFlight, Blank, Steps
  <1>2. QED
    BY <1>1, TypeCorrect, NotTwiceStep, PTL DEF Spec, NotTwice

-----------------------------------------------------------------------------
(* Nothing is left behind *)

\* Every token names one keyslot and leads to its secret, or names a recovery key that was
\* handed out; no two tokens name the same keyslot.
TokensTidy ==
    /\ \A t \in DOMAIN tokens : \E s \in DOMAIN keyslots :
          /\ tokens[t].slots = {s}
          /\ \/ tokens[t].secret = keyslots[s]
             \/ keyslots[s] \in returned
    /\ \A t, u \in DOMAIN tokens : t # u => tokens[t].slots \cap tokens[u].slots = {}

\* No token names slot s.
Unnamed(s) == \A t \in DOMAIN tokens : s \notin tokens[t].slots

\* What each call knows of the token it is about to write or has removed.
CallsTidy ==
    /\ \A c \in InFlight : call[c].reply = "awaited"
    /\ \A c \in InFlight : call[c].pc \in {"settoken", "destroy"} => Unnamed(call[c].slot)
    /\ \A c \in InFlight : call[c].pc = "rmtoken" =>
          call[c].tok \in DOMAIN tokens /\ call[c].slot \in tokens[call[c].tok].slots

\* A keyslot can be opened, or some call has it in hand.
SlotTidy(s) ==
    \/ keyslots[s] \in Typeable
    \/ ~Unnamed(s)
    \/ \E c \in InFlight : call[c].pc \in {"settoken", "destroy"} /\ call[c].slot = s

\* Holds while nothing worse than an authenticator's refusal, or enrollments that overlap,
\* has happened.
AllTidy == TokensTidy /\ CallsTidy /\ \A s \in DOMAIN keyslots : SlotTidy(s)

Tidy == mishap \subseteq Benign => AllTidy

\* When every token names a keyslot of its own, a keyslot without a token leaves room for
\* one: set_token does not fail for want of a free token after the keyslot was added.
LEMMA RoomForToken ==
    ASSUME TypeOK, TokensTidy, NEW s \in DOMAIN keyslots, Unnamed(s)
    PROVE  FreeTokens # {}
  <1> SUFFICES ASSUME FreeTokens = {} PROVE FALSE
    OBVIOUS
  <1> DEFINE f == [t \in TokenIds |-> CHOOSE x : x \in tokens[t].slots]
             T == Slots \ {s}
  <1>1. DOMAIN tokens = TokenIds
    BY DEF TypeOK, FreeTokens
  <1>2. \A t \in TokenIds : f[t] \in T /\ f[t] \in tokens[t].slots
    <2>1. ASSUME NEW t \in TokenIds PROVE f[t] \in T /\ f[t] \in tokens[t].slots
      <3>1. PICK x \in DOMAIN keyslots : tokens[t].slots = {x}
        BY <1>1 DEF TokensTidy
      <3>2. f[t] = x
        BY <3>1
      <3>3. x \in Slots /\ x # s
        BY <1>1, <3>1 DEF TypeOK, Unnamed
      <3>4. QED
        BY <3>1, <3>2, <3>3
    <2>2. QED
      BY <2>1
  <1>3. f \in [TokenIds -> T]
    BY <1>2
  <1>4. /\ IsFiniteSet(TokenIds) /\ Cardinality(TokenIds) = NumTokens
        /\ IsFiniteSet(Slots) /\ Cardinality(Slots) = NumSlots
    <2>1. ASSUME NEW n \in Nat \ {0}
          PROVE  IsFiniteSet(0 .. (n - 1)) /\ Cardinality(0 .. (n - 1)) = n
      <3>1. 0 \in Int /\ n - 1 \in Int /\ ~(0 > n - 1) /\ n - 1 - 0 + 1 = n
        OBVIOUS
      <3>2. QED
        BY <3>1, FS_Interval, Zenon
    <2>2. QED
      BY <2>1, BoundsAssumption DEF TokenIds, Slots
  <1>5. s \in Slots
    BY DEF TypeOK
  <1>6. IsFiniteSet(T) /\ Cardinality(T) = NumSlots - 1
    BY <1>4, <1>5, FS_RemoveElement
  <1>7. Cardinality(T) < Cardinality(TokenIds)
    BY <1>4, <1>6, BoundsAssumption, TablesAssumption
  <1>8. PICK t, u \in TokenIds : t # u /\ f[t] = f[u]
    <2> HIDE DEF f, T
    <2> QED
      BY <1>3, <1>4, <1>6, <1>7, FS_PigeonHole
  <1>9. QED
    BY <1>1, <1>2, <1>8 DEF TokensTidy

\* The part of Tidy about the calls other than c survives what leaves the tokens their calls
\* know of in place; the part about c is for the step that c takes.
LEMMA OthersTidy ==
    ASSUME NEW c \in Calls, Works(c), CallsTidy,
           call'[c] = Blank("done") \/ call'[c].reply = call[c].reply,
           \A d \in InFlight' : d # c =>
              /\ call[d].pc \in {"settoken", "destroy"} => Unnamed(call[d].slot)'
              /\ call[d].pc = "rmtoken" => tokens' = tokens,
           c \in InFlight' =>
              /\ call'[c].pc \in {"settoken", "destroy"} => Unnamed(call[c].slot)'
              /\ call'[c].pc = "rmtoken" =>
                    call'[c].tok \in DOMAIN tokens' /\ call'[c].slot \in tokens'[call'[c].tok].slots
    PROVE  CallsTidy'
  <1>1. /\ InFlight' \subseteq InFlight /\ InFlight \subseteq Calls /\ c \in InFlight
        /\ \A d \in Calls : d # c => call'[d] = call[d]
        /\ call'[c] = Blank("done") => c \notin InFlight'
    BY DEF Works, Advances, InFlight, Blank, Steps
  <1>2. \A d \in InFlight' : call'[d].reply = "awaited"
    BY <1>1 DEF CallsTidy
  <1>3. \A d \in InFlight' : call'[d].pc \in {"settoken", "destroy"} => Unnamed(call[d].slot)'
    <2>1. ASSUME NEW d \in InFlight', call'[d].pc \in {"settoken", "destroy"}
          PROVE  Unnamed(call[d].slot)'
      <3>1. CASE d = c
        BY <2>1, <3>1
      <3>2. CASE d # c
        BY <1>1, <2>1, <3>2
      <3>3. QED
        BY <3>1, <3>2
    <2>2. QED
      BY <2>1
  <1>4. \A d \in InFlight' : call'[d].pc = "rmtoken" =>
            call'[d].tok \in DOMAIN tokens' /\ call'[d].slot \in tokens'[call'[d].tok].slots
    <2>1. ASSUME NEW d \in InFlight', call'[d].pc = "rmtoken"
          PROVE  call'[d].tok \in DOMAIN tokens' /\ call'[d].slot \in tokens'[call'[d].tok].slots
      <3>1. CASE d = c
        BY <2>1, <3>1
      <3>2. CASE d # c
        BY <1>1, <2>1, <3>2 DEF CallsTidy
      <3>3. QED
        BY <3>1, <3>2
    <2>2. QED
      BY <2>1
  <1>5. QED
    BY <1>2, <1>3, <1>4 DEF CallsTidy

\* A keyslot that is there before and after the step stays tidy, unless it is the one c had
\* in hand, or its token goes.
LEMMA SlotStaysTidy ==
    ASSUME NEW c \in Calls, Works(c), NEW s \in DOMAIN keyslots, SlotTidy(s),
           keyslots'[s] = keyslots[s], returned \subseteq returned',
           Unnamed(s) \/ ~Unnamed(s)',
           call[c].pc \in {"settoken", "destroy"} => call[c].slot # s
    PROVE  SlotTidy(s)'
  <1>1. CASE keyslots[s] \in Typeable
    BY <1>1 DEF SlotTidy, Typeable
  <1>2. CASE ~Unnamed(s)
    BY <1>2 DEF SlotTidy
  <1>3. CASE \E d \in InFlight : call[d].pc \in {"settoken", "destroy"} /\ call[d].slot = s
    <2>1. PICK d \in InFlight : call[d].pc \in {"settoken", "destroy"} /\ call[d].slot = s
      BY <1>3
    <2>2. d # c
      BY <2>1
    <2>3. d \in InFlight' /\ call'[d] = call[d]
      BY <2>1, <2>2 DEF Works, Advances, InFlight
    <2>4. QED
      BY <2>1, <2>3 DEF SlotTidy
  <1>4. QED
    BY <1>1, <1>2, <1>3 DEF SlotTidy

\* Steps that leave the header alone, or a call that gives up.
LEMMA QuietTidy ==
    ASSUME TypeOK, InHand, AllTidy, NEW c \in Calls, Works(c), Ends(c) \/ Reads(c),
           mishap' \subseteq Benign
    PROVE  AllTidy'
  <1>0. /\ UNCHANGED <<vk, keyslots, tokens, returned>> /\ c \in InFlight
        /\ "write" \notin mishap' /\ "read" \notin mishap'
    BY DEF Ends, Reads, header, Works, Benign
  <1>1. TokensTidy'
    BY <1>0 DEF AllTidy, TokensTidy
  <1>2. \A s : Unnamed(s)' <=> Unnamed(s)
    BY <1>0 DEF Unnamed
  <1>3. CallsTidy'
    <2>1. call'[c] = Blank("done") \/ call'[c].reply = call[c].reply
      BY DEF Ends, Reads, Moves
    <2>2. \A d \in InFlight' : d # c =>
              /\ call[d].pc \in {"settoken", "destroy"} => Unnamed(call[d].slot)'
              /\ call[d].pc = "rmtoken" => tokens' = tokens
      BY <1>0 DEF AllTidy, CallsTidy, Works, Advances, InFlight, Unnamed
    <2>3. c \in InFlight' =>
              /\ call'[c].pc \in {"settoken", "destroy"} => Unnamed(call[c].slot)'
              /\ call'[c].pc = "rmtoken" =>
                    call'[c].tok \in DOMAIN tokens' /\ call'[c].slot \in tokens'[call'[c].tok].slots
      <3>1. CASE Ends(c)
        BY <3>1 DEF Ends, InFlight, Blank, Steps
      <3>2. CASE Reads(c)
        BY <1>0, <3>2 DEF Reads, Moves, Unnamed
      <3>3. QED
        BY <3>1, <3>2
    <2>4. QED
      BY <2>1, <2>2, <2>3, OthersTidy DEF AllTidy
  <1>4. ASSUME NEW s \in DOMAIN keyslots PROVE SlotTidy(s)'
    <2>1. call[c].pc \in {"settoken", "destroy"} => call[c].slot # s
      <3>1. SUFFICES ASSUME call[c].pc \in {"settoken", "destroy"}, call[c].slot = s PROVE FALSE
        OBVIOUS
      <3>2. Ends(c)
        BY <3>1 DEF Reads
      <3>3. call[c].pc = "settoken" /\ FreeTokens = {}
        BY <1>0, <3>1, <3>2 DEF Ends
      <3>4. Unnamed(s)
        BY <1>0, <3>1 DEF AllTidy, CallsTidy
      <3>5. QED
        BY <3>3, <3>4, RoomForToken DEF AllTidy
    <2>2. QED
      BY <1>0, <1>2, <2>1, SlotStaysTidy DEF AllTidy
  <1>5. QED
    BY <1>0, <1>1, <1>3, <1>4 DEF AllTidy

\* A keyslot is added: nothing names it yet, and somebody knows its secret or has it in hand.
LEMMA AddTidy ==
    ASSUME TypeOK, AllTidy, NEW c \in Calls, Works(c), Adds(c) \/ Seeds(c)
    PROVE  AllTidy'
  <1>0. UNCHANGED <<vk, tokens, returned>> /\ c \in InFlight
    BY DEF Adds, Seeds, Works
  <1>1. PICK s \in FreeSlots :
           /\ \E x : keyslots' = WithSlot(s, x) /\ (call'[c] = Blank("done") => x \in Passphrases)
           /\ \/ call'[c] = Blank("done")
              \/ Moves(c, {"settoken"}) /\ call'[c].slot = s
    <2>1. CASE Adds(c)
      BY <2>1 DEF Adds, NewSecret, Moves, Blank
    <2>2. CASE Seeds(c)
      <3>1. call[c].cred \in Passphrases
        BY <1>0, <2>2 DEF Seeds, TypeOK, CallState, WellFormed
      <3>2. QED
        BY <2>2, <3>1 DEF Seeds
    <2>3. QED
      BY <2>1, <2>2
  <1>2. /\ DOMAIN keyslots' = DOMAIN keyslots \cup {s} /\ s \notin DOMAIN keyslots
        /\ call'[c] = Blank("done") => keyslots'[s] \in Passphrases
        /\ \A n \in DOMAIN keyslots : keyslots'[n] = keyslots[n]
    BY <1>1 DEF WithSlot, FreeSlots
  <1>3. TokensTidy'
    BY <1>0, <1>2 DEF AllTidy, TokensTidy
  <1>4. Unnamed(s) /\ \A n : Unnamed(n)' <=> Unnamed(n)
    BY <1>0, <1>2 DEF AllTidy, TokensTidy, Unnamed
  <1>5. CallsTidy'
    <2>1. call'[c] = Blank("done") \/ call'[c].reply = call[c].reply
      BY <1>1 DEF Moves
    <2>2. \A d \in InFlight' : d # c =>
              /\ call[d].pc \in {"settoken", "destroy"} => Unnamed(call[d].slot)'
              /\ call[d].pc = "rmtoken" => tokens' = tokens
      BY <1>0 DEF AllTidy, CallsTidy, Works, Advances, InFlight, Unnamed
    <2>3. c \in InFlight' =>
              /\ call'[c].pc \in {"settoken", "destroy"} => Unnamed(call[c].slot)'
              /\ call'[c].pc = "rmtoken" =>
                    call'[c].tok \in DOMAIN tokens' /\ call'[c].slot \in tokens'[call'[c].tok].slots
      <3>1. CASE call'[c] = Blank("done")
        BY <3>1 DEF InFlight, Blank, Steps
      <3>2. CASE Moves(c, {"settoken"}) /\ call'[c].slot = s
        BY <1>0, <1>4, <3>2 DEF Moves, Unnamed
      <3>3. QED
        BY <1>1, <3>1, <3>2
    <2>4. QED
      BY <2>1, <2>2, <2>3, OthersTidy DEF AllTidy
  <1>6. ASSUME NEW n \in DOMAIN keyslots PROVE SlotTidy(n)'
    <2>1. call[c].pc \notin {"settoken", "destroy"}
      BY DEF Adds, Seeds
    <2>2. QED
      BY <1>0, <1>2, <1>4, <2>1, SlotStaysTidy DEF AllTidy
  <1>7. SlotTidy(s)'
    <2>1. CASE call'[c] = Blank("done")
      BY <1>2, <2>1 DEF SlotTidy, Typeable
    <2>2. CASE Moves(c, {"settoken"}) /\ call'[c].slot = s
      <3>1. c \in InFlight'
        BY <2>2 DEF Moves, InFlight, Steps
      <3>2. QED
        BY <2>2, <3>1 DEF SlotTidy, Moves
    <2>3. QED
      BY <1>1, <2>1, <2>2
  <1>8. QED
    BY <1>2, <1>3, <1>5, <1>6, <1>7 DEF AllTidy

\* The token is written: it names the keyslot its call added, which no other token names.
LEMMA NameTidy ==
    ASSUME TypeOK, InHand, AllTidy, NEW c \in Calls, Works(c), Names(c)
    PROVE  AllTidy'
  <1>0. /\ c \in InFlight /\ UNCHANGED keyslots /\ returned \subseteq returned'
        /\ call[c].slot \in DOMAIN keyslots /\ keyslots[call[c].slot] = c
        /\ call[c].reply = "awaited" /\ Unnamed(call[c].slot) /\ call[c].pc = "settoken"
        /\ call'[c] = Blank("done")
    BY DEF Names, Works, InHand, AllTidy, CallsTidy
  <1>1. PICK t \in FreeTokens :
           tokens' = [n \in DOMAIN tokens \cup {t} |->
                        IF n = t THEN NewToken(c, call[c].slot) ELSE tokens[n]]
    BY DEF Names
  <1>2. /\ DOMAIN tokens' = DOMAIN tokens \cup {t} /\ t \notin DOMAIN tokens
        /\ tokens'[t].slots = {call[c].slot}
        /\ tokens'[t].secret = c \/ call[c].by = "recovery"
        /\ \A n \in DOMAIN tokens : tokens'[n] = tokens[n]
    BY <1>1 DEF NewToken, FreeTokens
  <1>3. tokens'[t].secret = c \/ c \in returned'
    BY <1>0, <1>2 DEF Names
  <1>4. TokensTidy'
    <2>1. \A n \in DOMAIN tokens' : \E s \in DOMAIN keyslots' :
             tokens'[n].slots = {s} /\ (tokens'[n].secret = keyslots'[s] \/ keyslots'[s] \in returned')
      BY <1>0, <1>2, <1>3 DEF AllTidy, TokensTidy
    <2>2. \A n, u \in DOMAIN tokens' : n # u => tokens'[n].slots \cap tokens'[u].slots = {}
      BY <1>0, <1>2 DEF AllTidy, TokensTidy, Unnamed
    <2>3. QED
      BY <2>1, <2>2 DEF TokensTidy
  <1>5. \A n : n # call[c].slot => (Unnamed(n)' <=> Unnamed(n))
    BY <1>2 DEF Unnamed
  <1>6. CallsTidy'
    <2>1. \A d \in InFlight : d # c => (call[d].pc # "destroy" /\ call[d].pc # "rmtoken")
      BY <1>0 DEF InHand, TypeOK, CallState, WellFormed, InFlight
    <2>2. \A d \in InFlight : (d # c /\ call[d].pc = "settoken") => call[d].slot # call[c].slot
      BY <1>0 DEF InHand
    <2>3. \A d \in InFlight' : d # c => d \in InFlight /\ call'[d] = call[d]
      BY DEF Works, Advances, InFlight
    <2>4. \A d \in InFlight' : d # c =>
              /\ call[d].pc \in {"settoken", "destroy"} => Unnamed(call[d].slot)'
              /\ call[d].pc = "rmtoken" => tokens' = tokens
      <3>1. ASSUME NEW d \in InFlight', d # c, call[d].pc = "settoken" PROVE Unnamed(call[d].slot)'
        <4>1. Unnamed(call[d].slot)
          BY <2>3, <3>1 DEF AllTidy, CallsTidy
        <4>2. \A n \in DOMAIN tokens' : call[d].slot \notin tokens'[n].slots
          BY <1>2, <2>2, <2>3, <3>1, <4>1 DEF Unnamed
        <4>3. QED
          BY <2>3, <3>1, <4>2 DEF Unnamed
      <3>2. QED
        BY <2>1, <2>3, <3>1
    <2>5. c \notin InFlight'
      BY <1>0 DEF InFlight, Blank, Steps
    <2>6. QED
      BY <1>0, <2>4, <2>5, OthersTidy DEF AllTidy
  <1>7. ASSUME NEW n \in DOMAIN keyslots PROVE SlotTidy(n)'
    <2>1. CASE n = call[c].slot
      BY <1>2, <2>1 DEF SlotTidy, Unnamed
    <2>2. CASE n # call[c].slot
      BY <1>0, <1>5, <2>2, SlotStaysTidy DEF AllTidy
    <2>3. QED
      BY <2>1, <2>2
  <1>8. QED
    BY <1>0, <1>4, <1>6, <1>7 DEF AllTidy

\* A wipe or a format works alone.
LEMMA WorksAlone ==
    ASSUME TypeOK, InHand, NEW c \in Calls, Works(c), call[c].op \in {"wipe", "format"}
    PROVE  \A d \in InFlight' \cup InFlight : d = c
  BY DEF InHand, Works, Advances, InFlight

\* The token goes first: its keyslot is then in hand, and every other token stays.
LEMMA UnnameTidy ==
    ASSUME TypeOK, InHand, AllTidy, NEW c \in Calls, Works(c), Unnames(c)
    PROVE  AllTidy'
  <1>0. /\ c \in InFlight /\ UNCHANGED <<keyslots, returned>> /\ call[c].pc = "rmtoken"
        /\ call[c].tok \in DOMAIN tokens /\ call[c].slot \in tokens[call[c].tok].slots
        /\ call'[c].pc = "destroy" /\ call'[c].slot = call[c].slot
        /\ call'[c].reply = call[c].reply /\ call[c].op = "wipe"
    BY DEF Unnames, Moves, Works, AllTidy, CallsTidy, TypeOK, CallState, WellFormed
  <1>1. /\ DOMAIN tokens' = DOMAIN tokens \ {call[c].tok}
        /\ \A t \in DOMAIN tokens' : tokens'[t] = tokens[t]
    BY DEF Unnames
  <1>2. TokensTidy'
    BY <1>0, <1>1 DEF AllTidy, TokensTidy
  <1>3. tokens[call[c].tok].slots = {call[c].slot}
    BY <1>0 DEF AllTidy, TokensTidy
  <1>4. \A t \in DOMAIN tokens' : call[c].slot \notin tokens'[t].slots
    BY <1>0, <1>1 DEF AllTidy, TokensTidy
  <1>5. Unnamed(call[c].slot)'
    BY <1>0, <1>4 DEF Unnamed
  <1>6. \A d \in InFlight' : d = c
    BY <1>0, WorksAlone
  <1>7. CallsTidy'
    BY <1>0, <1>5, <1>6, OthersTidy DEF AllTidy
  <1>8. ASSUME NEW s \in DOMAIN keyslots PROVE SlotTidy(s)'
    <2>1. CASE s = call[c].slot
      <3>1. c \in InFlight'
        BY <1>0 DEF InFlight, Steps
      <3>2. QED
        BY <1>0, <2>1, <3>1 DEF SlotTidy
    <2>2. CASE s # call[c].slot
      <3>1. Unnamed(s) \/ ~Unnamed(s)'
        BY <1>1, <1>3, <2>2 DEF Unnamed
      <3>2. QED
        BY <1>0, <3>1, SlotStaysTidy DEF AllTidy
    <2>3. QED
      BY <2>1, <2>2
  <1>9. QED
    BY <1>0, <1>2, <1>7, <1>8 DEF AllTidy

\* The keyslot goes when nothing names it any more.
LEMMA DestroyTidy ==
    ASSUME TypeOK, InHand, AllTidy, NEW c \in Calls, Works(c), Destroys(c)
    PROVE  AllTidy'
  <1>0. /\ c \in InFlight /\ UNCHANGED returned /\ call[c].pc = "destroy"
        /\ Unnamed(call[c].slot) /\ call'[c] = Blank("done") /\ call[c].op = "wipe"
        /\ DOMAIN keyslots' = DOMAIN keyslots \ {call[c].slot}
        /\ \A s \in DOMAIN keyslots' : keyslots'[s] = keyslots[s]
    BY DEF Destroys, Works, AllTidy, CallsTidy, TypeOK, CallState, WellFormed
  <1>1. /\ DOMAIN tokens' = DOMAIN tokens
        /\ \A t \in DOMAIN tokens : /\ tokens'[t].secret = tokens[t].secret
                                    /\ tokens'[t].slots = tokens[t].slots \ {call[c].slot}
    BY DEF Destroys, TypeOK, Token
  <1>2. \A t \in DOMAIN tokens : tokens'[t].slots = tokens[t].slots
    <2>1. ASSUME NEW t \in DOMAIN tokens PROVE tokens'[t].slots = tokens[t].slots
      <3>1. call[c].slot \notin tokens[t].slots
        BY <1>0 DEF Unnamed
      <3>2. tokens[t].slots \ {call[c].slot} = tokens[t].slots
        BY <3>1
      <3>3. QED
        BY <1>1, <3>2
    <2>2. QED
      BY <2>1
  <1>3. TokensTidy'
    <2>1. \A t \in DOMAIN tokens' : \E s \in DOMAIN keyslots' :
             tokens'[t].slots = {s} /\ (tokens'[t].secret = keyslots'[s] \/ keyslots'[s] \in returned')
      <3>1. ASSUME NEW t \in DOMAIN tokens'
            PROVE  \E s \in DOMAIN keyslots' :
                      /\ tokens'[t].slots = {s}
                      /\ tokens'[t].secret = keyslots'[s] \/ keyslots'[s] \in returned'
        <4>1. PICK s \in DOMAIN keyslots :
                 tokens[t].slots = {s} /\ (tokens[t].secret = keyslots[s] \/ keyslots[s] \in returned)
          BY <1>1 DEF AllTidy, TokensTidy
        <4>2. s # call[c].slot
          BY <1>0, <1>1, <4>1 DEF Unnamed
        <4>3. QED
          BY <1>0, <1>1, <1>2, <4>1, <4>2
      <3>2. QED
        BY <3>1
    <2>2. QED
      BY <1>1, <1>2, <2>1 DEF AllTidy, TokensTidy
  <1>4. \A d \in InFlight' : d = c
    BY <1>0, WorksAlone
  <1>5. c \notin InFlight'
    BY <1>0 DEF InFlight, Blank, Steps
  <1>6. CallsTidy'
    BY <1>4, <1>5 DEF CallsTidy
  <1>7. ASSUME NEW s \in DOMAIN keyslots' PROVE SlotTidy(s)'
    <2>1. Unnamed(s) \/ ~Unnamed(s)'
      BY <1>1, <1>2 DEF Unnamed
    <2>2. QED
      BY <1>0, <2>1, SlotStaysTidy DEF AllTidy
  <1>8. QED
    BY <1>3, <1>6, <1>7 DEF AllTidy

\* A new header has nothing to tidy; wipefs may also leave the old one.
LEMMA ClearTidy ==
    ASSUME TypeOK, InHand, AllTidy, NEW c \in Calls, Works(c), Clears(c)
    PROVE  AllTidy'
  <1>0. /\ c \in InFlight /\ UNCHANGED returned /\ call[c].op = "format"
        /\ call'[c].pc \in {"format", "fill", "seed"} /\ call'[c].reply = call[c].reply
    BY DEF Clears, Moves, Works, TypeOK, CallState, WellFormed
  <1>1. \A d \in InFlight' \cup InFlight : d = c
    BY <1>0, WorksAlone
  <1>2. CallsTidy'
    BY <1>0, <1>1 DEF AllTidy, CallsTidy
  <1>3. CASE keyslots' = NoHeader /\ tokens' = NoHeader
    BY <1>2, <1>3 DEF NoHeader, AllTidy, TokensTidy
  <1>4. CASE UNCHANGED <<vk, keyslots, tokens>>
    <2>1. TokensTidy'
      BY <1>0, <1>4 DEF AllTidy, TokensTidy
    <2>2. \A s \in DOMAIN keyslots : Unnamed(s) \/ ~Unnamed(s)'
      BY <1>4 DEF Unnamed
    <2>3. call[c].pc \notin {"settoken", "destroy"}
      BY DEF Clears
    <2>4. \A s \in DOMAIN keyslots : SlotTidy(s)'
      BY <1>0, <1>4, <2>2, <2>3, SlotStaysTidy DEF AllTidy
    <2>5. QED
      BY <1>2, <1>4, <2>1, <2>4 DEF AllTidy
  <1>5. QED
    BY <1>3, <1>4 DEF Clears, header

LEMMA TidyStep == TypeOK /\ InStep /\ Tidy /\ [Next]_vars => Tidy'
  <1> SUFFICES ASSUME TypeOK, InStep, Tidy, [Next]_vars, mishap' \subseteq Benign
               PROVE  AllTidy'
    BY DEF Tidy
  <1>0. AllTidy /\ InHand /\ "lost" \notin mishap' /\ "stop" \notin mishap'
    BY MishapsStay DEF Tidy, InStep, Benign
  <1>1. ASSUME UNCHANGED <<vk, keyslots, tokens, returned>>,
               \A d \in InFlight : d \in InFlight' /\ call'[d].pc = call[d].pc
                                                   /\ call'[d].slot = call[d].slot
        PROVE  TokensTidy' /\ \A s \in DOMAIN keyslots' : SlotTidy(s)'
    <2>1. TokensTidy'
      BY <1>0, <1>1 DEF AllTidy, TokensTidy
    <2>2. \A s \in DOMAIN keyslots : Unnamed(s)' <=> Unnamed(s)
      BY <1>1 DEF Unnamed
    <2>3. \A s \in DOMAIN keyslots : SlotTidy(s)'
      BY <1>0, <1>1, <2>2 DEF AllTidy, SlotTidy, Typeable
    <2>4. QED
      BY <1>1, <2>1, <2>3
  <1>2. CASE Surrounds
    <2>1. \A d \in Calls : /\ call'[d].pc = call[d].pc /\ call'[d].slot = call[d].slot
                           /\ call'[d].tok = call[d].tok /\ call'[d].reply = call[d].reply
      BY <1>0, <1>2 DEF Surrounds
    <2>2. InFlight' = InFlight
      BY <2>1 DEF InFlight
    <2>3. UNCHANGED <<vk, keyslots, tokens, returned>>
      BY <1>2 DEF Surrounds, header
    <2>4. CallsTidy'
      BY <1>0, <2>1, <2>2, <2>3 DEF AllTidy, CallsTidy, Unnamed, InFlight
    <2>5. QED
      BY <1>1, <2>1, <2>2, <2>3, <2>4 DEF AllTidy, InFlight
  <1>3. ASSUME NEW c \in Calls, Admits(c) PROVE AllTidy'
    <2>1. /\ c \notin InFlight /\ InFlight \subseteq InFlight'
          /\ \A d \in InFlight' : d # c => d \in InFlight /\ call'[d] = call[d]
          /\ \A d \in InFlight : call'[d] = call[d]
      BY <1>3 DEF Admits, InFlight, Steps
    <2>2. UNCHANGED <<vk, keyslots, tokens, returned>>
      BY <1>3 DEF Admits, header
    <2>3. CallsTidy'
      <3>1. call'[c].reply = "awaited" /\ call'[c].pc \notin {"settoken", "destroy", "rmtoken"}
        BY <1>3 DEF Admits
      <3>2. QED
        BY <1>0, <2>1, <2>2, <3>1 DEF AllTidy, CallsTidy, Unnamed
    <2>4. QED
      BY <1>1, <2>1, <2>2, <2>3 DEF AllTidy
  <1>4. ASSUME NEW c \in Calls, Works(c) PROVE AllTidy'
    BY <1>0, <1>4, QuietTidy, AddTidy, NameTidy, UnnameTidy, DestroyTidy, ClearTidy
       DEF Works, Effect
  <1>5. QED
    BY <1>2, <1>3, <1>4, StepKinds

LEMMA TidyInvariant == Spec => []Tidy
  <1>1. Init => Tidy
    BY DEF Init, Tidy, AllTidy, TokensTidy, CallsTidy, SlotTidy, Typeable, InFlight, Blank, Steps
  <1>2. QED
    BY <1>1, TypeCorrect, InStepInvariant, TidyStep, PTL DEF Spec

\* With no call at work, and nothing worse behind it than refusals and overlapping
\* enrollments, every keyslot can be opened and every token names one keyslot: enroll_token
\* and op_wipe_slot, which write keyslot and token in two calls, leave no half behind.
THEOREM EnrollmentsAreWhole == Spec => []NoHalfEnrollment
  <1>1. TypeOK /\ Tidy => NoHalfEnrollment
    <2> SUFFICES ASSUME TypeOK, Tidy, InFlight = {}, mishap \subseteq Benign
                 PROVE  /\ \A s \in DOMAIN keyslots : Usable(s)
                        /\ \A t \in DOMAIN tokens : \E s \in Slots : tokens[t].slots = {s}
      BY DEF NoHalfEnrollment
    <2>1. TokensTidy /\ \A s \in DOMAIN keyslots : SlotTidy(s)
      BY DEF Tidy, AllTidy
    <2>2. \A t \in DOMAIN tokens : \E s \in Slots : tokens[t].slots = {s}
      BY <2>1 DEF TokensTidy, TypeOK
    <2>3. ASSUME NEW s \in DOMAIN keyslots PROVE Usable(s)
      BY <2>1 DEF SlotTidy, Unnamed, TokensTidy, Usable, Typeable
    <2>4. QED
      BY <2>2, <2>3
  <1>2. QED
    BY <1>1, TypeCorrect, TidyInvariant, PTL

-----------------------------------------------------------------------------
(* "You can never lock yourself out" *)

\* While a wipe stands between its check and the destruction, some other keyslot can be
\* opened: the check counted it, nobody else is at work, and so it is whole.
LEMMA AnotherWayIn ==
    ASSUME InHand, AllTidy, CheckStillGood, ~Struck({"read", "race"}),
           NEW c \in InFlight, call[c].op = "wipe", call[c].pc \in {"rmtoken", "destroy"},
           call[c].slot \in DOMAIN keyslots
    PROVE  \E s \in DOMAIN keyslots \ {call[c].slot} : keyslots[s] \in Typeable \/ ~Unnamed(s)
  <1>1. PICK s \in DOMAIN keyslots : s # call[c].slot
    BY DEF CheckStillGood
  <1>2. \A d \in InFlight : d = c
    BY DEF InHand
  <1>3. QED
    BY <1>1, <1>2 DEF AllTidy, SlotTidy

\* While wipes and formats work alone and every header access and reply goes through, no
\* step short of a reformat takes away the last way to unlock a volume: the README's "you
\* can never lock yourself out", for every number of keyslots, tokens, calls and processes.
THEOREM NobodyLockedOut == Spec => NeverLockedOut
  <1>1. ASSUME TypeOK, Provenance, RealKeys, CheckStillGood, InStep, Tidy, [Next]_vars,
               Unlockable, vk' = vk, mishap' \subseteq Benign
        PROVE  Unlockable'
    <2>0. /\ InHand /\ AllTidy /\ mishap \subseteq Benign
          /\ ~Struck({"read", "race"})
      BY <1>1, MishapsStay DEF InStep, Tidy, Benign, Struck
    <2>1. PICK s \in DOMAIN keyslots : Usable(s)
      BY <1>1 DEF Unlockable
    <2>2. ASSUME DOMAIN keyslots \subseteq DOMAIN keyslots',
                 \A n \in DOMAIN keyslots : keyslots'[n] = keyslots[n],
                 DOMAIN tokens \subseteq DOMAIN tokens',
                 \A t \in DOMAIN tokens : tokens'[t] = tokens[t],
                 returned \subseteq returned'
          PROVE  Unlockable'
      BY <2>1, <2>2 DEF Unlockable, Usable, Typeable
    <2>3. CASE Surrounds \/ \E c \in Calls : Admits(c)
      BY <2>2, <2>3 DEF Surrounds, Admits, header
    <2>4. ASSUME NEW c \in Calls, Works(c) PROVE Unlockable'
      <3>0. c \in InFlight /\ (call[c].pc \in {"rmtoken", "destroy"} => call[c].op = "wipe")
        BY <1>1, <2>4 DEF Works, TypeOK, CallState, WellFormed
      <3>1. CASE Ends(c) \/ Reads(c)
        BY <2>2, <3>1 DEF Ends, Reads, header
      <3>2. CASE Adds(c) \/ Seeds(c)
        BY <2>2, <3>2 DEF Adds, Seeds, WithSlot, FreeSlots
      <3>3. CASE Names(c)
        BY <2>2, <3>3 DEF Names, FreeTokens
      <3>4. CASE Clears(c)
        <4>1. vk # NoKey
          BY <1>1, <2>1 DEF RealKeys
        <4>2. vk # c
          BY <1>1, <3>4 DEF Provenance, Clears
        <4>3. UNCHANGED <<vk, keyslots, tokens>>
          BY <1>1, <3>4, <4>1, <4>2 DEF Clears, header
        <4>4. QED
          BY <2>2, <3>4, <4>3 DEF Clears
      <3>5. CASE Unnames(c)
        <4>1. /\ call[c].pc = "rmtoken" /\ call[c].tok \in DOMAIN tokens
              /\ call[c].slot \in tokens[call[c].tok].slots
          BY <2>0, <2>4, <3>5 DEF Unnames, AllTidy, CallsTidy, Works
        <4>2. call[c].slot \in DOMAIN keyslots /\ tokens[call[c].tok].slots = {call[c].slot}
          BY <2>0, <4>1 DEF AllTidy, TokensTidy
        <4>3. PICK n \in DOMAIN keyslots \ {call[c].slot} : keyslots[n] \in Typeable \/ ~Unnamed(n)
          BY <1>1, <2>0, <3>0, <4>1, <4>2, AnotherWayIn
        <4>4. CASE keyslots[n] \in Typeable
          BY <3>5, <4>3, <4>4 DEF Unnames, Unlockable, Usable, Typeable
        <4>5. CASE ~Unnamed(n)
          <5>1. PICK t \in DOMAIN tokens : n \in tokens[t].slots
            BY <4>5 DEF Unnamed
          <5>2. t # call[c].tok
            BY <4>2, <4>3, <5>1
          <5>3. tokens[t].secret = keyslots[n] \/ keyslots[n] \in returned
            BY <2>0, <5>1 DEF AllTidy, TokensTidy
          <5>4. QED
            BY <3>5, <4>3, <5>1, <5>2, <5>3 DEF Unnames, Unlockable, Usable, Typeable
        <4>6. QED
          BY <4>3, <4>4, <4>5
      <3>6. CASE Destroys(c)
        <4>1. /\ DOMAIN keyslots' = DOMAIN keyslots \ {call[c].slot} /\ UNCHANGED returned
              /\ \A n \in DOMAIN keyslots' : keyslots'[n] = keyslots[n]
              /\ call[c].pc = "destroy" /\ call[c].slot \in DOMAIN keyslots
          BY <3>6 DEF Destroys
        <4>2. DOMAIN tokens' = DOMAIN tokens /\ \A t \in DOMAIN tokens : tokens'[t].secret = tokens[t].secret
          BY <1>1, <3>6 DEF Destroys, TypeOK, Token
        <4>3. PICK n \in DOMAIN keyslots \ {call[c].slot} : keyslots[n] \in Typeable \/ ~Unnamed(n)
          BY <1>1, <2>0, <3>0, <4>1, AnotherWayIn
        <4>4. Usable(n)
          BY <2>0, <4>3 DEF AllTidy, TokensTidy, Unnamed, Usable, Typeable
        <4>5. QED
          BY <4>1, <4>2, <4>3, <4>4 DEF Unlockable, Usable, Typeable
      <3>7. QED
        BY <2>4, <3>1, <3>2, <3>3, <3>4, <3>5, <3>6 DEF Works, Effect
    <2>5. QED
      BY <1>1, <2>3, <2>4, StepKinds
  <1>2. TypeOK /\ Provenance /\ RealKeys /\ CheckStillGood /\ InStep /\ Tidy /\ [Next]_vars
          => [(Unlockable /\ vk' = vk /\ mishap' \subseteq Benign) => Unlockable']_vars
    BY <1>1
  <1>3. QED
    BY <1>2, TypeCorrect, KeyProvenance, RealKeysInvariant, WipeCheckHolds, InStepInvariant,
       TidyInvariant, PTL DEF Spec, NeverLockedOut
=============================================================================
