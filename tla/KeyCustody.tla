----------------------------- MODULE KeyCustody -----------------------------
(***************************************************************************)
(* What the service promises about the volume key, whatever calls overlap, *)
(* fail, time out or are cut short: the key of the volume on a device can  *)
(* be had from one of its keyslots, or from the memory of somebody who has *)
(* had it all along, and in no other way; a keyslot is added by somebody   *)
(* who has the key; a format makes a key that was never used before.       *)
(***************************************************************************)
EXTENDS Naturals

CONSTANTS Keys, NoKey, Secrets, Slots

VARIABLES
    vk,        \* key of the volume on the device; NoKey without a volume
    keyslots,  \* occupied slot -> secret that opens it
    held,      \* keys somebody has in memory and can use
    used       \* keys that may not be made again

custody == <<vk, keyslots, held, used>>

NoSlots == [s \in {} |-> NoKey]

Init ==
    /\ vk \in Keys \cup {NoKey}
    /\ keyslots \in UNION {[S -> Secrets] : S \in SUBSET Slots}
    /\ held = {} /\ used \in SUBSET Keys
    /\ vk \in used \cup {NoKey}

\* Keys are forgotten (expiry, a call's end, a process's end), and none is gained.
Forget == held' \subseteq held

\* A secret opens a keyslot.
Learn ==
    /\ DOMAIN keyslots # {} /\ vk # NoKey
    /\ held' \subseteq held \cup {vk}
    /\ UNCHANGED <<vk, keyslots>>

AddKeyslot ==
    /\ vk \in held
    /\ \E s \in Slots \ DOMAIN keyslots, x \in Secrets :
          keyslots' = [n \in DOMAIN keyslots \cup {s} |-> IF n = s THEN x ELSE keyslots[n]]
    /\ Forget /\ UNCHANGED vk

DestroyKeyslot ==
    /\ \E s \in DOMAIN keyslots :
          keyslots' = [n \in DOMAIN keyslots \ {s} |-> keyslots[n]]
    /\ Forget /\ UNCHANGED vk

\* The old volume is gone from the device; somebody may still hold its key.
Erase ==
    /\ vk' = NoKey /\ keyslots' = NoSlots
    /\ Forget

Format ==
    /\ vk' \in Keys \ used
    /\ keyslots' = NoSlots
    /\ held' \subseteq held \cup {vk'}

Next ==
    /\ used \subseteq used' /\ vk' \in used' \cup {NoKey}
    /\ \/ Learn \/ AddKeyslot \/ DestroyKeyslot \/ Erase \/ Format
       \/ Forget /\ UNCHANGED <<vk, keyslots>>

Spec == Init /\ [][Next]_custody
=============================================================================
