---------------------------- MODULE VolumeCustody ----------------------------
(***************************************************************************)
(* VolumeService keeps the promise of KeyCustody.  A key is held when some *)
(* live process would serve it from its cache, or a call has it in hand;   *)
(* the key a call makes is used up once the call has formatted the device  *)
(* or has ended.                                                           *)
(***************************************************************************)
EXTENDS VolumeService

Held == ({CachedVolumeKey(p) : p \in {q \in Procs : Alive(q)}} \cup
         {call[c].key : c \in InFlight}) \ {NoKey}

Used == {InitialKey} \cup
        {c \in Calls : \/ call[c].pc = "done"
                       \/ call[c].op = "format" /\ call[c].pc \in {"fill", "seed"}}

Custody == INSTANCE KeyCustody WITH held <- Held, used <- Used

\* Every step of the handlers and their surroundings, in any interleaving and under every
\* fault, is a step KeyCustody allows: get_volume_key never comes by a key that no keyslot
\* opened and nobody had, and add_keyslot_by_volume_key never enrolls without it.
KeyInCustody == Custody!Spec
=============================================================================
