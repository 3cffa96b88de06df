------------------------------- MODULE MCTpm2 -------------------------------
(***************************************************************************)
(* Instance of Tpm2 for TLC: two calls at a time, two people with a PIN    *)
(* each, PCR lists with a duplicate and an empty part, one that is out of  *)
(* range and one that is empty.                                            *)
(***************************************************************************)
EXTENDS Tpm2, TLC

CONSTANTS c1, c2, p1, p2

MCRequests == {<<11, Blank, 7, 11>>, <<7, 24>>, <<Blank>>}

\* Tokens of other tools: bound to no register, as systemd-cryptenroll can make them,
\* or without a blob.
Unbound(readable) ==
    [pcrs |-> <<>>, pinRequired |-> FALSE,
     blob |-> [readable |-> readable, parent |-> "ecc", policy |-> NoPolicy, auth |-> NoPin]]

MCForeign == {<<>>, <<Unbound(TRUE)>>, <<Unbound(FALSE)>>}

\* Without a resource manager TLC follows behaviours with one PIN and no moving register
\* only (bound): there the question is which handles stay behind, for calls of any outcome.
PinsInUse == {pin[c] : c \in Call} \cup {tokens[i].blob.auth : i \in DOMAIN tokens}
Bounded == tpm.managed \/ (Cardinality(PinsInUse \ {NoPin}) <= 1 /\ pcr = Unextended)

\* Calls and PINs are interchangeable.
Interchangeable == Permutations({c1, c2}) \cup Permutations({p1, p2})

=============================================================================
