---------------------------- MODULE MCContainers ----------------------------
(* Instances of Containers for TLC. *)
EXTENDS Containers, TLC

CONSTANTS c1, c2, i1, i2

\* One name is such as other tools may give, with a dot in it.
MCNames == <<"luks-x", "luks.y">>

\* Another tool opens a container itself, or a LUKS partition inside it under a name of its
\* own, or maps something else, such as dm-verity, over it.
MCOutside == {[name |-> "luks-x", kind |-> "luks", whole |-> TRUE],
              [name |-> "luks.y", kind |-> "luks", whole |-> FALSE],
              [name |-> "luks-x", kind |-> "other", whole |-> TRUE]}

\* While something is mapped, TLC follows no second format and no creation by path (bound):
\* they would multiply the states and touch no mapping.
Bounded == (\E n \in Name : InUse(n)) =>
               formats < MaxFormats /\ \A c \in Call : call[c].op # "create"

\* Calls and files are told apart only by what happens to them.
Interchangeable == Permutations(Call) \cup Permutations(Inode)
=============================================================================
