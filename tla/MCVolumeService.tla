-------------------------- MODULE MCVolumeService --------------------------
(* Instances of VolumeService for TLC. *)
EXTENDS VolumeCustody, TLC

\* Calls are interchangeable: nothing orders them, and their names serve only as the
\* identity of the secrets and volume keys they create.
CallSymmetry == Permutations(Calls)
=============================================================================
