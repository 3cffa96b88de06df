------------------------ MODULE PartitionFormatProofs ------------------------
(***************************************************************************)
(* Theorems about PartitionFormat, for every length of the waits, every    *)
(* number of attempts and every behaviour of udevd and the desktop.        *)
(***************************************************************************)
EXTENDS PartitionFormat, TLAPS

-----------------------------------------------------------------------------
(* Typing *)

\* The fallback loop sleeps only after a check that left it another one.
Typed == TypeOK /\ (pc = "sleep" => polls < FallbackPollIterations)

\* Reading the table again, by whoever, keeps the types.
LEMMA RereadType ==
    ASSUME TypeOK, Reread \/ Partprobe
    PROVE  /\ node' \in {"none", "old", "new"} /\ event' \in BOOLEAN
           /\ Partprobe => probed' \in {"no", "ok", "refused"}
  <1>1. Reread => node' \in {"none", "old", "new"} /\ event' \in BOOLEAN
    BY DEF TypeOK, Reread, Readable
  <1>2. QED
    BY <1>1 DEF TypeOK, Partprobe

\* The flags stay flags.
LEMMA FlagsStep ==
    ASSUME TypeOK, [Next]_vars
    PROVE  rescan' \in BOOLEAN /\ listening' \in BOOLEAN /\ event' \in BOOLEAN
  <1>0. rescan \in BOOLEAN /\ listening \in BOOLEAN /\ event \in BOOLEAN
    BY DEF TypeOK
  <1> USE <1>0 DEF Finish, disk, waiting
  <1>1. CASE FormatRemovablePartition
    BY <1>1, Zenon DEF FormatRemovablePartition
  <1>2. CASE StageFails
    BY <1>2, Zenon DEF StageFails, ClosedAfterWrites
  <1>3. CASE Wipefs
    BY <1>3, Zenon DEF Wipefs, ClosedAfterWrites
  <1>4. CASE ServiceStops
    BY <1>4, Zenon DEF ServiceStops, ClosedAfterWrites
  <1>5. CASE WriteProtectiveMbr
    BY <1>5, Zenon DEF WriteProtectiveMbr
  <1>6. CASE WriteGpt
    BY <1>6, Zenon DEF WriteGpt
  <1>7. CASE Listen
    BY <1>7, Zenon DEF Listen
  <1>8. CASE CheckNode
    BY <1>8, Zenon DEF CheckNode
  <1>9. CASE LuksFormat
    BY <1>9, Zenon DEF LuksFormat
  <1>10. CASE ProbeAndWait
    BY <1>10, RereadType, Zenon DEF ProbeAndWait
  <1>11. CASE \E why \in {"event", "deadline", "error"} : WaitEnds(why)
    BY <1>11, Zenon DEF WaitEnds
  <1>12. CASE Tick
    BY <1>12, Zenon DEF Tick
  <1>13. CASE Poll
    BY <1>13, RereadType, Zenon DEF Poll
  <1>14. CASE Sleep
    BY <1>14, Zenon DEF Sleep
  <1>15. CASE UdevdRescan
    BY <1>15, RereadType, Zenon DEF UdevdRescan
  <1>16. CASE UseOrRelease
    BY <1>16, Zenon DEF UseOrRelease
  <1>17. CASE UNCHANGED vars
    BY <1>17, Zenon DEF vars
  <1>18. QED
    BY <1>1, <1>2, <1>3, <1>4, <1>5, <1>6, <1>7, <1>8, <1>9, <1>10, <1>11, <1>12,
       <1>13, <1>14, <1>15, <1>16, <1>17 DEF Next, Stage

LEMMA TypedStep == Typed /\ [Next]_vars => Typed'
  <1> DEFINE Rest == /\ target \in Targets /\ before \in {"none", "old", "new"}
                     /\ table \in {"old", "partial", "new"} /\ node \in {"none", "old", "new"}
                     /\ inUse \in {"no", "part1", "other"}
                     /\ pc \in Stages \cup {"idle"}
                     /\ clock \in 0 .. UdevWaitTimeout /\ polls \in 0 .. FallbackPollIterations
                     /\ probed \in {"no", "ok", "refused"}
                     /\ luks \in {"none", "old", "new"}
                     /\ result \in {"none", "ok", "error"}
                     /\ attempts \in 0 .. MaxAttempts
                     /\ pc = "sleep" => polls < FallbackPollIterations
  <1> SUFFICES ASSUME Typed, [Next]_vars PROVE Rest'
    BY FlagsStep DEF Typed, TypeOK
  <1>a. Rest /\ TypeOK
    BY DEF Typed, TypeOK
  <1> USE <1>a, FormatBounds DEF Stages, Finish, disk, waiting
  <1>1. CASE FormatRemovablePartition
    BY <1>1 DEF FormatRemovablePartition
  <1>2. CASE StageFails
    BY <1>2 DEF StageFails, ClosedAfterWrites
  <1>3. CASE Wipefs
    BY <1>3 DEF Wipefs, ClosedAfterWrites
  <1>4. CASE ServiceStops
    BY <1>4 DEF ServiceStops, ClosedAfterWrites
  <1>5. CASE WriteProtectiveMbr
    BY <1>5 DEF WriteProtectiveMbr
  <1>6. CASE WriteGpt
    BY <1>6 DEF WriteGpt
  <1>7. CASE Listen
    BY <1>7 DEF Listen
  <1>8. CASE CheckNode
    BY <1>8 DEF CheckNode
  <1>9. CASE LuksFormat
    BY <1>9 DEF LuksFormat
  <1>10. CASE ProbeAndWait
    BY <1>10, RereadType DEF ProbeAndWait
  <1>11. CASE \E why \in {"event", "deadline", "error"} : WaitEnds(why)
    BY <1>11 DEF WaitEnds
  <1>12. CASE Tick
    BY <1>12 DEF Tick
  <1>13. CASE Poll
    BY <1>13, RereadType DEF Poll
  <1>14. CASE Sleep
    BY <1>14 DEF Sleep
  <1>15. CASE UdevdRescan
    BY <1>15, RereadType DEF UdevdRescan
  <1>16. CASE UseOrRelease
    BY <1>16 DEF UseOrRelease
  <1>17. CASE UNCHANGED vars
    BY <1>17 DEF vars
  <1>18. QED
    BY <1>1, <1>2, <1>3, <1>4, <1>5, <1>6, <1>7, <1>8, <1>9, <1>10, <1>11, <1>12,
       <1>13, <1>14, <1>15, <1>16, <1>17 DEF Next, Stage

\* Types hold throughout, the two counters within their bounds: the fallback loop makes no
\* more than FALLBACK_POLL_ITERATIONS checks and the wait never takes time it does not have.
THEOREM FormatTyped == Spec => []TypeOK
  <1>1. Init => Typed
    <2>1. Init => rescan \in BOOLEAN /\ listening \in BOOLEAN /\ event \in BOOLEAN
      BY Zenon DEF Init
    <2>2. Init => /\ clock \in 0 .. UdevWaitTimeout /\ polls \in 0 .. FallbackPollIterations
                  /\ attempts \in 0 .. MaxAttempts
      BY FormatBounds DEF Init
    <2>3. QED
      BY <2>1, <2>2, Zenon DEF Init, Typed, TypeOK, Stages
  <1>2. QED
    BY <1>1, TypedStep, PTL DEF Spec, Typed

-----------------------------------------------------------------------------
(* What is formatted *)

\* What the stages after the GPT rest on: the table stays written, the socket listens
\* before the table is read again, and a partition read again is the new one.
StageInv ==
    /\ target \in {"disk", "partition"}
    /\ table \in {"old", "partial", "new"}
    /\ target = "disk" /\ pc \in {"listen", "probe", "wait", "exists", "poll", "sleep", "luksformat"}
         => table = "new"
    /\ target # "disk" => pc \in {"idle", "wipefs", "luksformat"}
    /\ pc \in {"wipefs", "gpt", "gptwrite", "listen", "probe"} => probed = "no"
    /\ pc \in {"probe", "wait"} => listening
    /\ target = "disk" /\ pc \in {"wait", "exists", "poll", "sleep", "luksformat"} /\ probed = "ok"
         => node = "new"
    /\ pc # "idle" => result = "none"
    /\ FormatsTheNewPartition
    /\ EventNotMissed

\* Reading a table that has been written shows the new partition, and tells the listener.
LEMMA RereadNew ==
    ASSUME Reread, table = "new"
    PROVE  node' = "new" /\ (listening => event') /\ (event => event')
  BY DEF Reread, Readable

\* The same for partprobe, unless the disk is busy.
LEMMA PartprobeNew ==
    ASSUME Partprobe, table = "new"
    PROVE  /\ probed' = "ok" => node' = "new" /\ (listening => event')
           /\ event => event'
  BY RereadNew DEF Partprobe

\* The stages up to the written table keep the invariant.
LEMMA EarlyStages ==
    ASSUME StageInv,
           \/ FormatRemovablePartition \/ StageFails \/ Wipefs \/ WriteProtectiveMbr \/ WriteGpt
           \/ ServiceStops
    PROVE  StageInv'
  <1> USE DEF StageInv, FormatsTheNewPartition, EventNotMissed, Finish, disk, waiting
  <1>1. CASE FormatRemovablePartition
    BY <1>1 DEF FormatRemovablePartition
  <1>2. CASE StageFails
    BY <1>2 DEF StageFails
  <1>3. CASE Wipefs
    BY <1>3 DEF Wipefs
  <1>4. CASE WriteProtectiveMbr
    BY <1>4 DEF WriteProtectiveMbr
  <1>5. CASE WriteGpt
    BY <1>5 DEF WriteGpt
  <1>6. CASE ServiceStops
    BY <1>6 DEF ServiceStops
  <1>7. QED
    BY <1>1, <1>2, <1>3, <1>4, <1>5, <1>6

\* The stages that wait for the node keep it.
LEMMA WaitingStages ==
    ASSUME StageInv,
           \/ Listen \/ ProbeAndWait \/ \E why \in {"event", "deadline", "error"} : WaitEnds(why)
           \/ Tick \/ CheckNode \/ Poll \/ Sleep \/ LuksFormat
    PROVE  StageInv'
  <1> USE DEF StageInv, FormatsTheNewPartition, EventNotMissed, Finish, disk, waiting
  <1>1. CASE Listen
    BY <1>1 DEF Listen
  <1>2. CASE ProbeAndWait
    BY <1>2, PartprobeNew DEF ProbeAndWait
  <1>3. CASE \E why \in {"event", "deadline", "error"} : WaitEnds(why)
    BY <1>3 DEF WaitEnds
  <1>4. CASE Tick
    BY <1>4 DEF Tick
  <1>5. CASE CheckNode
    BY <1>5 DEF CheckNode
  <1>6. CASE Poll
    BY <1>6, PartprobeNew DEF Poll
  <1>7. CASE Sleep
    BY <1>7 DEF Sleep
  <1>8. CASE LuksFormat
    BY <1>8 DEF LuksFormat
  <1>9. QED
    BY <1>1, <1>2, <1>3, <1>4, <1>5, <1>6, <1>7, <1>8

\* StageInv is an invariant.
LEMMA StageInvHolds == Spec => []StageInv
  <1>1. Init => StageInv
    BY FormatBounds DEF Init, StageInv, FormatsTheNewPartition, EventNotMissed
  <1>2. StageInv /\ [Next]_vars => StageInv'
    <2> SUFFICES ASSUME StageInv, [Next]_vars PROVE StageInv'
      OBVIOUS
    <2>1. CASE UdevdRescan
      <3>1. table = "new" => node' = "new" /\ (event => event')
        BY <2>1, RereadNew DEF UdevdRescan
      <3>2. QED
        BY <2>1, <3>1 DEF UdevdRescan, StageInv, FormatsTheNewPartition, EventNotMissed
    <2>2. CASE UseOrRelease
      BY <2>2 DEF UseOrRelease, StageInv, FormatsTheNewPartition, EventNotMissed, waiting
    <2>3. CASE UNCHANGED vars
      BY <2>3 DEF vars, StageInv, FormatsTheNewPartition, EventNotMissed
    <2>4. QED
      BY <2>1, <2>2, <2>3, EarlyStages, WaitingStages DEF Next, Stage
  <1>3. QED
    BY <1>1, <1>2, PTL DEF Spec

\* A whole-disk format that succeeds after partprobe went through has formatted the new
\* partition: mounts, releases and a slow or quick udevd in between change nothing.
THEOREM NewPartitionFormatted == Spec => []FormatsTheNewPartition
  <1>1. StageInv => FormatsTheNewPartition
    BY DEF StageInv
  <1>2. QED
    BY <1>1, StageInvHolds, PTL

\* The uevent the wait is for cannot be missed: udev_wait_for_partition listens before it
\* has the table read again.
THEOREM NoEventMissed == Spec => []EventNotMissed
  <1>1. StageInv => EventNotMissed
    BY DEF StageInv
  <1>2. QED
    BY <1>1, StageInvHolds, PTL
=============================================================================
