--------------------------- MODULE PartitionFormat ---------------------------
(***************************************************************************)
(* FormatPartition on a removable device, stage by stage (format.rs): wipe *)
(* signatures, write a GPT with one partition, wait for the kernel to show *)
(* that partition, format it.  The kernel's idea of partition 1 is state   *)
(* of its own: it changes when the table is read again, by partprobe       *)
(* (BLKRRPART) or by udevd after the device was written to, and it stays   *)
(* as it was when a partition of the disk is in use.                       *)
(***************************************************************************)
EXTENDS Naturals

CONSTANTS
    FallbackPollIterations,   \* FALLBACK_POLL_ITERATIONS (20 in the code)
    UdevWaitTimeout,          \* UDEV_WAIT_TIMEOUT in clock ticks (10 s in the code)
    MaxAttempts,              \* FormatPartition calls in succession (bound)
    Targets                   \* what may be formatted, a subset of {"disk", "partition"}

ASSUME FormatBounds ==
    /\ FallbackPollIterations \in Nat /\ UdevWaitTimeout \in Nat
    /\ MaxAttempts \in Nat \ {0} /\ Targets \subseteq {"disk", "partition"}

VARIABLES
    target,     \* the whole disk, or its partition 1
    before,     \* partition 1 of the table that is being replaced
    table,      \* partition table on the medium: "old", "partial" or "new"
    node,       \* partition 1 as the kernel has it: "none", "old" or "new"
    inUse,      \* what is mounted or mapped: nothing, partition 1, or another partition
    rescan,     \* udevd has yet to react to the table having been written
    pc,         \* stage of the call being served
    listening,  \* the uevent socket is open
    event,      \* the partition's "add" uevent waits on the socket
    clock,      \* ticks left of the udev wait
    polls,      \* fallback checks made
    probed,     \* what the last partprobe of this call did; the code ignores it
    luks,       \* the partition extent the LUKS2 header was last written to
    result,     \* what the client was told last
    attempts

vars == <<target, before, table, node, inUse, rescan, pc, listening, event, clock, polls,
          probed, luks, result, attempts>>
disk == <<target, before, table, node, inUse, rescan>>
waiting == <<listening, event, clock, polls, probed>>

Stages == {"wipefs", "gpt", "gptwrite", "listen", "probe", "wait", "exists",
           "poll", "sleep", "luksformat"}

TypeOK ==
    /\ target \in Targets /\ before \in {"none", "old", "new"}
    /\ table \in {"old", "partial", "new"} /\ node \in {"none", "old", "new"}
    /\ inUse \in {"no", "part1", "other"} /\ rescan \in BOOLEAN
    /\ pc \in Stages \cup {"idle"}
    /\ listening \in BOOLEAN /\ event \in BOOLEAN
    /\ clock \in 0 .. UdevWaitTimeout /\ polls \in 0 .. FallbackPollIterations
    /\ probed \in {"no", "ok", "refused"}
    /\ luks \in {"none", "old", "new"}
    /\ result \in {"none", "ok", "error"}
    /\ attempts \in 0 .. MaxAttempts

-----------------------------------------------------------------------------
(* The kernel *)

\* What reading the table again may show: of a table half written, the old one or nothing.
Readable == CASE table = "old" -> {before}
              [] table = "partial" -> {before, "none"}
              [] OTHER -> {"new"}

\* The partitions are dropped and added again; whoever listens is told of each one added.
Reread == /\ inUse = "no"
          /\ node' \in Readable
          /\ event' = (event \/ (listening /\ node' # "none"))

\* partprobe: best effort, a busy disk is left as it is.
Partprobe == \/ Reread /\ probed' = "ok"
             \/ inUse # "no" /\ probed' = "refused" /\ UNCHANGED <<node, event>>
-----------------------------------------------------------------------------
Init ==
    /\ target \in Targets
    /\ before \in {"none", "old"}
    /\ target = "partition" => before = "old"
    /\ table = "old" /\ node = before
    /\ inUse \in {"no", "part1", "other"} /\ (inUse = "part1" => before = "old")
    /\ rescan = FALSE /\ pc = "idle"
    /\ listening = FALSE /\ event = FALSE /\ clock = 0 /\ polls = 0 /\ probed = "no"
    /\ luks = "none" /\ result = "none" /\ attempts = 0

\* The call ends; dropping the socket ends the subscription.
Finish(r) ==
    /\ pc' = "idle" /\ result' = r
    /\ listening' = FALSE /\ event' = FALSE
    /\ UNCHANGED <<clock, polls, probed>>

FormatRemovablePartition ==
    /\ pc = "idle" /\ attempts < MaxAttempts
    /\ attempts' = attempts + 1
    /\ pc' = "wipefs" /\ result' = "none" /\ probed' = "no" /\ polls' = 0
    /\ UNCHANGED <<disk, listening, event, clock, luks>>

\* udevd looks again, in its own time, at a device that was written to and closed.
ClosedAfterWrites(maybe) == rescan' \in IF maybe THEN {rescan, TRUE} ELSE {rescan}

\* Any stage may fail; what was written before stays.
StageFails ==
    /\ pc \in {"wipefs", "gpt", "gptwrite", "luksformat"}
    /\ Finish("error")
    /\ ClosedAfterWrites(pc # "luksformat")
    /\ UNCHANGED <<target, before, table, node, inUse, luks, attempts>>

\* Superblock magics are zeroed; the partition table's own are only probed.
Wipefs ==
    /\ pc = "wipefs"
    /\ pc' = IF target = "partition" THEN "luksformat" ELSE "gpt"
    /\ ClosedAfterWrites(TRUE)
    /\ UNCHANGED <<target, before, table, node, inUse, waiting, luks, result, attempts>>

\* gpt_zap_and_partition: the protective MBR goes first.
WriteProtectiveMbr ==
    /\ pc = "gpt"
    /\ table' = "partial"
    /\ before' = IF table = "new" THEN "new" ELSE before
    /\ pc' = "gptwrite"
    /\ UNCHANGED <<target, node, inUse, rescan, waiting, luks, result, attempts>>

\* Mutant of WriteGpt: the table is built but never written out.
WriteGptForgotten ==
    /\ pc = "gptwrite"
    /\ pc' = "listen"
    /\ UNCHANGED <<disk, waiting, luks, result, attempts>>

\* The device is written and closed, so udevd will look at it again.  The final sync
\* may fail though the table is there.
WriteGpt ==
    /\ pc = "gptwrite"
    /\ table' = "new" /\ rescan' = TRUE
    /\ \/ pc' = "listen" /\ UNCHANGED <<waiting, result>>
       \/ Finish("error")
    /\ UNCHANGED <<target, before, node, inUse, luks, attempts>>

\* Mutant of Listen: the table is read again before the socket listens.
ProbeThenListen ==
    /\ pc = "listen"
    /\ \/ /\ Partprobe /\ pc' = "wait" /\ listening' = TRUE /\ clock' = UdevWaitTimeout
       \/ /\ pc' = "poll" /\ UNCHANGED <<node, event, probed, listening, clock>>
    /\ UNCHANGED <<target, before, table, inUse, rescan, polls, luks, result, attempts>>

\* udev_wait_for_partition: the monitor, or the fallback when there can be none.
Listen ==
    /\ pc = "listen"
    /\ \/ pc' = "probe" /\ listening' = TRUE
       \/ pc' = "poll" /\ UNCHANGED listening
    /\ UNCHANGED <<disk, event, clock, polls, probed, luks, result, attempts>>

ProbeAndWait ==
    /\ pc = "probe"
    /\ Partprobe
    /\ clock' = UdevWaitTimeout
    /\ pc' = "wait"
    /\ UNCHANGED <<target, before, table, inUse, rescan, listening, polls, luks, result, attempts>>

\* The wait ends with the event, with the deadline, or with an error of poll(2).
WaitEnds(why) ==
    /\ pc = "wait"
    /\ CASE why = "event"    -> event
         [] why = "deadline" -> clock = 0
         [] OTHER            -> TRUE
    /\ pc' = "exists"
    /\ listening' = FALSE /\ event' = FALSE
    /\ UNCHANGED <<disk, clock, polls, probed, luks, result, attempts>>

\* Mutant of Tick: the time left is taken without a check.
TickPastDeadline ==
    /\ pc = "wait"
    /\ clock' = clock - 1
    /\ UNCHANGED <<disk, pc, listening, event, polls, probed, luks, result, attempts>>

Tick ==
    /\ pc = "wait" /\ clock > 0
    /\ clock' = clock - 1
    /\ UNCHANGED <<disk, pc, listening, event, polls, probed, luks, result, attempts>>

\* Whatever ended the wait, the existence of the node decides.
CheckNode ==
    /\ pc = "exists"
    /\ IF node # "none"
       THEN pc' = "luksformat" /\ UNCHANGED <<waiting, result>>
       ELSE Finish("error")
    /\ UNCHANGED <<disk, luks, attempts>>

\* One turn of the fallback loop: an existing node is enough, otherwise partprobe and sleep.
Poll ==
    /\ pc = "poll"
    /\ \/ /\ node # "none"
          /\ pc' = "luksformat"
          /\ UNCHANGED <<node, waiting, result>>
       \/ /\ node = "none" /\ polls < FallbackPollIterations
          /\ Partprobe
          /\ pc' = "sleep"
          /\ UNCHANGED <<listening, clock, polls, result>>
       \/ /\ node = "none" /\ polls = FallbackPollIterations
          /\ Finish("error")
          /\ UNCHANGED node
    /\ UNCHANGED <<target, before, table, inUse, rescan, luks, attempts>>

\* Mutant of Sleep: the loop does not count.
SleepForever ==
    /\ pc = "sleep"
    /\ pc' = "poll"
    /\ UNCHANGED <<disk, waiting, luks, result, attempts>>

Sleep ==
    /\ pc = "sleep"
    /\ polls' = polls + 1
    /\ pc' = "poll"
    /\ UNCHANGED <<disk, listening, event, clock, probed, luks, result, attempts>>

\* crypt_format takes the node exclusively and writes where the kernel has it.
LuksFormat ==
    /\ pc = "luksformat"
    /\ node # "none" /\ inUse # "part1"
    /\ luks' = node
    /\ Finish("ok")
    /\ UNCHANGED <<disk, attempts>>
-----------------------------------------------------------------------------
(* The rest of the machine *)

UdevdRescan ==
    /\ rescan /\ Reread
    /\ rescan' = FALSE
    /\ UNCHANGED <<target, before, table, inUse, pc, listening, clock, polls, probed, luks,
                   result, attempts>>

\* A desktop mounts what it finds, and lets go of it.
UseOrRelease ==
    /\ \/ inUse = "no" /\ node # "none" /\ inUse' = "part1"
       \/ inUse # "no" /\ inUse' = "no"
    /\ UNCHANGED <<target, before, table, node, rescan, pc, waiting, luks, result, attempts>>

ServiceStops ==
    /\ pc # "idle"
    /\ Finish("error")
    /\ ClosedAfterWrites(pc \in {"wipefs", "gpt", "gptwrite"})
    /\ UNCHANGED <<target, before, table, node, inUse, luks, attempts>>

Stage ==
    \/ Wipefs \/ WriteProtectiveMbr \/ WriteGpt \/ Listen \/ ProbeAndWait
    \/ \E why \in {"event", "deadline"} : WaitEnds(why)
    \/ CheckNode \/ Poll \/ Sleep \/ LuksFormat \/ StageFails

Next ==
    \/ FormatRemovablePartition \/ Stage \/ WaitEnds("error") \/ Tick
    \/ UdevdRescan \/ UseOrRelease \/ ServiceStops

(* A handler's thread is scheduled and time passes; the wait may end early, udevd may be   *)
(* slow, and nobody has to let go of a mounted partition.                                  *)
Spec == Init /\ [][Next]_vars /\ WF_vars(Stage) /\ WF_vars(Tick)
-----------------------------------------------------------------------------
\* A successful whole-disk format whose partprobe went through has put the volume into the
\* partition it has just created, whatever was there before and however late udevd reacts.
FormatsTheNewPartition ==
    (result = "ok" /\ target = "disk" /\ probed = "ok") => luks = "new"

\* "so the new partition's "add" event can't fire before we're listening": with the table
\* read again, the wait has the event in hand and does not run into its deadline.
EventNotMissed == (pc = "wait" /\ probed = "ok" /\ table = "new") => event

\* Every call ends, also when the node never appears and every partprobe is refused.
EveryCallEnds == pc # "idle" ~> pc = "idle"

\* udev_wait_for_partition: "the caller checks the node's existence afterward, which is
\* authoritative either way".  A successful whole-disk format is one of the new partition.
NodeIsAuthoritative == (result = "ok" /\ target = "disk") => luks = "new"
=============================================================================
