----------------------------- MODULE Containers -----------------------------
(***************************************************************************)
(* Container files and the dm-crypt mappings over them: creating a         *)
(* container by path or by descriptor, opening a volume, closing it by     *)
(* name or by the file behind it.  Calls overlap step by step with each    *)
(* other, with the desktop mounting and mapping on its own, and with the   *)
(* owner of the files creating, moving and deleting them.                  *)
(*                                                                         *)
(* A volume key is the number of the format that made it.  The credential  *)
(* of an OpenVolumeFd call opens a keyslot of the container, or it does    *)
(* not; how credentials are tried is VolumeService's subject.  Kernel,     *)
(* udisks, libcryptsetup and the file system are external.                 *)
(***************************************************************************)
EXTENDS Naturals, Sequences, FiniteSets

CONSTANTS
    Call,        \* calls that may be in flight together
    Path,        \* names of container files, all under /home or /tmp
    Inode,       \* the files themselves (bound)
    NoFile,
    Names,       \* mapper names, in the order they sort
    BadNames,    \* those of them outside the service's alphabet
    Outside,     \* what other tools map over a loop device: [name, kind, whole] (bound)
    Sizes,       \* sizes asked for, in MiB
    MaxFormats   \* containers formatted in one behaviour (bound)

Name == {Names[k] : k \in DOMAIN Names}

ASSUME ContainersConstants ==
    /\ Path \cap Inode = {} /\ NoFile \notin Path \cup Inode
    /\ Names \in Seq(Name) /\ BadNames \subseteq Name
    /\ Outside \subseteq [name : Name, kind : {"luks", "other"}, whole : BOOLEAN]
    /\ Sizes \subseteq Nat /\ MaxFormats \in Nat

NoKey == 0
Key == 0 .. MaxFormats

VARIABLES
    at,       \* directory: the file at each path
    size,     \* of each file: "unused", "empty" or "sized"
    header,   \* volume key a file's LUKS2 header commits to, NoKey without a header
    keyed,    \* files whose header has a keyslot
    formats,  \* formats so far
    cache,    \* VOLUME_KEY_CACHE; NoFile: descriptors whose file has no path left
    mapped,   \* dm table: what is mapped under each name
    call      \* progress of every call

files == <<at, size, header, keyed, formats>>
vars == <<files, cache, mapped, call>>

\* kind: the subsystem in the dm UUID; whole: over the loop device, not a partition of it.
Mapping == [kind : {"luks", "other"}, file : Inode, whole : BOOLEAN, mounted : BOOLEAN]
NoMap == [kind |-> "none", file |-> NoFile, whole |-> TRUE, mounted |-> FALSE]
InUse(n) == mapped[n] # NoMap

\* The answers to a status query: one that fails, or comes out Invalid, counts as "no such
\* mapping".
mapping_is_active(n) == {InUse(n), FALSE}

Creating == {"create", "createfd"}

(* target: a path, or the file behind a descriptor.  Of history are since  *)
(* (`formats` when the call checked the file it is to create), arrived     *)
(* (files moved onto its path since), was (the file's mappings when        *)
(* CloseVolumeFd came, while they last), unseen (those a failing query hid *)
(* from it), fresh (names mapped since it listed them) and spoilt (another *)
(* call, a move, a deletion or an expiry came in between).                 *)
CallRecord ==
    [op : {"none", "create", "createfd", "open", "close", "closefd"},
     pc : {"idle", "make", "size", "format", "seed", "store", "finish", "getkey",
           "fill", "activate", "close", "mounts", "deactivate"},
     target : Path \cup Inode \cup {NoFile}, name : Name \cup {""}, cred : BOOLEAN, key : Key,
     todo : SUBSET Name, since : Key, arrived : SUBSET Inode,
     was : SUBSET Name, unseen : SUBSET Name, fresh : SUBSET Name, spoilt : BOOLEAN]

Idle == [op |-> "none", pc |-> "idle", target |-> NoFile, name |-> "", cred |-> FALSE,
         key |-> NoKey, todo |-> {}, since |-> 0, arrived |-> {},
         was |-> {}, unseen |-> {}, fresh |-> {}, spoilt |-> FALSE]

\* Every variable has its type, and only a file with a header has keyslots.
TypeOK ==
    /\ at \in [Path -> Inode \cup {NoFile}]
    /\ size \in [Inode -> {"unused", "empty", "sized"}]
    /\ header \in [Inode -> Key] /\ keyed \subseteq {i \in Inode : header[i] # NoKey}
    /\ formats \in Key
    /\ cache \in [Path \cup {NoFile} -> Key]
    /\ mapped \in [Name -> Mapping \cup {NoMap}]
    /\ call \in [Call -> CallRecord]

Init ==
    /\ at = [p \in Path |-> NoFile]
    /\ size = [i \in Inode |-> "unused"]
    /\ header = [i \in Inode |-> NoKey] /\ keyed = {} /\ formats = 0
    /\ cache = [p \in Path \cup {NoFile} |-> NoKey]
    /\ mapped = [n \in Name |-> NoMap]
    /\ call = [c \in Call |-> Idle]

-----------------------------------------------------------------------------
(* Building blocks *)

\* A path is resolved anew by every step; a descriptor stays with its file.
File(c) == LET t == call[c].target IN IF t \in Path THEN at[t] ELSE t

\* luks.rs realpath: what /proc/self/fd/N leads to, as long as the file has a path.
realpath(c) ==
    LET t == call[c].target
        paths == {p \in Path : at[p] = t} IN
    IF t \in Path THEN t
    ELSE IF paths # {} THEN CHOOSE p \in paths : TRUE ELSE NoFile

Go(c, stage) == call' = [call EXCEPT ![c].pc = stage]
Return(c) == call' = [call EXCEPT ![c] = Idle]
Spoil == [c \in Call |-> [call[c] EXCEPT !.spoilt = @ \/ call[c].op \in Creating]]

InFlight == {c \in Call : call[c].pc # "idle"}

\* The handler of a call starts; every other call in flight may now meet it.
Begin(c, r) ==
    /\ call[c].pc = "idle"
    /\ call' = [Spoil EXCEPT ![c] = [r EXCEPT !.spoilt = r.op \in Creating /\ InFlight # {}]]
    /\ UNCHANGED <<files, cache, mapped>>

\* A step that fails with an error return and has changed nothing.
StepFails(c) ==
    /\ call[c].pc \in {"make", "size", "format", "seed", "getkey", "activate"}
    /\ Return(c)
    /\ UNCHANGED <<files, cache, mapped>>

SizeOk(mb) == mb \in 1 .. 8192

-----------------------------------------------------------------------------
(* Creating a container *)

\* Mutant of CreateEncryptedImage: the path may exist.
CreateEncryptedImageAnyway(c) ==
    \E p \in Path, mb \in Sizes, pass \in BOOLEAN :
        /\ SizeOk(mb) /\ formats < MaxFormats
        /\ Begin(c, [Idle EXCEPT !.op = "create", !.pc = "make", !.target = p,
                                 !.cred = pass, !.since = formats])

\* op_create_encrypted_image up to File::create: an existing path and a size out of range
\* are refused before anything is touched.
CreateEncryptedImage(c) ==
    \E p \in Path, mb \in Sizes, pass \in BOOLEAN :
        /\ at[p] = NoFile /\ SizeOk(mb) /\ formats < MaxFormats
        /\ Begin(c, [Idle EXCEPT !.op = "create", !.pc = "make", !.target = p,
                                 !.cred = pass, !.since = formats])

\* CreateEncryptedImageFd up to `blocking`: the descriptor must point at an empty file.
CreateEncryptedImageFd(c) ==
    \E i \in Inode, mb \in Sizes, pass \in BOOLEAN :
        /\ size[i] = "empty" /\ SizeOk(mb) /\ formats < MaxFormats
        /\ Begin(c, [Idle EXCEPT !.op = "createfd", !.pc = "size", !.target = i,
                                 !.cred = pass, !.since = formats])

\* create_image_file: File::create truncates whatever is at the path by now.
create_image_file(c) ==
    /\ call[c].pc = "make"
    /\ \E i \in Inode :
          /\ IF File(c) = NoFile THEN size[i] = "unused" ELSE i = File(c)
          /\ at' = [at EXCEPT ![call[c].target] = i]
          /\ size' = [size EXCEPT ![i] = "sized"]
          /\ header' = [header EXCEPT ![i] = NoKey] /\ keyed' = keyed \ {i}
    /\ Go(c, "format")
    /\ UNCHANGED <<formats, cache, mapped>>

\* ftruncate grows the file and leaves what it holds.
Ftruncate(c) ==
    /\ call[c].pc = "size"
    /\ size' = [size EXCEPT ![call[c].target] = "sized"]
    /\ Go(c, "format")
    /\ UNCHANGED <<at, header, keyed, formats, cache, mapped>>

\* format_container: crypt_format writes a header with a new key and no keyslot.
format_container(c) ==
    /\ call[c].pc = "format" /\ formats < MaxFormats
    /\ IF File(c) = NoFile
       THEN Return(c) /\ UNCHANGED files
       ELSE /\ formats' = formats + 1
            /\ header' = [header EXCEPT ![File(c)] = formats + 1]
            /\ keyed' = keyed \ {File(c)} /\ size' = [size EXCEPT ![File(c)] = "sized"]
            /\ call' = [call EXCEPT ![c].key = formats + 1, ![c].cred = FALSE,
                                    ![c].pc = IF call[c].cred THEN "seed" ELSE "store"]
            /\ UNCHANGED at
    /\ UNCHANGED <<cache, mapped>>

\* Mutant of add_by_key: into whatever header is there.
add_by_key_anyway(c) ==
    /\ call[c].pc = "seed"
    /\ keyed' = keyed \cup {File(c)}
    /\ Go(c, "finish")
    /\ UNCHANGED <<at, size, header, formats, cache, mapped>>

\* format_luks2: the passphrase keyslot, refused when the header is another's by now.
add_by_key(c) ==
    /\ call[c].pc = "seed"
    /\ \E i \in Inode : header[i] = call[c].key /\ keyed' = keyed \cup {i}
    /\ Go(c, "finish")
    /\ UNCHANGED <<at, size, header, formats, cache, mapped>>

\* Mutant of cache_volume_key: the key is filed under the descriptor, not its path.
cache_by_descriptor(c) ==
    /\ call[c].pc \in {"store", "fill"}
    /\ cache' = [cache EXCEPT ![NoFile] = call[c].key]
    /\ Go(c, IF call[c].pc = "store" THEN "finish" ELSE "activate")
    /\ UNCHANGED <<files, mapped>>

\* format_luks2_keyless and get_volume_key end with the key in the cache.
cache_volume_key(c) ==
    /\ call[c].pc \in {"store", "fill"}
    /\ cache' = [cache EXCEPT ![realpath(c)] = call[c].key]
    /\ Go(c, IF call[c].pc = "store" THEN "finish" ELSE "activate")
    /\ UNCHANGED <<files, mapped>>

\* The image is given to the caller last of all, when it was named by path; then the call
\* answers, with success unless the file has gone.
Finish(c) ==
    /\ call[c].pc = "finish"
    /\ Return(c)
    /\ UNCHANGED <<files, cache, mapped>>

-----------------------------------------------------------------------------
(* Opening *)

valid_mapper_name(n) == n \notin BadNames

\* A name that is mapped already counts as opened, whatever is behind it: such a call
\* changes nothing.  One whose query does not see the mapping goes on like the first.
\* (OpenVolume does the same to a path it resolves first.)
OpenVolumeFd(c) ==
    \E i \in Inode, n \in Name :
        /\ size[i] # "unused" /\ valid_mapper_name(n) /\ FALSE \in mapping_is_active(n)
        /\ Begin(c, [Idle EXCEPT !.op = "open", !.pc = "getkey", !.target = i, !.name = n])

\* From the cache, whatever the credential; otherwise from a keyslot the credential opens
\* (that it opens none is a failing step).
get_volume_key(c) ==
    /\ call[c].pc = "getkey"
    /\ IF cache[realpath(c)] # NoKey
       THEN call' = [call EXCEPT ![c].pc = "activate", ![c].key = cache[realpath(c)]]
       ELSE /\ File(c) \in keyed
            /\ call' = [call EXCEPT ![c].pc = "fill", ![c].key = header[File(c)]]
    /\ UNCHANGED <<files, cache, mapped>>

\* A name comes into use; every CloseVolumeFd that has it on its list notes so.
Map(n, m) == mapped' = [mapped EXCEPT ![n] = m]
Renewed(n, calls) ==
    [c \in Call |-> [calls[c] EXCEPT !.fresh =
        IF calls[c].op = "closefd" /\ n \in calls[c].todo THEN @ \cup {n} ELSE @]]

\* activate_by_volume_key: the header's digest must match, the name must be free.
activate_by_volume_key(c) ==
    /\ call[c].pc = "activate"
    /\ File(c) # NoFile /\ header[File(c)] = call[c].key
    /\ ~InUse(call[c].name)
    /\ Map(call[c].name, [kind |-> "luks", file |-> File(c), whole |-> TRUE, mounted |-> FALSE])
    /\ call' = Renewed(call[c].name, [call EXCEPT ![c] = Idle])
    /\ UNCHANGED <<files, cache>>

-----------------------------------------------------------------------------
(* Closing *)

\* CloseVolume; a name whose query shows no mapping counts as closed and is left as it is.
CloseVolume(c) ==
    \E n \in Name :
        /\ valid_mapper_name(n) /\ TRUE \in mapping_is_active(n)
        /\ Begin(c, [Idle EXCEPT !.op = "close", !.pc = "mounts", !.todo = {n}])

\* Mutant of dm_holders: the holders of the partitions are not looked for.
dm_holders_whole(i) == {n \in Name : mapped[n].file = i /\ mapped[n].whole}

\* What sits on the loop device of file i, or on one of its partitions.
dm_holders(i) == {n \in Name : mapped[n].file = i /\ mapped[n].whole}
                 \cup {n \in Name : mapped[n].file = i /\ ~mapped[n].whole}

\* Mutant of crypt_mappings_backed_by: every subsystem's holders count.
mappings_backed_by_any(i) == dm_holders(i)

\* Of these the LUKS mappings, each once; they are dealt with as they sort.
crypt_mappings_backed_by(i) == {n \in dm_holders(i) : mapped[n].kind = "luks"}

\* snapshot_loop_devices skips what it cannot read (the list of block devices, a loop
\* device's status, a directory of holders, a holder's attributes): any part is found.
Found(i) == SUBSET crypt_mappings_backed_by(i)

\* The first, as they sort, of the names call c has still to deal with.
AtHand(c, n) ==
    /\ n \in call[c].todo
    /\ \E k \in DOMAIN Names : Names[k] = n /\ \A j \in 1 .. k - 1 : Names[j] \notin call[c].todo

\* deactivate_volumes_backed_by: one snapshot of the loop devices, then name after name.
\* For a file without LUKS mappings the call is a success that changes nothing.
CloseVolumeFd(c) ==
    \E i \in Inode :
        /\ \E n \in Name : mapped[n].file = i /\ mapped[n].kind = "luks"
        /\ \E found \in Found(i) :
              Begin(c, [Idle EXCEPT
                  !.op = "closefd", !.pc = "close", !.target = i, !.todo = found,
                  !.was = {n \in Name : mapped[n].file = i /\ mapped[n].kind = "luks"},
                  !.unseen = crypt_mappings_backed_by(i) \ found])

\* The name at hand is dealt with; the next one follows.
Closed(c, n, calls) == [calls EXCEPT ![c].pc = "close", ![c].todo = @ \ {n}]
PassedOver(c, n) ==
    [Closed(c, n, call) EXCEPT ![c].unseen = IF InUse(n) THEN @ \cup {n} ELSE @]

\* deactivate_volume on the next name; the call ends with the last one or the first failure.
deactivate_volume(c) ==
    /\ call[c].pc = "close"
    /\ \/ call[c].todo = {} /\ Return(c)
       \/ \E n \in Name :
             /\ AtHand(c, n)
             /\ IF ~valid_mapper_name(n) THEN Return(c)
                ELSE \E active \in mapping_is_active(n) :
                        IF active THEN Go(c, "mounts") ELSE call' = PassedOver(c, n)
    /\ UNCHANGED <<files, cache, mapped>>

\* mapping_is_mounted: /proc/mounts that cannot be read counts as not mounted.
mapping_is_mounted(c) ==
    /\ call[c].pc = "mounts"
    /\ \/ Go(c, "deactivate")
       \/ \E n \in Name : AtHand(c, n) /\ mapped[n].mounted /\ Return(c)
    /\ UNCHANGED <<files, cache, mapped>>

\* A mapping goes away; it is no longer one of those CloseVolumeFd came for.
Unmap(n) == mapped' = [mapped EXCEPT ![n] = NoMap]
Lost(n, calls) == [c \in Call |-> [calls[c] EXCEPT !.was = @ \ {n}]]

\* Mutant of Deactivate: CryptDeactivate::FORCE.
DeactivateForced(c) ==
    /\ call[c].pc = "deactivate"
    /\ \E n \in Name :
          /\ AtHand(c, n)
          /\ IF ~InUse(n)
             THEN Return(c) /\ UNCHANGED mapped
             ELSE Unmap(n) /\ call' = Lost(n, Closed(c, n, call))
    /\ UNCHANGED <<files, cache>>

\* crypt_init_by_name fails when the mapping is gone by now, and the kernel refuses to
\* take down one that is mounted by now.
Deactivate(c) ==
    /\ call[c].pc = "deactivate"
    /\ \E n \in Name :
          /\ AtHand(c, n)
          /\ IF ~InUse(n) \/ mapped[n].mounted
             THEN Return(c) /\ UNCHANGED mapped
             ELSE Unmap(n) /\ call' = Lost(n, Closed(c, n, call))
    /\ UNCHANGED <<files, cache>>

-----------------------------------------------------------------------------
(* The surroundings *)

\* The client's O_CREAT|O_EXCL, before it passes the descriptor.
ClientCreates(p) ==
    /\ at[p] = NoFile
    /\ \E i \in Inode : /\ size[i] = "unused"
                        /\ at' = [at EXCEPT ![p] = i]
                        /\ size' = [size EXCEPT ![i] = "empty"]
    /\ UNCHANGED <<header, keyed, formats, cache, mapped, call>>

\* A file that exists, at another path or anywhere else, is moved or linked onto a path;
\* what was there loses that name.
Arrived(p, i, calls) ==
    [c \in Call |-> [calls[c] EXCEPT !.arrived =
        IF calls[c].target = p /\ calls[c].pc \in {"make", "format"} THEN @ \cup {i} ELSE @]]

MoveOnto(p) ==
    \E i \in Inode :
        /\ size[i] # "unused" /\ at[p] # i
        /\ at' = [at EXCEPT ![p] = i]
        /\ call' = Arrived(p, i, Spoil)
        /\ UNCHANGED <<size, header, keyed, formats, cache, mapped>>

Unlink(p) ==
    /\ at[p] # NoFile
    /\ at' = [at EXCEPT ![p] = NoFile]
    /\ call' = Spoil
    /\ UNCHANGED <<size, header, keyed, formats, cache, mapped>>

\* VOLUME_KEY_CACHE_TTL passes.
Expire(p) ==
    /\ cache[p] # NoKey
    /\ cache' = [cache EXCEPT ![p] = NoKey]
    /\ call' = Spoil
    /\ UNCHANGED <<files, mapped>>

\* Another tool maps a LUKS volume, or something else, over a file's loop device.
MapElsewhere(m) ==
    /\ ~InUse(m.name)
    /\ \E i \in Inode :
          /\ size[i] = "sized"
          /\ Map(m.name, [kind |-> m.kind, file |-> i, whole |-> m.whole, mounted |-> FALSE])
    /\ call' = Renewed(m.name, call)
    /\ UNCHANGED <<files, cache>>

Mount(n) ==
    /\ InUse(n)
    /\ mapped' = [mapped EXCEPT ![n].mounted = ~@]
    /\ UNCHANGED <<files, cache, call>>

-----------------------------------------------------------------------------
Request(c) ==
    \/ CreateEncryptedImage(c) \/ CreateEncryptedImageFd(c)
    \/ OpenVolumeFd(c) \/ CloseVolume(c) \/ CloseVolumeFd(c)

CreateStep(c) ==
    \/ create_image_file(c) \/ Ftruncate(c) \/ format_container(c) \/ add_by_key(c)
    \/ cache_volume_key(c) \/ Finish(c)

OpenStep(c) == get_volume_key(c) \/ activate_by_volume_key(c)

CloseStep(c) ==
    deactivate_volume(c) \/ mapping_is_mounted(c) \/ Deactivate(c)

ServiceStep(c) == CreateStep(c) \/ OpenStep(c) \/ CloseStep(c) \/ StepFails(c)

Next ==
    \/ \E c \in Call : Request(c) \/ ServiceStep(c)
    \/ \E p \in Path : ClientCreates(p) \/ MoveOnto(p) \/ Unlink(p)
    \/ \E p \in DOMAIN cache : Expire(p)
    \/ \E m \in Outside : MapElsewhere(m)
    \/ \E n \in Name : Mount(n)

Spec == Init /\ [][Next]_vars

-----------------------------------------------------------------------------
(* Properties *)

\* deactivate_volume: "tearing the dm-crypt device down under a live mount loses data".  No
\* step takes a mounted mapping away, though the mount may come after the check, or the
\* check may fail to see it: nothing but the absence of a force flag is in the way.
MountedStaysMapped ==
    [][\A n \in Name : mapped[n].mounted => mapped'[n] # NoMap]_vars

\* When CloseVolumeFd reports success, every LUKS mapping the file had when the call came,
\* on a partition of its loop device too, is gone, whatever was mapped and closed beside
\* it, but for those the kernel did not show it: sysfs or the loop device could not be
\* read, or mapping_is_active got no answer.
CloseFdLeavesNothing ==
    \A c \in Call : (call[c].op = "closefd" /\ call[c].pc = "close" /\ call[c].todo = {}) =>
        call[c].was \subseteq call[c].unseen

\* crypt_mappings_backed_by: what CloseVolumeFd takes down is a LUKS mapping of its own
\* file, or one that took over the name after the snapshot; a foreign holder and another
\* file's mapping that were there at the snapshot are left alone.
CloseFdSparesOthers ==
    \A c \in Call : (call[c].op = "closefd" /\ call[c].pc \in {"mounts", "deactivate"}) =>
        \A n \in Name : AtHand(c, n) =>
            \/ n \in call[c].fresh \/ ~InUse(n)
            \/ mapped[n].file = call[c].target /\ mapped[n].kind = "luks"

\* The step of call c that replaces or truncates the header of file i.
Clobbers(c, i) ==
    /\ header[i] # NoKey /\ header'[i] # header[i]
    /\ call'[c] # call[c] /\ call[c].op \in Creating /\ File(c) = i

\* "Never reformat in place: a brand-new container is always a new file": a container's
\* header is replaced or truncated only by a create call on that very file, and that call
\* had made its checks before the container was formatted or before it was moved onto the
\* call's path.  Two calls that both found nothing may clobber each other.
OlderContainerKept ==
    [][\A i \in Inode : (header[i] # NoKey /\ header'[i] # header[i]) =>
          \E c \in Call : /\ Clobbers(c, i)
                          /\ call[c].since < header[i] \/ i \in call[c].arrived]_vars

\* Creation that nothing else crossed and that reports success leaves a container that can
\* be opened: it has its passphrase keyslot, or the cache holds the key of its header under
\* the name the first enrollment will look it up by.
CreatedIsReachable ==
    \A c \in Call :
        (call[c].op \in Creating /\ call[c].pc = "finish" /\ ~call[c].spoilt) =>
            /\ header[File(c)] = call[c].key
            /\ File(c) \in keyed \/ cache[realpath(c)] = header[File(c)]
=============================================================================
