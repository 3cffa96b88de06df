-------------------------- MODULE ContainersProofs --------------------------
(***************************************************************************)
(* Proofs about Containers.  Everything rests on one inductive invariant,  *)
(* Kept: what a step of a call does to a file or a mapping depends on what *)
(* the call found when it was made, so the invariant says of every call in *)
(* flight how what it found relates to what is there by now.               *)
(***************************************************************************)
EXTENDS Containers, TLAPS

-----------------------------------------------------------------------------
(* The inductive invariant *)

\* Which operation is at which stage, and what it was given.
Staged(r) ==
    /\ r.op = "none" => r.pc = "idle"
    /\ r.op = "create" => r.target \in Path /\ r.pc \in {"make", "format", "seed", "store", "finish"}
    /\ r.op = "createfd" => r.target \in Inode /\ r.pc \in {"size", "format", "seed", "store", "finish"}
    /\ r.op = "open" => r.target \in Inode /\ r.name \in Name /\ r.pc \in {"getkey", "fill", "activate"}
    /\ r.op \in {"close", "closefd"} => r.pc \in {"close", "mounts", "deactivate"}
    /\ r.pc \in {"seed", "store", "finish"} => r.key # NoKey

Stages == \A c \in Call : Staged(call[c])

\* Formats are numbered as they come: no header is younger than the last one, no call has
\* checked later than that, and no two files carry the same key.
Dated ==
    /\ \A i \in Inode : header[i] <= formats
    /\ \A c \in Call : call[c].since <= formats
    /\ \A i, j \in Inode : header[i] = header[j] /\ header[i] # NoKey => i = j

\* Only a file that was given its size carries a header.
HeadersNeedRoom == \A i \in Inode : size[i] # "sized" => header[i] = NoKey

\* The file a create call is about to truncate or format carries no header, or one that
\* came after the call had made its checks, or it was moved onto the path since.
OnlyYounger ==
    \A c \in Call : (call[c].pc \in {"make", "size", "format"} /\ File(c) \in Inode) =>
        \/ header[File(c)] = NoKey \/ call[c].since < header[File(c)]
        \/ File(c) \in call[c].arrived

\* A create call that nothing crossed is the only one in flight.
Alone ==
    \A c \in Call : (call[c].op \in Creating /\ ~call[c].spoilt) => InFlight = {c}

\* From its format on such a call holds the key of its file, which in the end has a
\* keyslot or a cached key.
Reaching ==
    \A c \in Call : (call[c].op \in Creating /\ ~call[c].spoilt) =>
        /\ call[c].pc \in {"seed", "store", "finish"} =>
              File(c) \in Inode /\ header[File(c)] = call[c].key
        /\ call[c].pc = "finish" => File(c) \in keyed \/ cache[realpath(c)] = call[c].key

\* A name CloseVolumeFd has still to deal with was mapped anew since, is not mapped, or
\* is a LUKS mapping of the call's file.
OwnNames ==
    \A c \in Call : call[c].op = "closefd" =>
        \A n \in call[c].todo :
            \/ n \in call[c].fresh \/ ~InUse(n)
            \/ mapped[n].file = call[c].target /\ mapped[n].kind = "luks"

\* The mappings the call came for that are still there are mapped, and on its list unless
\* a query hid them from it.
StillListed ==
    \A c \in Call : call[c].op = "closefd" =>
        call[c].was \subseteq call[c].todo \cup call[c].unseen /\ \A n \in call[c].was : InUse(n)

Kept ==
    /\ TypeOK /\ Stages /\ Dated /\ HeadersNeedRoom /\ OnlyYounger
    /\ Alone /\ Reaching /\ OwnNames /\ StillListed
-----------------------------------------------------------------------------
(* Types *)

LEMMA NoMapOutside == NoMap \notin Mapping
BY ContainersConstants DEF NoMap, Mapping

LEMMA IdleTyped == Idle \in CallRecord
BY ContainersConstants DEF Idle, CallRecord, Key, NoKey

\* Marking the create calls that something crossed keeps every call's type.
LEMMA SpoilTyped ==
    ASSUME TypeOK
    PROVE  Spoil \in [Call -> CallRecord]
<1> SUFFICES ASSUME NEW c \in Call
             PROVE  [call[c] EXCEPT !.spoilt = @ \/ call[c].op \in Creating] \in CallRecord
  BY DEF Spoil
<1>1. call[c] \in CallRecord
  BY DEF TypeOK
<1>2. (call[c].spoilt \/ call[c].op \in Creating) \in BOOLEAN
  BY Zenon
<1> QED
  BY <1>1, <1>2 DEF CallRecord

\* A call that is taken on is a well-formed record at its first stage.
LEMMA BeginTyped ==
    ASSUME TypeOK, NEW c \in Call, NEW r \in CallRecord, Begin(c, r)
    PROVE  TypeOK'
<1> DEFINE b == r.op \in Creating /\ InFlight # {}
<1>1. b \in BOOLEAN
  BY Zenon
<1>2. [r EXCEPT !.spoilt = b] \in CallRecord
  BY <1>1 DEF CallRecord
<1>3. call' = [Spoil EXCEPT ![c] = [r EXCEPT !.spoilt = b]]
  BY DEF Begin
<1>4. call' \in [Call -> CallRecord]
  BY <1>2, <1>3, SpoilTyped
<1> QED
  BY <1>4 DEF TypeOK, Begin, files

LEMMA RequestTyped ==
    ASSUME TypeOK, NEW c \in Call, Request(c)
    PROVE  TypeOK'
<1> USE ContainersConstants
<1>1. CASE CreateEncryptedImage(c)
  <2>1. PICK p \in Path, mb \in Sizes, pass \in BOOLEAN :
           Begin(c, [Idle EXCEPT !.op = "create", !.pc = "make", !.target = p,
                                 !.cred = pass, !.since = formats])
    BY <1>1 DEF CreateEncryptedImage
  <2>2. [Idle EXCEPT !.op = "create", !.pc = "make", !.target = p,
                     !.cred = pass, !.since = formats] \in CallRecord
    BY IdleTyped DEF CallRecord, TypeOK
  <2> QED
    BY <2>1, <2>2, BeginTyped
<1>2. CASE CreateEncryptedImageFd(c)
  <2>1. PICK i \in Inode, mb \in Sizes, pass \in BOOLEAN :
           Begin(c, [Idle EXCEPT !.op = "createfd", !.pc = "size", !.target = i,
                                 !.cred = pass, !.since = formats])
    BY <1>2 DEF CreateEncryptedImageFd
  <2>2. [Idle EXCEPT !.op = "createfd", !.pc = "size", !.target = i,
                     !.cred = pass, !.since = formats] \in CallRecord
    BY IdleTyped DEF CallRecord, TypeOK
  <2> QED
    BY <2>1, <2>2, BeginTyped
<1>3. CASE OpenVolumeFd(c)
  <2>1. PICK i \in Inode, n \in Name :
           Begin(c, [Idle EXCEPT !.op = "open", !.pc = "getkey", !.target = i, !.name = n])
    BY <1>3 DEF OpenVolumeFd
  <2>2. [Idle EXCEPT !.op = "open", !.pc = "getkey", !.target = i, !.name = n] \in CallRecord
    BY IdleTyped DEF CallRecord
  <2> QED
    BY <2>1, <2>2, BeginTyped
<1>4. CASE CloseVolume(c)
  <2>1. PICK n \in Name : Begin(c, [Idle EXCEPT !.op = "close", !.pc = "mounts", !.todo = {n}])
    BY <1>4 DEF CloseVolume
  <2>2. [Idle EXCEPT !.op = "close", !.pc = "mounts", !.todo = {n}] \in CallRecord
    BY IdleTyped DEF CallRecord
  <2> QED
    BY <2>1, <2>2, BeginTyped
<1>5. CASE CloseVolumeFd(c)
  <2> DEFINE W(i) == {n \in Name : mapped[n].file = i /\ mapped[n].kind = "luks"}
             U(i, found) == crypt_mappings_backed_by(i) \ found
             R(i, found) == [Idle EXCEPT !.op = "closefd", !.pc = "close", !.target = i,
                                         !.todo = found, !.was = W(i), !.unseen = U(i, found)]
  <2>0. PICK i \in Inode : \E found \in Found(i) : Begin(c, R(i, found))
    BY <1>5 DEF CloseVolumeFd
  <2>1. PICK found \in Found(i) : Begin(c, R(i, found))
    BY <2>0
  <2>2. found \in SUBSET Name /\ W(i) \in SUBSET Name /\ U(i, found) \in SUBSET Name
    BY DEF Found, crypt_mappings_backed_by, dm_holders
  <2> HIDE DEF W, U
  <2>3. R(i, found) \in CallRecord
    BY <2>2, IdleTyped DEF CallRecord
  <2> QED
    BY <2>1, <2>3, BeginTyped
<1> QED
  BY <1>1, <1>2, <1>3, <1>4, <1>5 DEF Request

\* What the target of a call resolves to.
LEMMA FileTyped ==
    ASSUME TypeOK, NEW c \in Call
    PROVE  /\ File(c) \in Inode \cup {NoFile}
           /\ realpath(c) \in Path \cup {NoFile}
BY ContainersConstants DEF TypeOK, CallRecord, File, realpath

LEMMA ReturnTyped ==
    ASSUME TypeOK, NEW c \in Call, Return(c)
    PROVE  call' \in [Call -> CallRecord]
BY IdleTyped DEF TypeOK, Return

LEMMA GoTyped ==
    ASSUME TypeOK, NEW c \in Call,
           NEW stage \in {"make", "size", "format", "seed", "store", "finish", "getkey",
                          "fill", "activate", "close", "mounts", "deactivate"},
           Go(c, stage)
    PROVE  call' \in [Call -> CallRecord]
<1>1. call[c] \in CallRecord
  BY DEF TypeOK
<1>2. [call[c] EXCEPT !.pc = stage] \in CallRecord
  BY <1>1 DEF CallRecord
<1> QED
  BY <1>2 DEF TypeOK, Go

\* The stage of a call tells which operation it is.
LEMMA StageTells ==
    ASSUME NEW r \in CallRecord, Staged(r)
    PROVE  /\ r.pc = "idle" <=> r.op = "none"
           /\ r.pc = "make" => r.op = "create" /\ r.target \in Path
           /\ r.pc = "size" => r.op = "createfd" /\ r.target \in Inode
           /\ r.pc \in {"format", "seed", "store", "finish"} =>
                 r.op \in Creating /\ r.target \in Path \cup Inode
           /\ r.pc \in {"getkey", "fill", "activate"} =>
                 r.op = "open" /\ r.target \in Inode /\ r.name \in Name
           /\ r.pc \in {"close", "mounts", "deactivate"} => r.op \in {"close", "closefd"}
<1>1. r.op \in {"none", "create", "createfd", "open", "close", "closefd"}
  BY DEF CallRecord
<1> QED
  BY <1>1 DEF Staged, Creating

LEMMA CreateTyped ==
    ASSUME TypeOK, Stages, NEW c \in Call, CreateStep(c)
    PROVE  TypeOK'
<1> USE ContainersConstants
<1>0. call[c] \in CallRecord /\ Staged(call[c])
  BY DEF TypeOK, Stages
<1>1. CASE create_image_file(c)
  <2>1. call[c].target \in Path
    BY <1>0, <1>1, StageTells DEF create_image_file
  <2>2. call' \in [Call -> CallRecord]
    BY <1>1, GoTyped DEF create_image_file
  <2>3. NoKey \in Key
    BY DEF Key, NoKey
  <2>4. PICK i \in Inode : /\ at' = [at EXCEPT ![call[c].target] = i]
                           /\ size' = [size EXCEPT ![i] = "sized"]
                           /\ header' = [header EXCEPT ![i] = NoKey] /\ keyed' = keyed \ {i}
    BY <1>1 DEF create_image_file
  <2>5. keyed' \subseteq {j \in Inode : header'[j] # NoKey}
    BY <2>3, <2>4 DEF TypeOK
  <2>6. header' \in [Inode -> Key] /\ at' \in [Path -> Inode \cup {NoFile}]
    BY <2>1, <2>3, <2>4 DEF TypeOK
  <2> QED
    BY <1>1, <2>2, <2>4, <2>5, <2>6 DEF create_image_file, TypeOK
<1>2. CASE Ftruncate(c)
  <2>1. call' \in [Call -> CallRecord]
    BY <1>2, GoTyped DEF Ftruncate
  <2> QED
    BY <1>2, <2>1 DEF Ftruncate, TypeOK
<1>3. CASE format_container(c)
  <2>1. CASE File(c) = NoFile
    BY <1>3, <2>1, ReturnTyped DEF format_container, TypeOK, files
  <2>2. CASE File(c) # NoFile
    <3>1. File(c) \in Inode
      BY <2>2, FileTyped
    <3>2. formats + 1 \in Key /\ formats + 1 # NoKey
      BY <1>3 DEF format_container, TypeOK, Key, NoKey
    <3> DEFINE stage == IF call[c].cred THEN "seed" ELSE "store"
    <3>a. stage \in {"seed", "store"}
      OBVIOUS
    <3> HIDE DEF stage
    <3>b. [call[c] EXCEPT !.key = formats + 1, !.cred = FALSE, !.pc = stage] \in CallRecord
      BY <1>0, <3>2, <3>a DEF CallRecord
    <3>3. call' \in [Call -> CallRecord]
      <4>1. call' = [call EXCEPT ![c] = [call[c] EXCEPT !.key = formats + 1, !.cred = FALSE,
                                                        !.pc = stage]]
        BY <1>3, <2>2 DEF format_container, stage, TypeOK
      <4> QED
        BY <3>b, <4>1 DEF TypeOK
    <3> QED
      BY <1>3, <2>2, <3>1, <3>2, <3>3 DEF format_container, TypeOK
  <2> QED
    BY <2>1, <2>2
<1>4. CASE add_by_key(c)
  <2>1. call' \in [Call -> CallRecord]
    BY <1>4, GoTyped DEF add_by_key
  <2>2. call[c].key # NoKey
    BY <1>0, <1>4 DEF add_by_key, Staged
  <2> QED
    BY <1>4, <2>1, <2>2 DEF add_by_key, TypeOK
<1>5. CASE cache_volume_key(c)
  <2>1. call' \in [Call -> CallRecord]
    BY <1>5, GoTyped DEF cache_volume_key
  <2>2. realpath(c) \in Path \cup {NoFile} /\ call[c].key \in Key
    BY <1>0, FileTyped DEF CallRecord
  <2> QED
    BY <1>5, <2>1, <2>2 DEF cache_volume_key, TypeOK, files
<1>6. CASE Finish(c)
  BY <1>6, ReturnTyped DEF Finish, TypeOK, files
<1> QED
  BY <1>1, <1>2, <1>3, <1>4, <1>5, <1>6 DEF CreateStep

\* A name that comes into use, or that goes, keeps every call's type.
LEMMA RenewedTyped ==
    ASSUME NEW calls \in [Call -> CallRecord], NEW n \in Name
    PROVE  /\ Renewed(n, calls) \in [Call -> CallRecord]
           /\ Lost(n, calls) \in [Call -> CallRecord]
<1>1. ASSUME NEW c \in Call
      PROVE  [calls[c] EXCEPT !.fresh = IF calls[c].op = "closefd" /\ n \in calls[c].todo
                                        THEN @ \cup {n} ELSE @] \in CallRecord
  <2>1. calls[c] \in CallRecord
    OBVIOUS
  <2> DEFINE f == IF calls[c].op = "closefd" /\ n \in calls[c].todo
                  THEN calls[c].fresh \cup {n} ELSE calls[c].fresh
  <2>2. f \in SUBSET Name
    BY <2>1 DEF CallRecord
  <2> HIDE DEF f
  <2>3. [calls[c] EXCEPT !.fresh = f] \in CallRecord
    BY <2>1, <2>2 DEF CallRecord
  <2> QED
    BY <2>3 DEF f
<1>2. ASSUME NEW c \in Call
      PROVE  [calls[c] EXCEPT !.was = @ \ {n}] \in CallRecord
  <2>1. calls[c] \in CallRecord
    OBVIOUS
  <2> DEFINE w == calls[c].was \ {n}
  <2>2. w \in SUBSET Name
    BY <2>1 DEF CallRecord
  <2> HIDE DEF w
  <2>3. [calls[c] EXCEPT !.was = w] \in CallRecord
    BY <2>1, <2>2 DEF CallRecord
  <2> QED
    BY <2>3 DEF w
<1> QED
  BY <1>1, <1>2 DEF Renewed, Lost

LEMMA OpenTyped ==
    ASSUME TypeOK, Stages, NEW c \in Call, OpenStep(c)
    PROVE  TypeOK'
<1>0. call[c] \in CallRecord /\ Staged(call[c])
  BY DEF TypeOK, Stages
<1>1. CASE get_volume_key(c)
  <2>1. realpath(c) \in Path \cup {NoFile} /\ (File(c) \in keyed => File(c) \in Inode)
    BY FileTyped DEF TypeOK
  <2>2. PICK k \in Key, stage \in {"activate", "fill"} :
           call' = [call EXCEPT ![c].pc = stage, ![c].key = k]
    BY <1>1, <2>1 DEF get_volume_key, TypeOK
  <2>3. [call[c] EXCEPT !.pc = stage, !.key = k] \in CallRecord
    BY <1>0 DEF CallRecord
  <2>4. call' = [call EXCEPT ![c] = [call[c] EXCEPT !.pc = stage, !.key = k]]
    BY <2>2 DEF TypeOK
  <2>5. call' \in [Call -> CallRecord]
    BY <2>3, <2>4 DEF TypeOK
  <2> QED
    BY <1>1, <2>5 DEF get_volume_key, TypeOK, files
<1>2. CASE activate_by_volume_key(c)
  <2>1. call[c].name \in Name /\ File(c) \in Inode
    BY <1>0, <1>2, StageTells, FileTyped DEF activate_by_volume_key
  <2>2. [call EXCEPT ![c] = Idle] \in [Call -> CallRecord]
    BY IdleTyped DEF TypeOK
  <2>3. call' \in [Call -> CallRecord]
    BY <1>2, <2>1, <2>2, RenewedTyped DEF activate_by_volume_key
  <2>4. [kind |-> "luks", file |-> File(c), whole |-> TRUE, mounted |-> FALSE] \in Mapping
    BY <2>1 DEF Mapping
  <2>5. mapped' \in [Name -> Mapping \cup {NoMap}]
    BY <1>2, <2>1, <2>4 DEF activate_by_volume_key, Map, TypeOK
  <2> QED
    BY <1>2, <2>3, <2>5 DEF activate_by_volume_key, TypeOK, files
<1> QED
  BY <1>1, <1>2 DEF OpenStep

LEMMA ClosedTyped ==
    ASSUME TypeOK, NEW c \in Call, NEW n \in Name
    PROVE  Closed(c, n, call) \in [Call -> CallRecord]
<1>1. [call[c] EXCEPT !.pc = "close", !.todo = @ \ {n}] \in CallRecord
  <2>1. call[c] \in CallRecord
    BY DEF TypeOK
  <2> DEFINE w == call[c].todo \ {n}
  <2>2. w \in SUBSET Name
    BY <2>1 DEF CallRecord
  <2> HIDE DEF w
  <2>3. [call[c] EXCEPT !.pc = "close", !.todo = w] \in CallRecord
    BY <2>1, <2>2 DEF CallRecord
  <2> QED
    BY <2>3 DEF w
<1>2. Closed(c, n, call) = [call EXCEPT ![c] = [call[c] EXCEPT !.pc = "close", !.todo = @ \ {n}]]
  BY DEF Closed, TypeOK
<1> QED
  BY <1>1, <1>2 DEF TypeOK

LEMMA PassedOverTyped ==
    ASSUME TypeOK, NEW c \in Call, NEW n \in Name
    PROVE  PassedOver(c, n) \in [Call -> CallRecord]
<1> DEFINE q == Closed(c, n, call)[c]
           u == IF InUse(n) THEN q.unseen \cup {n} ELSE q.unseen
<1>1. q \in CallRecord /\ Closed(c, n, call) \in [Call -> CallRecord]
  BY ClosedTyped
<1> HIDE DEF q
<1>2. u \in SUBSET Name
  BY <1>1 DEF CallRecord
<1> HIDE DEF u
<1>3. [q EXCEPT !.unseen = u] \in CallRecord
  BY <1>1, <1>2 DEF CallRecord
<1>4. PassedOver(c, n) = [Closed(c, n, call) EXCEPT ![c] = [q EXCEPT !.unseen = u]]
  BY <1>1 DEF PassedOver, u, q
<1> QED
  BY <1>1, <1>3, <1>4

LEMMA CloseTyped ==
    ASSUME TypeOK, NEW c \in Call, CloseStep(c)
    PROVE  TypeOK'
<1>1. CASE deactivate_volume(c)
  <2>1. call' \in [Call -> CallRecord]
    BY <1>1, ReturnTyped, GoTyped, PassedOverTyped DEF deactivate_volume
  <2> QED
    BY <1>1, <2>1 DEF deactivate_volume, TypeOK, files
<1>2. CASE mapping_is_mounted(c)
  <2>1. call' \in [Call -> CallRecord]
    BY <1>2, ReturnTyped, GoTyped DEF mapping_is_mounted
  <2> QED
    BY <1>2, <2>1 DEF mapping_is_mounted, TypeOK, files
<1>3. CASE Deactivate(c)
  <2>1. PICK n \in Name : \/ Return(c) /\ UNCHANGED mapped
                          \/ Unmap(n) /\ call' = Lost(n, Closed(c, n, call))
    BY <1>3 DEF Deactivate
  <2>2. call' \in [Call -> CallRecord]
    BY <2>1, ReturnTyped, ClosedTyped, RenewedTyped
  <2>3. mapped' \in [Name -> Mapping \cup {NoMap}]
    BY <2>1 DEF Unmap, TypeOK
  <2> QED
    BY <1>3, <2>2, <2>3 DEF Deactivate, TypeOK, files
<1> QED
  BY <1>1, <1>2, <1>3 DEF CloseStep

\* What the surroundings do; p is a path, m what another tool maps, n a name.
Surroundings ==
    \/ \E p \in Path : ClientCreates(p) \/ MoveOnto(p) \/ Unlink(p)
    \/ \E p \in DOMAIN cache : Expire(p)
    \/ \E m \in Outside : MapElsewhere(m)
    \/ \E n \in Name : Mount(n)

LEMMA MountTyped ==
    ASSUME TypeOK, NEW n \in Name, Mount(n)
    PROVE  /\ mapped' \in [Name -> Mapping \cup {NoMap}]
           /\ \A m \in Name : /\ mapped'[m].file = mapped[m].file
                              /\ mapped'[m].kind = mapped[m].kind
                              /\ mapped'[m] = NoMap <=> mapped[m] = NoMap
<1>1. mapped[n] \in Mapping
  BY DEF Mount, InUse, TypeOK
<1>2. (~mapped[n].mounted) \in BOOLEAN
  BY Zenon
<1>3. [mapped[n] EXCEPT !.mounted = ~@] \in Mapping
  BY <1>1, <1>2 DEF Mapping
<1>4. mapped' = [mapped EXCEPT ![n] = [mapped[n] EXCEPT !.mounted = ~@]]
  BY DEF Mount, TypeOK
<1> QED
  BY <1>1, <1>3, <1>4, NoMapOutside DEF TypeOK, Mapping, NoMap

\* A file that is moved onto a path is noted by the create calls on that path.
LEMMA ArrivedTyped ==
    ASSUME NEW calls \in [Call -> CallRecord], NEW p \in Path, NEW i \in Inode
    PROVE  Arrived(p, i, calls) \in [Call -> CallRecord]
<1> SUFFICES ASSUME NEW c \in Call
             PROVE  Arrived(p, i, calls)[c] \in CallRecord
  BY DEF Arrived
<1>1. calls[c] \in CallRecord
  OBVIOUS
<1> DEFINE a == IF calls[c].target = p /\ calls[c].pc \in {"make", "format"}
                THEN calls[c].arrived \cup {i} ELSE calls[c].arrived
<1>2. a \in SUBSET Inode
  BY <1>1 DEF CallRecord
<1>3. Arrived(p, i, calls)[c] = [calls[c] EXCEPT !.arrived = a]
  BY DEF Arrived
<1> HIDE DEF a
<1> QED
  BY <1>1, <1>2, <1>3 DEF CallRecord

LEMMA SurroundingsTyped ==
    ASSUME TypeOK, Surroundings
    PROVE  TypeOK'
<1>1. ASSUME NEW p \in Path, ClientCreates(p)
      PROVE  TypeOK'
  BY <1>1 DEF ClientCreates, TypeOK
<1>2. ASSUME NEW p \in Path, Unlink(p)
      PROVE  TypeOK'
  BY <1>2, SpoilTyped DEF Unlink, TypeOK
<1>3. ASSUME NEW p \in DOMAIN cache, Expire(p)
      PROVE  TypeOK'
  <2>1. NoKey \in Key
    BY ContainersConstants DEF NoKey, Key
  <2> QED
    BY <1>3, <2>1, SpoilTyped DEF Expire, TypeOK, files
<1>4. ASSUME NEW m \in Outside, MapElsewhere(m)
      PROVE  TypeOK'
  <2>1. m.name \in Name /\ m.kind \in {"luks", "other"} /\ m.whole \in BOOLEAN
    BY ContainersConstants
  <2>2. PICK i \in Inode :
           Map(m.name, [kind |-> m.kind, file |-> i, whole |-> m.whole, mounted |-> FALSE])
    BY <1>4 DEF MapElsewhere
  <2>3. [kind |-> m.kind, file |-> i, whole |-> m.whole, mounted |-> FALSE] \in Mapping
    BY <2>1 DEF Mapping
  <2>4. mapped' \in [Name -> Mapping \cup {NoMap}]
    BY <2>1, <2>2, <2>3 DEF Map, TypeOK
  <2>5. call' \in [Call -> CallRecord]
    BY <1>4, <2>1, RenewedTyped DEF MapElsewhere, TypeOK
  <2> QED
    BY <1>4, <2>4, <2>5 DEF MapElsewhere, TypeOK, files
<1>5. ASSUME NEW n \in Name, Mount(n)
      PROVE  TypeOK'
  BY <1>5, MountTyped DEF Mount, TypeOK, files
<1>6. ASSUME NEW p \in Path, MoveOnto(p)
      PROVE  TypeOK'
  <2>1. PICK i \in Inode : at' = [at EXCEPT ![p] = i] /\ call' = Arrived(p, i, Spoil)
    BY <1>6 DEF MoveOnto
  <2>2. call' \in [Call -> CallRecord]
    BY <2>1, SpoilTyped, ArrivedTyped
  <2> QED
    BY <1>6, <2>1, <2>2 DEF MoveOnto, TypeOK
<1> QED
  BY <1>1, <1>2, <1>3, <1>4, <1>5, <1>6 DEF Surroundings

LEMMA TypedStep ==
    ASSUME TypeOK, Stages, [Next]_vars
    PROVE  TypeOK'
<1>1. CASE \E c \in Call : Request(c) \/ ServiceStep(c)
  <2>1. PICK c \in Call : Request(c) \/ ServiceStep(c)
    BY <1>1
  <2>2. CASE StepFails(c)
    BY <2>2, ReturnTyped DEF StepFails, TypeOK, files
  <2> QED
    BY <2>1, <2>2, RequestTyped, CreateTyped, OpenTyped, CloseTyped DEF ServiceStep
<1>2. CASE Surroundings
  BY <1>2, SurroundingsTyped
<1>3. CASE UNCHANGED vars
  BY <1>3 DEF vars, files, TypeOK
<1> QED
  BY <1>1, <1>2, <1>3 DEF Next, Surroundings

-----------------------------------------------------------------------------
(* What a step does to the calls *)

\* Two records of a call that differ at most in the notes kept about it; q, the later one,
\* has forgotten no file that came onto the path.
Alike(q, r) ==
    /\ q.op = r.op /\ q.pc = r.pc /\ q.target = r.target /\ q.name = r.name
    /\ q.key = r.key /\ q.todo = r.todo /\ q.since = r.since /\ q.unseen = r.unseen
    /\ r.arrived \subseteq q.arrived

\* A request finds its call idle and touches nothing else but the notes of the create
\* calls in flight, which it has crossed.
LEMMA BeginEffect ==
    ASSUME TypeOK, NEW c \in Call, NEW r \in CallRecord, Begin(c, r)
    PROVE  /\ call[c].pc = "idle" /\ Alike(call'[c], r)
           /\ call'[c].was = r.was /\ call'[c].fresh = r.fresh
           /\ r.op \in Creating => (call'[c].spoilt <=> InFlight # {})
           /\ \A d \in Call \ {c} :
                 /\ Alike(call'[d], call[d])
                 /\ call'[d].was = call[d].was /\ call'[d].fresh = call[d].fresh
                 /\ call[d].op \in Creating => call'[d].spoilt
           /\ UNCHANGED <<at, size, header, keyed, formats, cache, mapped>>
<1> DEFINE b == r.op \in Creating /\ InFlight # {}
           q == [r EXCEPT !.spoilt = b]
<1>1. call' = [Spoil EXCEPT ![c] = q]
  BY DEF Begin
<1>2. call'[c] = q
  BY <1>1 DEF Spoil
<1>3. Alike(q, r) /\ q.was = r.was /\ q.fresh = r.fresh /\ (q.spoilt <=> b)
  BY DEF CallRecord, Alike
<1>4. ASSUME NEW d \in Call \ {c}
      PROVE  call'[d] = [call[d] EXCEPT !.spoilt = @ \/ call[d].op \in Creating]
  BY <1>1 DEF Spoil
<1>5. ASSUME NEW d \in Call \ {c}
      PROVE  /\ Alike(call'[d], call[d])
             /\ call'[d].was = call[d].was /\ call'[d].fresh = call[d].fresh
             /\ call[d].op \in Creating => call'[d].spoilt
  <2>1. call[d] \in CallRecord
    BY DEF TypeOK
  <2> QED
    BY <1>4, <2>1 DEF CallRecord, Alike
<1> QED
  BY <1>2, <1>3, <1>5 DEF Begin, files

\* What the surroundings do leaves every call at its stage; a deletion and an expiry mark
\* the create calls they cross.
LEMMA SpoilEffect ==
    ASSUME TypeOK, call' = Spoil
    PROVE  \A d \in Call :
              /\ Alike(call'[d], call[d])
              /\ call'[d].was = call[d].was /\ call'[d].fresh = call[d].fresh
              /\ call[d].op \in Creating => call'[d].spoilt
<1> SUFFICES ASSUME NEW d \in Call
             PROVE  /\ Alike(call'[d], call[d])
                    /\ call'[d].was = call[d].was /\ call'[d].fresh = call[d].fresh
                    /\ call[d].op \in Creating => call'[d].spoilt
  OBVIOUS
<1>1. call[d] \in CallRecord
  BY DEF TypeOK
<1>2. call'[d] = [call[d] EXCEPT !.spoilt = @ \/ call[d].op \in Creating]
  BY DEF Spoil
<1> QED
  BY <1>1, <1>2 DEF CallRecord, Alike

LEMMA ArrivedEffect ==
    ASSUME TypeOK, NEW p \in Path, NEW i \in Inode, call' = Arrived(p, i, Spoil), NEW d \in Call
    PROVE  /\ Alike(call'[d], call[d])
           /\ call'[d].was = call[d].was /\ call'[d].fresh = call[d].fresh
           /\ call[d].op \in Creating => call'[d].spoilt
           /\ call[d].target = p /\ call[d].pc \in {"make", "format"} => i \in call'[d].arrived
<1> DEFINE q == Spoil[d]
           a == IF q.target = p /\ q.pc \in {"make", "format"}
                THEN q.arrived \cup {i} ELSE q.arrived
<1>0. call[d] \in CallRecord /\ q \in CallRecord
  BY SpoilTyped DEF TypeOK
<1>1. q = [call[d] EXCEPT !.spoilt = @ \/ call[d].op \in Creating]
  BY DEF Spoil
<1>2. /\ Alike(q, call[d]) /\ q.was = call[d].was /\ q.fresh = call[d].fresh
      /\ call[d].op \in Creating => q.spoilt
  BY <1>0, <1>1 DEF CallRecord, Alike
<1> HIDE DEF q
<1>3. /\ q.arrived \subseteq a
      /\ q.target = p /\ q.pc \in {"make", "format"} => i \in a
  OBVIOUS
<1>4. call'[d] = [q EXCEPT !.arrived = a]
  BY DEF Arrived, q
<1> HIDE DEF a
<1>5. /\ Alike(call'[d], q) /\ call'[d].was = q.was /\ call'[d].fresh = q.fresh
      /\ call'[d].spoilt = q.spoilt /\ call'[d].arrived = a
  BY <1>0, <1>3, <1>4 DEF CallRecord, Alike
<1> QED
  BY <1>2, <1>3, <1>5 DEF Alike

\* A name that comes into use is noted by the CloseVolumeFd calls that list it, one that
\* goes by those that came for it.
LEMMA NotesOnly ==
    ASSUME NEW calls \in [Call -> CallRecord], NEW n \in Name, NEW d \in Call
    PROVE  /\ Alike(Renewed(n, calls)[d], calls[d])
           /\ Renewed(n, calls)[d].was = calls[d].was
           /\ Renewed(n, calls)[d].spoilt = calls[d].spoilt
           /\ calls[d].fresh \subseteq Renewed(n, calls)[d].fresh
           /\ calls[d].op = "closefd" /\ n \in calls[d].todo => n \in Renewed(n, calls)[d].fresh
           /\ Alike(Lost(n, calls)[d], calls[d])
           /\ Lost(n, calls)[d].was = calls[d].was \ {n}
           /\ Lost(n, calls)[d].fresh = calls[d].fresh
           /\ Lost(n, calls)[d].spoilt = calls[d].spoilt
<1>1. calls[d] \in CallRecord
  OBVIOUS
<1> DEFINE f == IF calls[d].op = "closefd" /\ n \in calls[d].todo
                THEN calls[d].fresh \cup {n} ELSE calls[d].fresh
<1>2. Renewed(n, calls)[d] = [calls[d] EXCEPT !.fresh = f]
  BY DEF Renewed
<1>3. Lost(n, calls)[d] = [calls[d] EXCEPT !.was = @ \ {n}]
  BY DEF Lost
<1>4. calls[d].fresh \subseteq f /\ (calls[d].op = "closefd" /\ n \in calls[d].todo => n \in f)
  OBVIOUS
<1> HIDE DEF f
<1> QED
  BY <1>1, <1>2, <1>3, <1>4 DEF CallRecord, Alike

\* A call that is served moves on with what it was given, or ends; nobody else moves.
Served(c) ==
    /\ call[c].pc # "idle"
    /\ \/ call'[c].op = "none" /\ call'[c].pc = "idle" /\ call'[c].since = 0
       \/ /\ call'[c].op = call[c].op /\ call'[c].pc # "idle"
          /\ call'[c].target = call[c].target /\ call'[c].name = call[c].name
          /\ call'[c].since = call[c].since /\ call'[c].spoilt = call[c].spoilt
          /\ call[c].arrived \subseteq call'[c].arrived
    /\ \A d \in Call \ {c} : Alike(call'[d], call[d]) /\ call'[d].spoilt = call[d].spoilt

LEMMA GoServes ==
    ASSUME TypeOK, NEW c \in Call, call[c].pc # "idle",
           NEW stage \in {"make", "size", "format", "seed", "store", "finish", "getkey",
                          "fill", "activate", "close", "mounts", "deactivate"},
           Return(c) \/ Go(c, stage)
    PROVE  Served(c)
<1>1. call[c] \in CallRecord
  BY DEF TypeOK
<1>2. CASE Return(c)
  BY <1>2 DEF Return, Served, Alike, Idle, TypeOK
<1>3. CASE Go(c, stage)
  <2>1. call'[c] = [call[c] EXCEPT !.pc = stage]
    BY <1>3 DEF Go, TypeOK
  <2>2. \A d \in Call \ {c} : call'[d] = call[d]
    BY <1>3 DEF Go, TypeOK
  <2> QED
    BY <1>1, <2>1, <2>2 DEF Served, Alike, CallRecord
<1> QED
  BY <1>2, <1>3

LEMMA StagedAlike ==
    ASSUME NEW q, NEW r, Alike(q, r), Staged(r)
    PROVE  Staged(q)
BY DEF Alike, Staged

LEMMA ReturnStages ==
    ASSUME TypeOK, NEW c \in Call, Return(c)
    PROVE  Staged(call'[c])
<1>1. call'[c].op = "none" /\ call'[c].pc = "idle"
  BY DEF Return, Idle, TypeOK
<1> QED
  BY <1>1 DEF Staged

LEMMA GoStages ==
    ASSUME TypeOK, NEW c \in Call, NEW stage, Go(c, stage)
    PROVE  /\ call'[c].op = call[c].op /\ call'[c].pc = stage /\ call'[c].key = call[c].key
           /\ call'[c].target = call[c].target /\ call'[c].name = call[c].name
BY DEF Go, TypeOK, CallRecord

LEMMA CreateServes ==
    ASSUME TypeOK, Stages, NEW c \in Call, CreateStep(c)
    PROVE  Served(c) /\ Staged(call'[c])
<1>0. call[c] \in CallRecord /\ Staged(call[c])
  BY DEF TypeOK, Stages
<1>1. CASE create_image_file(c)
  BY <1>0, <1>1, GoServes, GoStages, StageTells DEF create_image_file, Staged
<1>2. CASE Ftruncate(c)
  BY <1>0, <1>2, GoServes, GoStages, StageTells DEF Ftruncate, Staged
<1>3. CASE format_container(c)
  <2>0. call[c].op \in Creating /\ call[c].pc # "idle"
    BY <1>0, <1>3, StageTells DEF format_container
  <2>1. CASE File(c) = NoFile
    BY <1>3, <2>0, <2>1, GoServes, ReturnStages DEF format_container
  <2>2. CASE File(c) # NoFile
    <3> DEFINE stage == IF call[c].cred THEN "seed" ELSE "store"
               r == [call[c] EXCEPT !.key = formats + 1, !.cred = FALSE, !.pc = stage]
    <3>1. stage \in {"seed", "store"}
      OBVIOUS
    <3>2. formats + 1 # NoKey
      BY <1>3 DEF TypeOK, Key, NoKey
    <3>3. call' = [call EXCEPT ![c] = r]
      BY <1>3, <2>2 DEF format_container, TypeOK
    <3> HIDE DEF stage
    <3>4. /\ r.op = call[c].op /\ r.target = call[c].target /\ r.name = call[c].name
          /\ r.key = formats + 1 /\ r.pc = stage /\ r.since = call[c].since
          /\ r.spoilt = call[c].spoilt /\ r.arrived = call[c].arrived
      BY <1>0 DEF CallRecord
    <3>5. call'[c] = r /\ \A d \in Call \ {c} : call'[d] = call[d]
      BY <3>3 DEF TypeOK
    <3> HIDE DEF r
    <3>6. Served(c)
      BY <2>0, <3>1, <3>4, <3>5 DEF Served, Alike
    <3>7. Staged(r)
      BY <1>0, <2>0, <3>1, <3>2, <3>4 DEF Staged, Creating
    <3> QED
      BY <3>5, <3>6, <3>7
  <2> QED
    BY <2>1, <2>2
<1>4. CASE add_by_key(c)
  BY <1>0, <1>4, GoServes, GoStages, StageTells DEF add_by_key, Staged, Creating
<1>5. CASE cache_volume_key(c)
  <2>1. CASE call[c].pc = "store"
    <3>1. Go(c, "finish")
      BY <1>5, <2>1 DEF cache_volume_key
    <3> QED
      BY <1>0, <2>1, <3>1, GoServes, GoStages, StageTells DEF Staged, Creating
  <2>2. CASE call[c].pc = "fill"
    <3>1. Go(c, "activate")
      BY <1>5, <2>2 DEF cache_volume_key
    <3> QED
      BY <1>0, <2>2, <3>1, GoServes, GoStages, StageTells DEF Staged
  <2> QED
    BY <1>5, <2>1, <2>2 DEF cache_volume_key
<1>6. CASE Finish(c)
  BY <1>6, GoServes, ReturnStages DEF Finish
<1> QED
  BY <1>1, <1>2, <1>3, <1>4, <1>5, <1>6 DEF CreateStep

LEMMA OpenServes ==
    ASSUME TypeOK, Stages, NEW c \in Call, OpenStep(c)
    PROVE  Served(c) /\ Staged(call'[c])
<1>0. call[c] \in CallRecord /\ Staged(call[c])
  BY DEF TypeOK, Stages
<1>1. CASE get_volume_key(c)
  <2>0. realpath(c) \in Path \cup {NoFile} /\ (File(c) \in keyed => File(c) \in Inode)
    BY FileTyped DEF TypeOK
  <2>1. PICK k \in Key, stage \in {"activate", "fill"} :
           call' = [call EXCEPT ![c].pc = stage, ![c].key = k]
    BY <1>1, <2>0 DEF get_volume_key, TypeOK
  <2>a. call'[c] = [call[c] EXCEPT !.pc = stage, !.key = k]
    BY <2>1 DEF TypeOK
  <2>2. /\ call'[c].op = call[c].op /\ call'[c].target = call[c].target
        /\ call'[c].name = call[c].name /\ call'[c].pc = stage
        /\ call'[c].since = call[c].since /\ call'[c].spoilt = call[c].spoilt
        /\ call'[c].arrived = call[c].arrived
        /\ \A d \in Call \ {c} : call'[d] = call[d]
    BY <1>0, <2>1, <2>a DEF TypeOK, CallRecord
  <2>3. call[c].op = "open" /\ call[c].pc = "getkey"
    BY <1>0, <1>1, StageTells DEF get_volume_key
  <2> QED
    BY <1>0, <2>2, <2>3 DEF Served, Alike, Staged
<1>2. CASE activate_by_volume_key(c)
  <2> DEFINE calls == [call EXCEPT ![c] = Idle]
  <2>1. calls \in [Call -> CallRecord]
    BY IdleTyped DEF TypeOK
  <2>2. calls[c] = Idle /\ \A d \in Call \ {c} : calls[d] = call[d]
    BY DEF TypeOK
  <2>3. call' = Renewed(call[c].name, calls) /\ call[c].name \in Name /\ call[c].pc # "idle"
    BY <1>0, <1>2, StageTells DEF activate_by_volume_key
  <2> HIDE DEF calls
  <2>4. \A d \in Call : Alike(call'[d], calls[d]) /\ call'[d].spoilt = calls[d].spoilt
    BY <2>1, <2>3, NotesOnly
  <2>5. call'[c].op = "none" /\ call'[c].pc = "idle" /\ call'[c].since = 0
    <3>1. Idle.op = "none" /\ Idle.pc = "idle" /\ Idle.since = 0
      BY DEF Idle
    <3> QED
      BY <2>2, <2>4, <3>1 DEF Alike
  <2> QED
    BY <2>2, <2>3, <2>4, <2>5 DEF Served, Staged
<1> QED
  BY <1>1, <1>2 DEF OpenStep

\* The name at hand is struck from the list of the call.
LEMMA ClosedEffect ==
    ASSUME TypeOK, NEW c \in Call, NEW n \in Name
    PROVE  /\ LET q == Closed(c, n, call)[c] IN
              /\ q.op = call[c].op /\ q.pc = "close" /\ q.target = call[c].target
              /\ q.name = call[c].name /\ q.key = call[c].key /\ q.since = call[c].since
              /\ q.spoilt = call[c].spoilt /\ q.todo = call[c].todo \ {n}
              /\ q.was = call[c].was /\ q.fresh = call[c].fresh
              /\ q.unseen = call[c].unseen /\ q.arrived = call[c].arrived
           /\ \A d \in Call \ {c} : Closed(c, n, call)[d] = call[d]
<1>1. call[c] \in CallRecord /\ call \in [Call -> CallRecord]
  BY DEF TypeOK
<1>2. Closed(c, n, call)[c] = [call[c] EXCEPT !.pc = "close", !.todo = @ \ {n}]
  BY <1>1 DEF Closed
<1> QED
  BY <1>1, <1>2 DEF Closed, CallRecord

\* The same for a name whose query shows no mapping; one that is mapped is noted.
LEMMA PassedOverEffect ==
    ASSUME TypeOK, NEW c \in Call, NEW n \in Name
    PROVE  /\ LET q == PassedOver(c, n)[c] IN
              /\ q.op = call[c].op /\ q.pc = "close" /\ q.target = call[c].target
              /\ q.name = call[c].name /\ q.key = call[c].key /\ q.since = call[c].since
              /\ q.spoilt = call[c].spoilt /\ q.todo = call[c].todo \ {n}
              /\ q.was = call[c].was /\ q.fresh = call[c].fresh
              /\ q.arrived = call[c].arrived /\ call[c].unseen \subseteq q.unseen
              /\ InUse(n) => n \in q.unseen
           /\ \A d \in Call \ {c} : PassedOver(c, n)[d] = call[d]
<1> DEFINE q == Closed(c, n, call)[c]
           u == IF InUse(n) THEN q.unseen \cup {n} ELSE q.unseen
<1>1. q \in CallRecord /\ Closed(c, n, call) \in [Call -> CallRecord]
  BY ClosedTyped
<1>2. PassedOver(c, n)[c] = [q EXCEPT !.unseen = u]
  BY <1>1 DEF PassedOver
<1>3. q.unseen \subseteq u /\ (InUse(n) => n \in u)
  OBVIOUS
<1>4. \A d \in Call \ {c} : PassedOver(c, n)[d] = Closed(c, n, call)[d]
  BY <1>1 DEF PassedOver
<1> DEFINE r == PassedOver(c, n)[c]
<1> HIDE DEF q, u
<1>5. /\ r.op = q.op /\ r.pc = q.pc /\ r.target = q.target /\ r.name = q.name
      /\ r.key = q.key /\ r.since = q.since /\ r.spoilt = q.spoilt /\ r.todo = q.todo
      /\ r.was = q.was /\ r.fresh = q.fresh /\ r.arrived = q.arrived /\ r.unseen = u
  BY <1>1, <1>2 DEF CallRecord
<1> HIDE DEF r
<1> QED
  BY <1>3, <1>4, <1>5, ClosedEffect DEF q, r

LEMMA CloseServes ==
    ASSUME TypeOK, Stages, NEW c \in Call, CloseStep(c)
    PROVE  Served(c) /\ Staged(call'[c])
<1>0. call[c] \in CallRecord /\ Staged(call[c])
  BY DEF TypeOK, Stages
<1>1. call[c].op \in {"close", "closefd"} /\ call[c].pc \in {"close", "mounts", "deactivate"}
  BY <1>0, StageTells DEF CloseStep, deactivate_volume, mapping_is_mounted, Deactivate
<1>2. CASE Return(c)
  BY <1>1, <1>2, GoServes, ReturnStages
<1>3. ASSUME NEW stage \in {"mounts", "deactivate"}, Go(c, stage)
      PROVE  Served(c) /\ Staged(call'[c])
  BY <1>0, <1>1, <1>3, GoServes, GoStages DEF Staged
<1>4. ASSUME NEW n \in Name, call' = PassedOver(c, n)
      PROVE  Served(c) /\ Staged(call'[c])
  BY <1>0, <1>1, <1>4, PassedOverEffect DEF Served, Alike, Staged
<1>5. ASSUME NEW n \in Name, call' = Lost(n, Closed(c, n, call))
      PROVE  Served(c) /\ Staged(call'[c])
  <2>1. \A d \in Call : /\ Alike(call'[d], Closed(c, n, call)[d])
                        /\ call'[d].spoilt = Closed(c, n, call)[d].spoilt
    BY <1>5, ClosedTyped, NotesOnly
  <2> QED
    BY <1>0, <1>1, <2>1, ClosedEffect DEF Served, Alike, Staged
<1>6. CASE deactivate_volume(c)
  BY <1>2, <1>3, <1>4, <1>6 DEF deactivate_volume
<1>7. CASE mapping_is_mounted(c)
  BY <1>2, <1>3, <1>7 DEF mapping_is_mounted
<1>8. CASE Deactivate(c)
  BY <1>2, <1>5, <1>8 DEF Deactivate
<1> QED
  BY <1>6, <1>7, <1>8 DEF CloseStep

LEMMA ServiceServes ==
    ASSUME TypeOK, Stages, NEW c \in Call, ServiceStep(c)
    PROVE  Served(c) /\ Staged(call'[c])
<1>1. CASE StepFails(c)
  BY <1>1, GoServes, ReturnStages DEF StepFails
<1> QED
  BY <1>1, CreateServes, OpenServes, CloseServes DEF ServiceStep

\* What the service has made sure of when it takes on a call.
Checked(r) ==
    /\ r.op # "none" /\ r.pc # "idle" /\ Staged(r)
    /\ r.op = "create" => r.pc = "make" /\ at[r.target] = NoFile
    /\ r.op = "createfd" => r.pc = "size" /\ size[r.target] = "empty"
    /\ r.since <= formats
    /\ r.op = "closefd" =>
          /\ \A n \in r.todo : mapped[n].file = r.target /\ mapped[n].kind = "luks"
          /\ r.was \subseteq r.todo \cup r.unseen /\ \A n \in r.was : mapped[n].kind = "luks"

LEMMA RequestChecks ==
    ASSUME TypeOK, NEW c \in Call, Request(c)
    PROVE  \E r \in CallRecord : Begin(c, r) /\ Checked(r)
<1> USE ContainersConstants
<1>0. formats \in Nat /\ 0 <= formats
  BY DEF TypeOK, Key
<1>1. CASE CreateEncryptedImage(c)
  <2> DEFINE R(p, pass) == [Idle EXCEPT !.op = "create", !.pc = "make", !.target = p,
                                        !.cred = pass, !.since = formats]
  <2>1. PICK p \in Path, mb \in Sizes, pass \in BOOLEAN : at[p] = NoFile /\ Begin(c, R(p, pass))
    BY <1>1 DEF CreateEncryptedImage
  <2>2. R(p, pass) \in CallRecord
    BY IdleTyped DEF CallRecord, TypeOK
  <2>3. /\ R(p, pass).op = "create" /\ R(p, pass).pc = "make" /\ R(p, pass).target = p
        /\ R(p, pass).since = formats
    BY DEF Idle
  <2> HIDE DEF R
  <2>4. Checked(R(p, pass))
    BY <1>0, <2>1, <2>3 DEF Checked, Staged
  <2> QED
    BY <2>1, <2>2, <2>4
<1>2. CASE CreateEncryptedImageFd(c)
  <2> DEFINE R(i, pass) == [Idle EXCEPT !.op = "createfd", !.pc = "size", !.target = i,
                                        !.cred = pass, !.since = formats]
  <2>1. PICK i \in Inode, mb \in Sizes, pass \in BOOLEAN :
           size[i] = "empty" /\ Begin(c, R(i, pass))
    BY <1>2 DEF CreateEncryptedImageFd
  <2>2. R(i, pass) \in CallRecord
    BY IdleTyped DEF CallRecord, TypeOK
  <2>3. /\ R(i, pass).op = "createfd" /\ R(i, pass).pc = "size" /\ R(i, pass).target = i
        /\ R(i, pass).since = formats
    BY DEF Idle
  <2> HIDE DEF R
  <2>4. Checked(R(i, pass))
    BY <1>0, <2>1, <2>3 DEF Checked, Staged
  <2> QED
    BY <2>1, <2>2, <2>4
<1>3. CASE OpenVolumeFd(c)
  <2> DEFINE R(i, n) == [Idle EXCEPT !.op = "open", !.pc = "getkey", !.target = i, !.name = n]
  <2>1. PICK i \in Inode, n \in Name : Begin(c, R(i, n))
    BY <1>3 DEF OpenVolumeFd
  <2>2. R(i, n) \in CallRecord
    BY IdleTyped DEF CallRecord
  <2>3. /\ R(i, n).op = "open" /\ R(i, n).pc = "getkey" /\ R(i, n).target = i
        /\ R(i, n).name = n /\ R(i, n).since = 0
    BY DEF Idle
  <2> HIDE DEF R
  <2>4. Checked(R(i, n))
    BY <1>0, <2>3 DEF Checked, Staged
  <2> QED
    BY <2>1, <2>2, <2>4
<1>4. CASE CloseVolume(c)
  <2> DEFINE R(n) == [Idle EXCEPT !.op = "close", !.pc = "mounts", !.todo = {n}]
  <2>1. PICK n \in Name : Begin(c, R(n))
    BY <1>4 DEF CloseVolume
  <2>2. R(n) \in CallRecord
    BY IdleTyped DEF CallRecord
  <2>3. R(n).op = "close" /\ R(n).pc = "mounts" /\ R(n).since = 0
    BY DEF Idle
  <2> HIDE DEF R
  <2>4. Checked(R(n))
    BY <1>0, <2>3 DEF Checked, Staged
  <2> QED
    BY <2>1, <2>2, <2>4
<1>5. CASE CloseVolumeFd(c)
  <2> DEFINE W(i) == {n \in Name : mapped[n].file = i /\ mapped[n].kind = "luks"}
             U(i, found) == crypt_mappings_backed_by(i) \ found
             R(i, found) == [Idle EXCEPT !.op = "closefd", !.pc = "close", !.target = i,
                                         !.todo = found, !.was = W(i), !.unseen = U(i, found)]
  <2>0. PICK i \in Inode : \E found \in Found(i) : Begin(c, R(i, found))
    BY <1>5 DEF CloseVolumeFd
  <2>1. PICK found \in Found(i) : Begin(c, R(i, found))
    BY <2>0
  <2>2. found \in SUBSET Name /\ W(i) \in SUBSET Name /\ U(i, found) \in SUBSET Name
    BY DEF Found, crypt_mappings_backed_by, dm_holders
  <2>3. W(i) \subseteq found \cup U(i, found) /\ \A n \in W(i) : mapped[n].kind = "luks"
    BY DEF crypt_mappings_backed_by, dm_holders
  <2>4. \A n \in found : mapped[n].file = i /\ mapped[n].kind = "luks"
    BY DEF Found, crypt_mappings_backed_by, dm_holders
  <2> HIDE DEF W, U
  <2>5. R(i, found) \in CallRecord
    BY <2>2, IdleTyped DEF CallRecord
  <2> DEFINE q == R(i, found)
  <2>6. /\ q.op = "closefd" /\ q.pc = "close" /\ q.target = i /\ q.since = 0
        /\ q.todo = found /\ q.was = W(i) /\ q.unseen = U(i, found)
    BY DEF Idle
  <2> HIDE DEF R
  <2>7. Checked(q)
    BY <1>0, <2>3, <2>4, <2>6 DEF Checked, Staged
  <2> QED
    BY <2>1, <2>5, <2>7
<1> QED
  BY <1>1, <1>2, <1>3, <1>4, <1>5 DEF Request

\* What the surroundings do leaves every call at its stage.
LEMMA SurroundingsEffect ==
    ASSUME TypeOK, Surroundings
    PROVE  \A d \in Call : /\ Alike(call'[d], call[d])
                           /\ call[d].op \in Creating /\ call[d].spoilt => call'[d].spoilt
                           /\ call'[d].was = call[d].was
                           /\ call[d].fresh \subseteq call'[d].fresh
<1>1. CASE UNCHANGED call
  BY <1>1 DEF Alike
<1>2. CASE call' = Spoil
  BY <1>2, SpoilEffect
<1>3. ASSUME NEW m \in Outside, MapElsewhere(m)
      PROVE  \A d \in Call : /\ Alike(call'[d], call[d]) /\ call'[d].spoilt = call[d].spoilt
                             /\ call'[d].was = call[d].was
                             /\ call[d].fresh \subseteq call'[d].fresh
  <2>1. m.name \in Name
    BY ContainersConstants
  <2>2. call \in [Call -> CallRecord] /\ call' = Renewed(m.name, call)
    BY <1>3 DEF TypeOK, MapElsewhere
  <2> QED
    BY <2>1, <2>2, NotesOnly
<1>4. ASSUME NEW p \in Path, MoveOnto(p)
      PROVE  \A d \in Call : /\ Alike(call'[d], call[d])
                             /\ call[d].op \in Creating => call'[d].spoilt
                             /\ call'[d].was = call[d].was
                             /\ call[d].fresh \subseteq call'[d].fresh
  BY <1>4, ArrivedEffect DEF MoveOnto
<1> QED
  BY <1>1, <1>2, <1>3, <1>4 DEF Surroundings, ClientCreates, Unlink, Expire, Mount

LEMMA StagesStep ==
    ASSUME TypeOK, Stages, [Next]_vars
    PROVE  Stages'
<1> SUFFICES ASSUME NEW d \in Call
             PROVE  Staged(call'[d])
  BY DEF Stages, Staged
<1>0. Staged(call[d])
  BY DEF Stages
<1>1. ASSUME NEW c \in Call, Request(c)
      PROVE  Staged(call'[d])
  <2>1. PICK r \in CallRecord : Begin(c, r) /\ Checked(r)
    BY <1>1, RequestChecks
  <2>2. d = c => Alike(call'[d], r)
    BY <2>1, BeginEffect
  <2>3. d # c => Alike(call'[d], call[d])
    BY <2>1, BeginEffect
  <2>4. Staged(r)
    BY <2>1 DEF Checked
  <2> QED
    BY <1>0, <2>2, <2>3, <2>4, StagedAlike
<1>2. ASSUME NEW c \in Call, ServiceStep(c)
      PROVE  Staged(call'[d])
  <2>1. d # c => Alike(call'[d], call[d])
    BY <1>2, ServiceServes DEF Served
  <2> QED
    BY <1>0, <1>2, <2>1, ServiceServes, StagedAlike
<1>3. CASE Surroundings
  BY <1>0, <1>3, SurroundingsEffect, StagedAlike
<1>4. CASE UNCHANGED vars
  BY <1>0, <1>4 DEF vars
<1> QED
  BY <1>1, <1>2, <1>3, <1>4 DEF Next, Surroundings

-----------------------------------------------------------------------------
(* Files and headers *)

\* Only three stages of a create call write to a file; every other step leaves names,
\* sizes and headers alone and is no way back to one of these stages.
LEMMA WhoWrites ==
    ASSUME TypeOK, Stages, NEW c \in Call, ServiceStep(c)
    PROVE  \/ create_image_file(c)
           \/ Ftruncate(c)
           \/ format_container(c) /\ File(c) # NoFile
           \/ /\ UNCHANGED <<at, size, header, formats>>
              /\ call'[c].pc \notin {"make", "size", "format"}
<1>1. CASE Return(c)
  <2>1. call'[c].pc = "idle"
    BY <1>1 DEF Return, Idle, TypeOK
  <2> QED
    BY <2>1, <1>1 DEF ServiceStep, CreateStep, OpenStep, CloseStep, StepFails, create_image_file,
        Ftruncate, format_container, add_by_key, cache_volume_key, Finish, get_volume_key,
        activate_by_volume_key, deactivate_volume, mapping_is_mounted, Deactivate, files
<1>2. CASE add_by_key(c) \/ cache_volume_key(c)
  <2>1. Go(c, "finish") \/ Go(c, "activate")
    BY <1>2 DEF add_by_key, cache_volume_key
  <2>2. call'[c].pc \in {"finish", "activate"}
    BY <2>1, GoStages
  <2> QED
    BY <1>2, <2>2 DEF add_by_key, cache_volume_key, files
<1>3. CASE OpenStep(c)
  <2>1. call[c].op = "open" /\ Staged(call'[c])
    BY <1>3, StageTells, OpenServes
        DEF OpenStep, get_volume_key, activate_by_volume_key, TypeOK, Stages
  <2>2. call'[c].op \in {"open", "none"}
    BY <1>3, <2>1, OpenServes DEF Served
  <2>3. call'[c].pc \notin {"make", "size", "format"}
    BY <2>1, <2>2 DEF Staged
  <2> QED
    BY <1>3, <2>3 DEF OpenStep, get_volume_key, activate_by_volume_key, files
<1>4. CASE CloseStep(c)
  <2>1. call[c].op \in {"close", "closefd"} /\ Staged(call'[c])
    BY <1>4, StageTells, CloseServes
        DEF CloseStep, deactivate_volume, mapping_is_mounted, Deactivate, TypeOK, Stages
  <2>2. call'[c].op \in {"close", "closefd", "none"}
    BY <1>4, <2>1, CloseServes DEF Served
  <2>3. call'[c].pc \notin {"make", "size", "format"}
    BY <2>1, <2>2 DEF Staged
  <2> QED
    BY <1>4, <2>3 DEF CloseStep, deactivate_volume, mapping_is_mounted, Deactivate, files
<1> QED
  BY <1>1, <1>2, <1>3, <1>4 DEF ServiceStep, CreateStep, StepFails, Finish, format_container

\* The file create_image_file leaves at the path: new, or what was there.
LEMMA ImageMade ==
    ASSUME TypeOK, Stages, NEW c \in Call, create_image_file(c)
    PROVE  /\ call[c].target \in Path
           /\ \E i \in Inode :
                 /\ i = File(c) \/ size[i] = "unused"
                 /\ at' = [at EXCEPT ![call[c].target] = i]
                 /\ size' = [size EXCEPT ![i] = "sized"]
                 /\ header' = [header EXCEPT ![i] = NoKey]
                 /\ keyed' = keyed \ {i}
           /\ UNCHANGED <<formats, cache, mapped>>
<1>1. call[c].target \in Path
  BY StageTells DEF create_image_file, TypeOK, Stages
<1> QED
  BY <1>1 DEF create_image_file

LEMMA ImageFormatted ==
    ASSUME TypeOK, NEW c \in Call, format_container(c), File(c) # NoFile
    PROVE  /\ File(c) \in Inode /\ formats' = formats + 1
           /\ header' = [header EXCEPT ![File(c)] = formats + 1]
           /\ size' = [size EXCEPT ![File(c)] = "sized"]
           /\ UNCHANGED <<at, cache, mapped>>
BY FileTyped DEF format_container

LEMMA RoomStep ==
    ASSUME TypeOK, Stages, HeadersNeedRoom, [Next]_vars
    PROVE  HeadersNeedRoom'
<1> USE DEF HeadersNeedRoom
<1>1. CASE UNCHANGED <<size, header>>
  BY <1>1
<1>2. ASSUME NEW c \in Call, create_image_file(c)
      PROVE  HeadersNeedRoom'
  BY <1>2, ImageMade DEF TypeOK
<1>3. ASSUME NEW c \in Call, Ftruncate(c)
      PROVE  HeadersNeedRoom'
  BY <1>3 DEF Ftruncate, TypeOK
<1>4. ASSUME NEW c \in Call, format_container(c), File(c) # NoFile
      PROVE  HeadersNeedRoom'
  BY <1>4, ImageFormatted DEF TypeOK
<1>5. ASSUME NEW p \in Path, ClientCreates(p)
      PROVE  HeadersNeedRoom'
  BY <1>5 DEF ClientCreates, TypeOK
<1>6. ASSUME NEW c \in Call, Request(c)
      PROVE  UNCHANGED <<size, header>>
  BY <1>6, RequestChecks, BeginEffect
<1> QED
  BY <1>1, <1>2, <1>3, <1>4, <1>5, <1>6, WhoWrites
      DEF Next, MoveOnto, Unlink, Expire, MapElsewhere, Mount, vars, files

LEMMA SinceTyped ==
    ASSUME NEW r \in CallRecord
    PROVE  r.since \in Nat
<1>1. r.since \in Key
  BY DEF CallRecord
<1> QED
  BY <1>1, ContainersConstants DEF Key

LEMMA DatedStep ==
    ASSUME TypeOK, Stages, Dated, [Next]_vars
    PROVE  Dated'
<1>0. formats \in Nat /\ \A i \in Inode : header[i] \in Nat
  BY ContainersConstants DEF TypeOK, Key
<1>1. /\ formats' \in Nat /\ formats <= formats'
      /\ \A i \in Inode : header'[i] <= formats'
      /\ \A i, j \in Inode : header'[i] = header'[j] /\ header'[i] # NoKey => i = j
  <2> DEFINE G == /\ formats' \in Nat /\ formats <= formats'
                  /\ \A i \in Inode : header'[i] <= formats'
                  /\ \A i, j \in Inode : header'[i] = header'[j] /\ header'[i] # NoKey => i = j
  <2>1. CASE UNCHANGED <<header, formats>>
    BY <1>0, <2>1 DEF Dated
  <2>2. ASSUME NEW c \in Call, create_image_file(c)
        PROVE  G
    <3>1. PICK i \in Inode : header' = [header EXCEPT ![i] = NoKey]
      BY <2>2, ImageMade
    <3>2. formats' = formats
      BY <2>2, ImageMade
    <3> QED
      BY <1>0, <3>1, <3>2 DEF Dated, TypeOK, NoKey
  <2>3. ASSUME NEW c \in Call, format_container(c), File(c) # NoFile
        PROVE  G
    <3>1. /\ File(c) \in Inode /\ formats' = formats + 1
          /\ header' = [header EXCEPT ![File(c)] = formats + 1]
      BY <2>3, ImageFormatted
    <3>2. \A i \in Inode : header'[i] = IF i = File(c) THEN formats + 1 ELSE header[i]
      BY <3>1 DEF TypeOK
    <3>3. \A i \in Inode : header[i] <= formats
      BY DEF Dated
    <3>4. \A i, j \in Inode : header'[i] = header'[j] /\ header'[i] # NoKey => i = j
      <4> SUFFICES ASSUME NEW i \in Inode, NEW j \in Inode, header'[i] = header'[j],
                          header'[i] # NoKey
                   PROVE  i = j
        OBVIOUS
      <4>1. header[i] \in Nat /\ header[j] \in Nat /\ header[i] <= formats /\ header[j] <= formats
        BY <1>0, <3>3
      <4> QED
        BY <1>0, <3>2, <4>1 DEF Dated
    <3> QED
      BY <1>0, <3>1, <3>2, <3>3, <3>4
  <2>4. ASSUME NEW c \in Call, Request(c)
        PROVE  UNCHANGED <<header, formats>>
    BY <2>4, RequestChecks, BeginEffect
  <2> QED
    BY <2>1, <2>2, <2>3, <2>4, WhoWrites
        DEF Next, Ftruncate, ClientCreates, MoveOnto, Unlink, Expire, MapElsewhere, Mount, vars, files
<1>2. ASSUME NEW d \in Call
      PROVE  call'[d].since <= formats
  <2>0. call[d].since \in Nat /\ call[d].since <= formats
    BY SinceTyped DEF TypeOK, Dated
  <2>1. ASSUME NEW c \in Call, Request(c)
        PROVE  call'[d].since <= formats
    <3>1. PICK r \in CallRecord : Begin(c, r) /\ Checked(r)
      BY <2>1, RequestChecks
    <3> QED
      BY <2>0, <3>1, BeginEffect DEF Checked, Alike
  <2>2. ASSUME NEW c \in Call, ServiceStep(c)
        PROVE  call'[d].since <= formats
    BY <1>0, <2>0, <2>2, ServiceServes DEF Served, Alike
  <2>3. CASE Surroundings
    BY <2>0, <2>3, SurroundingsEffect DEF Alike
  <2>4. CASE UNCHANGED vars
    BY <2>0, <2>4 DEF vars
  <2> QED
    BY <2>1, <2>2, <2>3, <2>4 DEF Next, Surroundings
<1>3. \A d \in Call : call'[d].since \in Nat
  <2>1. TypeOK'
    BY TypedStep
  <2> QED
    BY <2>1, SinceTyped DEF TypeOK
<1> QED
  BY <1>0, <1>1, <1>2, <1>3 DEF Dated

LEMMA YoungerStep ==
    ASSUME TypeOK, Stages, Dated, HeadersNeedRoom, OnlyYounger, [Next]_vars
    PROVE  OnlyYounger'
<1> USE ContainersConstants
<1> SUFFICES ASSUME NEW d \in Call, call'[d].pc \in {"make", "size", "format"}, File(d)' \in Inode
             PROVE  \/ header'[File(d)'] = NoKey \/ call'[d].since < header'[File(d)']
                    \/ File(d)' \in call'[d].arrived
  BY DEF OnlyYounger
<1> DEFINE G == \/ header'[File(d)'] = NoKey \/ call'[d].since < header'[File(d)']
                \/ File(d)' \in call'[d].arrived
<1>0. File(d)' = IF call'[d].target \in Path THEN at'[call'[d].target] ELSE call'[d].target
  BY DEF File
<1>a. TypeOK' /\ Stages' /\ Dated'
  BY TypedStep, StagesStep, DatedStep
<1>b. ASSUME Alike(call'[d], call[d]), at' = at, header' = header
      PROVE  G
  <2>1. File(d)' = File(d)
    BY <1>0, <1>b DEF File, Alike
  <2> QED
    BY <1>b, <2>1 DEF OnlyYounger, Alike
<1>1. ASSUME NEW c \in Call, Request(c)
      PROVE  G
  <2>1. PICK r \in CallRecord : Begin(c, r) /\ Checked(r)
    BY <1>1, RequestChecks
  <2>2. UNCHANGED <<at, size, header>>
    BY <2>1, BeginEffect
  <2>3. CASE d # c
    BY <1>b, <2>1, <2>2, <2>3, BeginEffect
  <2>4. CASE d = c
    <3>1. Alike(call'[d], r) /\ Staged(r)
      BY <2>1, <2>4, BeginEffect DEF Checked
    <3>2. r.pc \in {"make", "size"} /\ r.op \in {"create", "createfd"}
      BY <2>1, <3>1, StageTells DEF Alike, Checked, Creating
    <3>3. CASE r.op = "create"
      BY <1>0, <2>1, <2>2, <3>1, <3>3 DEF Checked, Alike, Staged
    <3>4. CASE r.op = "createfd"
      <4>1. File(d)' = r.target /\ size[r.target] = "empty" /\ r.target \in Inode
        BY <1>0, <2>1, <3>1, <3>4 DEF Checked, Alike, Staged
      <4> QED
        BY <2>2, <4>1 DEF HeadersNeedRoom
    <3> QED
      BY <3>2, <3>3, <3>4
  <2> QED
    BY <2>3, <2>4
<1>2. ASSUME NEW c \in Call, create_image_file(c)
      PROVE  G
  <2>0. Served(c)
    BY <1>2, ServiceServes DEF ServiceStep, CreateStep
  <2>1. PICK i \in Inode : /\ at' = [at EXCEPT ![call[c].target] = i]
                           /\ header' = [header EXCEPT ![i] = NoKey]
    BY <1>2, ImageMade
  <2>2. call[c].target \in Path
    BY <1>2, ImageMade
  <2>3. header'[i] = NoKey
    BY <2>1 DEF TypeOK
  <2>4. CASE File(d)' = i
    BY <2>3, <2>4
  <2>5. CASE File(d)' # i
    <3>1. d # c
      <4>1. SUFFICES ASSUME d = c PROVE FALSE
        OBVIOUS
      <4>2. call'[c].target = call[c].target
        BY <2>0, <4>1 DEF Served
      <4> QED
        BY <1>0, <2>1, <2>2, <2>5, <4>1, <4>2 DEF TypeOK
    <3>2. Alike(call'[d], call[d])
      BY <2>0, <3>1 DEF Served
    <3>3. File(d)' = File(d)
      BY <1>0, <2>1, <2>2, <2>5, <3>2 DEF Alike, File, TypeOK
    <3>4. header'[File(d)] = header[File(d)]
      BY <2>1, <2>5, <3>3 DEF TypeOK
    <3> QED
      BY <3>2, <3>3, <3>4 DEF Alike, OnlyYounger
  <2> QED
    BY <2>4, <2>5
<1>3. ASSUME NEW c \in Call, Ftruncate(c)
      PROVE  G
  <2>0. Served(c)
    BY <1>3, ServiceServes DEF ServiceStep, CreateStep
  <2>1. at' = at /\ header' = header /\ call[c].pc = "size"
    BY <1>3 DEF Ftruncate
  <2>2. CASE d # c
    BY <1>b, <2>0, <2>1, <2>2 DEF Served
  <2>3. CASE d = c
    <3>1. /\ call'[d].target = call[d].target /\ call'[d].since = call[d].since
          /\ call[d].arrived \subseteq call'[d].arrived
      BY <2>0, <2>3 DEF Served
    <3>2. File(d)' = File(d)
      BY <1>0, <2>1, <3>1 DEF File
    <3> QED
      BY <2>1, <2>3, <3>1, <3>2 DEF OnlyYounger
  <2> QED
    BY <2>2, <2>3
<1>4. ASSUME NEW c \in Call, format_container(c), File(c) # NoFile
      PROVE  G
  <2>0. Served(c)
    BY <1>4, ServiceServes DEF ServiceStep, CreateStep
  <2>1. /\ File(c) \in Inode /\ at' = at /\ formats' = formats + 1
        /\ header' = [header EXCEPT ![File(c)] = formats + 1]
    BY <1>4, ImageFormatted
  <2>2. call'[d].target = call[d].target /\ call'[d].since = call[d].since
    BY <2>0 DEF Served, Alike
  <2>3. File(d)' = File(d)
    BY <1>0, <2>1, <2>2 DEF File
  <2>4. formats \in Nat /\ call[d].since \in Nat /\ call[d].since <= formats
    BY SinceTyped DEF TypeOK, Key, Dated
  <2>5. CASE File(d) = File(c)
    <3>1. header'[File(d)] = formats + 1
      BY <2>1, <2>5 DEF TypeOK
    <3> QED
      BY <2>2, <2>3, <2>4, <3>1
  <2>6. CASE File(d) # File(c)
    <3>1. d # c /\ header'[File(d)] = header[File(d)]
      BY <2>1, <2>3, <2>6 DEF TypeOK
    <3>2. call'[d].pc = call[d].pc /\ call[d].arrived \subseteq call'[d].arrived
      BY <2>0, <3>1 DEF Served, Alike
    <3> QED
      BY <2>2, <2>3, <3>1, <3>2 DEF OnlyYounger
  <2> QED
    BY <2>5, <2>6
<1>5. ASSUME NEW c \in Call, ServiceStep(c), UNCHANGED <<at, size, header, formats>>,
             call'[c].pc \notin {"make", "size", "format"}
      PROVE  G
  BY <1>b, <1>5, ServiceServes DEF Served
<1>6. ASSUME NEW p \in Path, ClientCreates(p) \/ Unlink(p)
      PROVE  G
  <2>1. Alike(call'[d], call[d])
    BY <1>6, SurroundingsEffect DEF Surroundings
  <2>2. header' = header
    BY <1>6 DEF ClientCreates, Unlink
  <2>3. PICK i \in Inode \cup {NoFile} :
           at' = [at EXCEPT ![p] = i] /\ (i \in Inode => size[i] = "unused")
    BY <1>6 DEF ClientCreates, Unlink
  <2>4. CASE File(d)' = i
    BY <2>2, <2>3, <2>4 DEF HeadersNeedRoom
  <2>5. CASE File(d)' # i
    <3>1. File(d)' = File(d)
      BY <1>0, <2>1, <2>3, <2>5 DEF Alike, File, TypeOK
    <3> QED
      BY <2>1, <2>2, <3>1 DEF Alike, OnlyYounger
  <2> QED
    BY <2>4, <2>5
<1>7. CASE Surroundings /\ UNCHANGED files
  BY <1>b, <1>7, SurroundingsEffect DEF files
<1>9. ASSUME NEW p \in Path, MoveOnto(p)
      PROVE  G
  <2>1. PICK i \in Inode : at' = [at EXCEPT ![p] = i] /\ call' = Arrived(p, i, Spoil)
    BY <1>9 DEF MoveOnto
  <2>2. Alike(call'[d], call[d]) /\ header' = header
    BY <1>9, <2>1, ArrivedEffect DEF MoveOnto
  <2>3. CASE call[d].target = p
    <3>1. call[d].pc \in {"make", "format"}
      <4>1. call[d].pc = "size" => call[d].target \in Inode
        BY StageTells DEF TypeOK, Stages
      <4> QED
        BY <2>2, <2>3, <4>1 DEF Alike
    <3>2. File(d)' = i
      BY <1>0, <2>1, <2>2, <2>3 DEF Alike, TypeOK
    <3> QED
      BY <2>1, <2>3, <3>1, <3>2, ArrivedEffect
  <2>4. CASE call[d].target # p
    <3>1. File(d)' = File(d)
      BY <1>0, <2>1, <2>2, <2>4 DEF Alike, File, TypeOK
    <3> QED
      BY <2>2, <3>1 DEF Alike, OnlyYounger
  <2> QED
    BY <2>3, <2>4
<1>8. CASE UNCHANGED vars
  BY <1>b, <1>8 DEF vars, files, Alike
<1> QED
  <2>1. ASSUME NEW c \in Call, ServiceStep(c)
        PROVE  G
    BY <1>2, <1>3, <1>4, <1>5, <2>1, WhoWrites
  <2>2. CASE Surroundings
    BY <1>6, <1>7, <1>9, <2>2 DEF Surroundings, Expire, MapElsewhere, Mount
  <2> QED
    BY <1>1, <1>8, <2>1, <2>2 DEF Next, Surroundings

-----------------------------------------------------------------------------
(* Creation that nothing crosses *)

\* A create call that is unspoilt after a step was so before, unless the step is the
\* request that began it; and no other call was served meanwhile.
LEMMA Unspoilt ==
    ASSUME TypeOK, Stages, Alone, NEW d \in Call, call'[d].op \in Creating, ~call'[d].spoilt
    PROVE  /\ \A c \in Call : Request(c) => c = d
           /\ \A c \in Call : ServiceStep(c) =>
                 /\ c = d /\ call[d].op \in Creating /\ ~call[d].spoilt
                 /\ call'[d].target = call[d].target
           /\ Surroundings => call[d].op \in Creating /\ ~call[d].spoilt
           /\ call' # Spoil /\ \A p \in Path : ~MoveOnto(p)
<1>1. ASSUME NEW c \in Call, Request(c), c # d
      PROVE  FALSE
  <2>1. PICK r \in CallRecord : Begin(c, r)
    BY <1>1, RequestChecks
  <2> QED
    BY <1>1, <2>1, BeginEffect DEF Alike
<1>2. ASSUME NEW c \in Call, ServiceStep(c)
      PROVE  /\ c = d /\ call[d].op \in Creating /\ ~call[d].spoilt
             /\ call'[d].target = call[d].target
  <2>1. Served(c)
    BY <1>2, ServiceServes
  <2>2. call[d].op \in Creating /\ ~call[d].spoilt /\ call'[d].target = call[d].target
    BY <2>1 DEF Served, Alike, Creating
  <2>3. c \in InFlight
    BY <2>1 DEF Served, InFlight
  <2> QED
    BY <2>2, <2>3 DEF Alone
<1>3. ASSUME Surroundings
      PROVE  call[d].op \in Creating /\ ~call[d].spoilt
  BY <1>3, SurroundingsEffect DEF Alike
<1>4. call' # Spoil
  BY SpoilEffect DEF Alike
<1>5. ASSUME NEW p \in Path, MoveOnto(p)
      PROVE  FALSE
  BY <1>5, ArrivedEffect DEF MoveOnto, Alike
<1> QED
  BY <1>1, <1>2, <1>3, <1>4, <1>5

LEMMA AloneStep ==
    ASSUME TypeOK, Stages, Alone, [Next]_vars
    PROVE  Alone'
<1> SUFFICES ASSUME NEW d \in Call, call'[d].op \in Creating, ~call'[d].spoilt
             PROVE  InFlight' = {d}
  BY DEF Alone
<1>0. InFlight' = {c \in Call : call'[c].pc # "idle"}
  BY DEF InFlight
<1>1. call'[d].pc # "idle"
  <2>1. TypeOK' /\ Stages'
    BY TypedStep, StagesStep
  <2> QED
    BY <2>1, StageTells DEF TypeOK, Stages, Creating
<1>2. SUFFICES ASSUME NEW e \in Call \ {d}
               PROVE  call'[e].pc = "idle"
  BY <1>0, <1>1
<1>3. ASSUME NEW c \in Call, Request(c)
      PROVE  call'[e].pc = "idle"
  <2>1. PICK r \in CallRecord : Begin(c, r) /\ Checked(r)
    BY <1>3, RequestChecks
  <2>2. c = d
    BY <1>3, Unspoilt
  <2>3. InFlight = {}
    BY <2>1, <2>2, BeginEffect DEF Alike
  <2> QED
    BY <2>1, <2>2, <2>3, BeginEffect DEF Alike, InFlight
<1>4. ASSUME call[d].op \in Creating, ~call[d].spoilt, Alike(call'[e], call[e])
      PROVE  call'[e].pc = "idle"
  <2>1. InFlight = {d}
    BY <1>4 DEF Alone
  <2> QED
    BY <1>4, <2>1 DEF InFlight, Alike
<1>5. ASSUME NEW c \in Call, ServiceStep(c)
      PROVE  call'[e].pc = "idle"
  <2>1. Served(c)
    BY <1>5, ServiceServes
  <2>2. c = d /\ call[d].op \in Creating /\ ~call[d].spoilt
    BY <1>5, Unspoilt
  <2> QED
    BY <1>4, <2>1, <2>2 DEF Served
<1>6. CASE Surroundings
  BY <1>4, <1>6, Unspoilt, SurroundingsEffect
<1>7. CASE UNCHANGED vars
  BY <1>4, <1>7 DEF vars, Alike
<1> QED
  BY <1>3, <1>5, <1>6, <1>7 DEF Next, Surroundings

LEMMA ReachingStep ==
    ASSUME TypeOK, Stages, Dated, HeadersNeedRoom, Alone, Reaching, [Next]_vars
    PROVE  Reaching'
<1> USE ContainersConstants
<1> SUFFICES ASSUME NEW d \in Call, call'[d].op \in Creating, ~call'[d].spoilt,
                    call'[d].pc \in {"seed", "store", "finish"}
             PROVE  /\ File(d)' \in Inode /\ header'[File(d)'] = call'[d].key
                    /\ call'[d].pc = "finish" =>
                          File(d)' \in keyed' \/ cache'[realpath(d)'] = call'[d].key
  BY DEF Reaching
<1> DEFINE G == /\ File(d)' \in Inode /\ header'[File(d)'] = call'[d].key
                /\ call'[d].pc = "finish" =>
                      File(d)' \in keyed' \/ cache'[realpath(d)'] = call'[d].key
<1>0. File(d)' = IF call'[d].target \in Path THEN at'[call'[d].target] ELSE call'[d].target
  BY DEF File
<1>1. ASSUME at' = at, call'[d].target = call[d].target
      PROVE  File(d)' = File(d) /\ realpath(d)' = realpath(d)
  BY <1>1 DEF File, realpath
<1>2. ASSUME NEW c \in Call, Request(c)
      PROVE  FALSE
  <2>1. PICK r \in CallRecord : Begin(c, r) /\ Checked(r)
    BY <1>2, RequestChecks
  <2>2. Alike(call'[d], r)
    BY <1>2, <2>1, Unspoilt, BeginEffect
  <2> QED
    BY <2>1, <2>2 DEF Checked, Alike, Creating
<1>3. ASSUME ServiceStep(d)
      PROVE  G
  <2>0. call[d] \in CallRecord /\ Staged(call[d]) /\ formats \in Nat
    BY DEF TypeOK, Stages, Key
  <2>1. call[d].op \in Creating /\ ~call[d].spoilt /\ call'[d].target = call[d].target
    BY <1>3, Unspoilt
  <2>2. CASE create_image_file(d) \/ Ftruncate(d)
    <3>1. call'[d].pc = "format"
      BY <2>2, GoStages DEF create_image_file, Ftruncate
    <3> QED
      BY <3>1
  <2>3. CASE format_container(d)
    <3>1. File(d) # NoFile
      <4>1. SUFFICES ASSUME Return(d) PROVE FALSE
        BY <2>3 DEF format_container
      <4> QED
        BY <4>1 DEF Return, Idle, TypeOK
    <3>2. /\ File(d) \in Inode /\ at' = at
          /\ header' = [header EXCEPT ![File(d)] = formats + 1]
      BY <2>3, <3>1, ImageFormatted
    <3>3. call'[d].key = formats + 1 /\ call'[d].pc # "finish"
      <4> DEFINE stage == IF call[d].cred THEN "seed" ELSE "store"
      <4>1. stage # "finish"
        OBVIOUS
      <4>2. call' = [call EXCEPT ![d].key = formats + 1, ![d].cred = FALSE, ![d].pc = stage]
        BY <2>3, <3>1 DEF format_container
      <4> HIDE DEF stage
      <4>3. call'[d] = [call[d] EXCEPT !.key = formats + 1, !.cred = FALSE, !.pc = stage]
        BY <4>2 DEF TypeOK
      <4> QED
        BY <2>0, <4>1, <4>3 DEF CallRecord
    <3> QED
      BY <1>1, <2>1, <3>2, <3>3 DEF TypeOK
  <2>4. CASE add_by_key(d)
    <3>1. call[d].pc = "seed" /\ at' = at /\ header' = header /\ call'[d].key = call[d].key
      BY <2>4, GoStages DEF add_by_key
    <3>2. File(d)' = File(d)
      BY <1>1, <2>1, <3>1
    <3>3. File(d) \in Inode /\ header[File(d)] = call[d].key
      BY <2>1, <3>1 DEF Reaching
    <3>4. call[d].key # NoKey
      BY <2>0, <3>1 DEF Staged
    <3>5. PICK i \in Inode : header[i] = call[d].key /\ keyed' = keyed \cup {i}
      BY <2>4 DEF add_by_key
    <3>6. i = File(d)
      BY <3>3, <3>4, <3>5 DEF Dated
    <3> QED
      BY <3>1, <3>2, <3>3, <3>5, <3>6
  <2>5. CASE cache_volume_key(d)
    <3>1. call[d].pc = "store"
      BY <2>0, <2>1, <2>5, StageTells DEF cache_volume_key, Creating
    <3>2. at' = at /\ header' = header /\ call'[d].key = call[d].key
      BY <2>5, <3>1, GoStages DEF cache_volume_key, files
    <3>3. File(d) \in Inode /\ header[File(d)] = call[d].key
      BY <2>1, <3>1 DEF Reaching
    <3>4. cache'[realpath(d)] = call[d].key
      BY <2>5, FileTyped DEF cache_volume_key, TypeOK
    <3> QED
      BY <1>1, <2>1, <3>2, <3>3, <3>4
  <2>6. ASSUME Return(d)
        PROVE  FALSE
    BY <2>6 DEF Return, Idle, TypeOK, Creating
  <2>7. CASE OpenStep(d) \/ CloseStep(d)
    BY <2>0, <2>1, <2>7, StageTells DEF OpenStep, CloseStep, get_volume_key,
        activate_by_volume_key, deactivate_volume, mapping_is_mounted, Deactivate, Creating
  <2> QED
    BY <1>3, <2>2, <2>3, <2>4, <2>5, <2>6, <2>7 DEF ServiceStep, CreateStep, Finish, StepFails
<1>4. CASE Surroundings
  <2>1. /\ call[d].op \in Creating /\ ~call[d].spoilt /\ Alike(call'[d], call[d])
        /\ call' # Spoil /\ \A p \in Path : ~MoveOnto(p)
    BY <1>4, Unspoilt, SurroundingsEffect
  <2>2. /\ File(d) \in Inode /\ header[File(d)] = call[d].key
        /\ call[d].pc = "finish" => File(d) \in keyed \/ cache[realpath(d)] = call[d].key
    BY <2>1 DEF Reaching, Alike
  <2>3. ASSUME NEW p \in Path, ClientCreates(p)
        PROVE  G
    <3>1. PICK i \in Inode : size[i] = "unused" /\ at' = [at EXCEPT ![p] = i]
      BY <2>3 DEF ClientCreates
    <3>2. at[p] = NoFile /\ UNCHANGED <<header, keyed, cache, call>>
      BY <2>3 DEF ClientCreates
    <3>3. i # File(d)
      <4>1. call[d].key # NoKey
        BY <3>2 DEF Stages, Staged
      <4> QED
        BY <2>2, <3>1, <4>1 DEF HeadersNeedRoom
    <3>4. File(d)' = File(d)
      BY <2>2, <3>1, <3>2 DEF File, TypeOK
    <3>5. realpath(d)' = realpath(d)
      <4> DEFINE t == call[d].target
      <4>1. CASE t \in Path
        BY <3>2, <4>1 DEF realpath
      <4>2. CASE t \notin Path
        <5>1. t = File(d) /\ t \in Inode
          BY <2>2, <4>2 DEF File
        <5>2. {q \in Path : at'[q] = t} = {q \in Path : at[q] = t}
          BY <3>1, <3>2, <3>3, <5>1 DEF TypeOK
        <5> DEFINE Via(paths) == IF paths # {} THEN CHOOSE q \in paths : TRUE ELSE NoFile
        <5>3. realpath(d) = Via({q \in Path : at[q] = t})
          BY <4>2, Zenon DEF realpath
        <5>4. call'[d].target = t /\ call'[d].target \notin Path
          BY <3>2, <4>2
        <5>5. realpath(d)' = Via({q \in Path : at'[q] = call'[d].target})
          BY <5>4, Zenon DEF realpath
        <5> HIDE DEF Via
        <5> QED
          BY <5>2, <5>3, <5>4, <5>5
      <4> QED
        BY <4>1, <4>2
    <3> QED
      BY <2>2, <3>2, <3>4, <3>5
  <2>4. CASE UNCHANGED <<files, cache>>
    <3>1. at' = at /\ header' = header /\ keyed' = keyed /\ cache' = cache
      BY <2>4 DEF files
    <3>2. File(d)' = File(d) /\ realpath(d)' = realpath(d)
      BY <1>1, <2>1, <3>1 DEF Alike
    <3> QED
      BY <2>1, <2>2, <3>1, <3>2 DEF Alike
  <2> QED
    BY <1>4, <2>1, <2>3, <2>4 DEF Surroundings, Unlink, Expire, MapElsewhere, Mount
<1>5. CASE UNCHANGED vars
  <2>1. at' = at /\ call' = call /\ header' = header /\ keyed' = keyed /\ cache' = cache
    BY <1>5 DEF vars, files
  <2> QED
    BY <1>1, <2>1 DEF Reaching
<1> QED
  BY <1>2, <1>3, <1>4, <1>5, Unspoilt DEF Next, Surroundings

-----------------------------------------------------------------------------
(* Mappings *)

\* The step that takes a mapping down: it is at hand, mapped and not mounted.
Unmaps(c) ==
    \E n \in Name :
        /\ AtHand(c, n) /\ InUse(n) /\ ~mapped[n].mounted
        /\ Unmap(n) /\ call' = Lost(n, Closed(c, n, call))

\* A service step that maps and unmaps nothing leaves the other calls alone, and at most
\* strikes a name from its own list that is not mapped or that its query hid.
Strikes(c) ==
    /\ mapped' = mapped
    /\ \A d \in Call \ {c} : call'[d] = call[d]
    /\ call'[c].op = "closefd" =>
          /\ call[c].op = "closefd" /\ call'[c].target = call[c].target
          /\ call'[c].was = call[c].was /\ call'[c].fresh = call[c].fresh
          /\ call[c].unseen \subseteq call'[c].unseen
          /\ \/ call'[c].todo = call[c].todo
             \/ \E n \in Name : /\ ~InUse(n) \/ n \in call'[c].unseen
                                /\ call'[c].todo = call[c].todo \ {n}

LEMMA ReturnStrikes ==
    ASSUME TypeOK, NEW c \in Call, Return(c), mapped' = mapped
    PROVE  Strikes(c)
<1>1. call'[c].op = "none" /\ \A d \in Call \ {c} : call'[d] = call[d]
  BY DEF Return, Idle, TypeOK
<1> QED
  BY <1>1 DEF Strikes

LEMMA GoStrikes ==
    ASSUME TypeOK, NEW c \in Call, NEW stage, Go(c, stage), mapped' = mapped
    PROVE  Strikes(c)
<1>1. call'[c] = [call[c] EXCEPT !.pc = stage] /\ \A d \in Call \ {c} : call'[d] = call[d]
  BY DEF Go, TypeOK
<1>2. call[c] \in CallRecord
  BY DEF TypeOK
<1>3. /\ call'[c].op = call[c].op /\ call'[c].target = call[c].target
      /\ call'[c].was = call[c].was /\ call'[c].fresh = call[c].fresh
      /\ call'[c].todo = call[c].todo /\ call'[c].unseen = call[c].unseen
  BY <1>1, <1>2 DEF CallRecord
<1> QED
  BY <1>1, <1>3 DEF Strikes

LEMMA WhoMaps ==
    ASSUME TypeOK, Stages, NEW c \in Call, ServiceStep(c)
    PROVE  activate_by_volume_key(c) \/ Unmaps(c) \/ Strikes(c)
<1>0. call[c] \in CallRecord /\ Staged(call[c])
  BY DEF TypeOK, Stages
<1>1. CASE CreateStep(c)
  <2>1. CASE format_container(c) /\ File(c) # NoFile
    <3>1. /\ mapped' = mapped /\ \A d \in Call \ {c} : call'[d] = call[d]
      BY <2>1 DEF format_container, TypeOK
    <3>2. call[c].op \in Creating
      BY <1>0, <2>1, StageTells DEF format_container
    <3>3. call'[c].op # "closefd"
      BY <1>1, <3>2, CreateServes DEF Served, Creating
    <3> QED
      BY <3>1, <3>3 DEF Strikes
  <2>2. CASE Return(c) /\ mapped' = mapped
    BY <2>2, ReturnStrikes
  <2>3. CASE mapped' = mapped /\ \E stage \in {"format", "finish", "activate"} : Go(c, stage)
    BY <2>3, GoStrikes
  <2> QED
    BY <1>1, <2>1, <2>2, <2>3 DEF CreateStep, create_image_file, Ftruncate, format_container,
        add_by_key, cache_volume_key, Finish
<1>2. CASE get_volume_key(c)
  <2>1. mapped' = mapped /\ \A d \in Call \ {c} : call'[d] = call[d]
    BY <1>2 DEF get_volume_key, TypeOK
  <2>2. call[c].op = "open"
    BY <1>0, <1>2, StageTells DEF get_volume_key
  <2>3. call'[c].op # "closefd"
    BY <1>2, <2>2, OpenServes DEF Served, OpenStep
  <2> QED
    BY <2>1, <2>3 DEF Strikes
<1>3. CASE CloseStep(c)
  <2>1. CASE Return(c) /\ mapped' = mapped
    BY <2>1, ReturnStrikes
  <2>2. CASE mapped' = mapped /\ \E stage \in {"mounts", "deactivate"} : Go(c, stage)
    BY <2>2, GoStrikes
  <2>3. ASSUME NEW n \in Name, call' = PassedOver(c, n), mapped' = mapped
        PROVE  Strikes(c)
    BY <2>3, PassedOverEffect DEF Strikes
  <2>4. CASE deactivate_volume(c)
    BY <2>1, <2>2, <2>3, <2>4 DEF deactivate_volume
  <2>5. CASE mapping_is_mounted(c)
    BY <2>1, <2>2, <2>5 DEF mapping_is_mounted
  <2>6. CASE Deactivate(c)
    BY <2>1, <2>6 DEF Deactivate, Unmaps
  <2> QED
    BY <1>3, <2>4, <2>5, <2>6 DEF CloseStep
<1>4. CASE StepFails(c)
  BY <1>4, ReturnStrikes DEF StepFails
<1> QED
  BY <1>1, <1>2, <1>3, <1>4 DEF ServiceStep, OpenStep

\* A name is mapped, by the service or by another tool, only when it is free.
LEMMA MapsFreeName ==
    ASSUME TypeOK, Stages,
           \/ \E c \in Call : activate_by_volume_key(c)
           \/ \E m \in Outside : MapElsewhere(m)
    PROVE  \E n \in Name, m \in Mapping :
              /\ ~InUse(n) /\ mapped' = [mapped EXCEPT ![n] = m]
              /\ \A d \in Call : call'[d].op = "closefd" =>
                    /\ Alike(call'[d], call[d]) /\ call'[d].was = call[d].was
                    /\ call[d].fresh \subseteq call'[d].fresh
                    /\ n \in call[d].todo => n \in call'[d].fresh
<1>1. ASSUME NEW c \in Call, activate_by_volume_key(c)
      PROVE  \E n \in Name, m \in Mapping :
                /\ ~InUse(n) /\ mapped' = [mapped EXCEPT ![n] = m]
                /\ \A d \in Call : call'[d].op = "closefd" =>
                      /\ Alike(call'[d], call[d]) /\ call'[d].was = call[d].was
                      /\ call[d].fresh \subseteq call'[d].fresh
                      /\ n \in call[d].todo => n \in call'[d].fresh
  <2> DEFINE n == call[c].name
             m == [kind |-> "luks", file |-> File(c), whole |-> TRUE, mounted |-> FALSE]
             calls == [call EXCEPT ![c] = Idle]
  <2>1. n \in Name /\ File(c) \in Inode
    BY <1>1, StageTells, FileTyped DEF activate_by_volume_key, TypeOK, Stages
  <2>2. m \in Mapping
    BY <2>1 DEF Mapping
  <2>3. ~InUse(n) /\ mapped' = [mapped EXCEPT ![n] = m] /\ call' = Renewed(n, calls)
    BY <1>1 DEF activate_by_volume_key, Map
  <2>4. calls \in [Call -> CallRecord] /\ calls[c].op = "none"
    BY IdleTyped DEF TypeOK, Idle
  <2>5. \A d \in Call \ {c} : calls[d] = call[d]
    BY DEF TypeOK
  <2> HIDE DEF n, m, calls
  <2>6. ASSUME NEW d \in Call, call'[d].op = "closefd"
        PROVE  /\ Alike(call'[d], call[d]) /\ call'[d].was = call[d].was
               /\ call[d].fresh \subseteq call'[d].fresh
               /\ n \in call[d].todo => n \in call'[d].fresh
    <3>1. Alike(call'[d], calls[d])
      BY <2>1, <2>3, <2>4, NotesOnly
    <3>2. d # c /\ calls[d] = call[d] /\ call[d].op = "closefd"
      BY <2>4, <2>5, <2>6, <3>1 DEF Alike
    <3> QED
      BY <2>1, <2>3, <2>4, <3>1, <3>2, NotesOnly
  <2> QED
    BY <2>1, <2>2, <2>3, <2>6
<1>2. ASSUME NEW o \in Outside, MapElsewhere(o)
      PROVE  \E n \in Name, m \in Mapping :
                /\ ~InUse(n) /\ mapped' = [mapped EXCEPT ![n] = m]
                /\ \A d \in Call : call'[d].op = "closefd" =>
                      /\ Alike(call'[d], call[d]) /\ call'[d].was = call[d].was
                      /\ call[d].fresh \subseteq call'[d].fresh
                      /\ n \in call[d].todo => n \in call'[d].fresh
  <2>1. o.name \in Name /\ o.kind \in {"luks", "other"} /\ o.whole \in BOOLEAN
    BY ContainersConstants
  <2>2. PICK i \in Inode :
           Map(o.name, [kind |-> o.kind, file |-> i, whole |-> o.whole, mounted |-> FALSE])
    BY <1>2 DEF MapElsewhere
  <2> DEFINE m == [kind |-> o.kind, file |-> i, whole |-> o.whole, mounted |-> FALSE]
             n == o.name
  <2>3. m \in Mapping
    BY <2>1 DEF Mapping
  <2>4. /\ ~InUse(n) /\ mapped' = [mapped EXCEPT ![n] = m]
        /\ call' = Renewed(n, call) /\ call \in [Call -> CallRecord] /\ n \in Name
    BY <1>2, <2>1, <2>2 DEF MapElsewhere, Map, TypeOK
  <2> HIDE DEF n, m
  <2>5. ASSUME NEW d \in Call, call'[d].op = "closefd"
        PROVE  /\ Alike(call'[d], call[d]) /\ call'[d].was = call[d].was
               /\ call[d].fresh \subseteq call'[d].fresh
               /\ n \in call[d].todo => n \in call'[d].fresh
    <3>1. Alike(call'[d], call[d])
      BY <2>4, NotesOnly
    <3>2. call[d].op = "closefd"
      BY <2>5, <3>1 DEF Alike
    <3> QED
      BY <2>4, <3>1, <3>2, NotesOnly
  <2> QED
    BY <2>3, <2>4, <2>5
<1> QED
  BY <1>1, <1>2

LEMMA ListsStep ==
    ASSUME TypeOK, Stages, OwnNames, StillListed, [Next]_vars
    PROVE  OwnNames' /\ StillListed'
<1> DEFINE Own(d) == \A n \in call'[d].todo :
                        \/ n \in call'[d].fresh \/ mapped'[n] = NoMap
                        \/ mapped'[n].file = call'[d].target /\ mapped'[n].kind = "luks"
           Listed(d) == /\ call'[d].was \subseteq call'[d].todo \cup call'[d].unseen
                        /\ \A n \in call'[d].was : mapped'[n] # NoMap
<1> SUFFICES ASSUME NEW d \in Call, call'[d].op = "closefd"
             PROVE  Own(d) /\ Listed(d)
  BY DEF OwnNames, StillListed, InUse
<1>t. /\ \A e \in Call : call[e].todo \subseteq Name /\ call[e].was \subseteq Name
      /\ mapped \in [Name -> Mapping \cup {NoMap}]
  BY DEF TypeOK, CallRecord
<1>1. ASSUME Alike(call'[d], call[d]), call'[d].was = call[d].was,
             call[d].fresh \subseteq call'[d].fresh,
             \A n \in Name : /\ mapped'[n] = NoMap <=> mapped[n] = NoMap
                             /\ mapped'[n].file = mapped[n].file
                             /\ mapped'[n].kind = mapped[n].kind
      PROVE  Own(d) /\ Listed(d)
  BY <1>t, <1>1 DEF Alike, OwnNames, StillListed, InUse
<1>2. ASSUME NEW c \in Call, Request(c)
      PROVE  Own(d) /\ Listed(d)
  <2>1. PICK r \in CallRecord : Begin(c, r) /\ Checked(r)
    BY <1>2, RequestChecks
  <2>2. mapped' = mapped
    BY <2>1, BeginEffect
  <2>3. CASE d # c
    BY <1>1, <2>1, <2>2, <2>3, BeginEffect
  <2>4. CASE d = c
    <3>1. Alike(call'[d], r) /\ call'[d].was = r.was
      BY <2>1, <2>4, BeginEffect
    <3>2. /\ \A n \in r.todo : mapped[n].file = r.target /\ mapped[n].kind = "luks"
          /\ r.was \subseteq r.todo \cup r.unseen /\ \A n \in r.was : mapped[n].kind = "luks"
      BY <2>1, <3>1 DEF Checked, Alike
    <3>3. NoMap.kind # "luks"
      BY DEF NoMap
    <3> QED
      BY <2>2, <3>1, <3>2, <3>3 DEF Alike
  <2> QED
    BY <2>3, <2>4
<1>3. ASSUME NEW c \in Call, Strikes(c)
      PROVE  Own(d) /\ Listed(d)
  <2>1. CASE d # c
    BY <1>1, <1>3, <2>1 DEF Strikes, Alike
  <2>2. CASE d = c
    BY <1>3, <2>2 DEF Strikes, OwnNames, StillListed, InUse
  <2> QED
    BY <2>1, <2>2
<1>4. ASSUME NEW c \in Call, Unmaps(c)
      PROVE  Own(d) /\ Listed(d)
  <2>1. PICK n \in Name : Unmap(n) /\ call' = Lost(n, Closed(c, n, call))
    BY <1>4 DEF Unmaps
  <2> DEFINE calls == Closed(c, n, call)
  <2>2. calls \in [Call -> CallRecord]
    BY ClosedTyped
  <2>3. /\ calls[d].op = call[d].op /\ calls[d].target = call[d].target
        /\ calls[d].was = call[d].was /\ calls[d].fresh = call[d].fresh
        /\ calls[d].unseen = call[d].unseen
        /\ calls[d].todo \in {call[d].todo, call[d].todo \ {n}}
    BY ClosedEffect
  <2> HIDE DEF calls
  <2>4. /\ Alike(call'[d], calls[d]) /\ call'[d].was = calls[d].was \ {n}
        /\ call'[d].fresh = calls[d].fresh
    BY <2>1, <2>2, NotesOnly DEF calls
  <2>5. /\ call[d].op = "closefd" /\ call'[d].target = call[d].target
        /\ call'[d].was = call[d].was \ {n} /\ call'[d].fresh = call[d].fresh
        /\ call'[d].unseen = call[d].unseen
        /\ call'[d].todo \in {call[d].todo, call[d].todo \ {n}}
    BY <2>3, <2>4 DEF Alike
  <2>6. \A k \in Name : mapped'[k] = IF k = n THEN NoMap ELSE mapped[k]
    BY <1>t, <2>1 DEF Unmap
  <2> QED
    BY <1>t, <2>5, <2>6 DEF OwnNames, StillListed, InUse
<1>5. CASE \/ \E c \in Call : activate_by_volume_key(c)
           \/ \E m \in Outside : MapElsewhere(m)
  <2>1. PICK n \in Name, m \in Mapping :
           /\ ~InUse(n) /\ mapped' = [mapped EXCEPT ![n] = m]
           /\ Alike(call'[d], call[d]) /\ call'[d].was = call[d].was
           /\ call[d].fresh \subseteq call'[d].fresh
           /\ n \in call[d].todo => n \in call'[d].fresh
    BY <1>5, MapsFreeName
  <2>2. \A k \in Name : mapped'[k] = IF k = n THEN m ELSE mapped[k]
    BY <1>t, <2>1
  <2>3. call[d].op = "closefd"
    BY <2>1 DEF Alike
  <2> QED
    BY <1>t, <2>1, <2>2, <2>3, NoMapOutside DEF Alike, OwnNames, StillListed, InUse
<1>6. CASE Surroundings /\ mapped' = mapped
  BY <1>1, <1>6, SurroundingsEffect
<1>7. ASSUME NEW n \in Name, Mount(n)
      PROVE  Own(d) /\ Listed(d)
  <2>1. call' = call
    BY <1>7 DEF Mount
  <2>2. \A m \in Name : /\ mapped'[m].file = mapped[m].file /\ mapped'[m].kind = mapped[m].kind
                        /\ mapped'[m] = NoMap <=> mapped[m] = NoMap
    BY <1>7, MountTyped
  <2>3. Alike(call'[d], call[d])
    BY <2>1 DEF Alike
  <2> QED
    BY <1>1, <2>1, <2>2, <2>3
<1>8. CASE UNCHANGED vars
  BY <1>1, <1>8 DEF vars, Alike
<1> QED
  <2>1. CASE Surroundings
    BY <1>5, <1>6, <1>7, <2>1 DEF Surroundings, ClientCreates, MoveOnto, Unlink, Expire
  <2> QED
    BY <1>2, <1>3, <1>4, <1>5, <1>8, <2>1, WhoMaps DEF Next, Surroundings

-----------------------------------------------------------------------------
(* Theorems *)

LEMMA KeptInit == Init => Kept
<1> SUFFICES ASSUME Init
             PROVE  Kept
  OBVIOUS
<1> USE ContainersConstants DEF Init
<1>0. \A c \in Call : call[c] = Idle
  OBVIOUS
<1>1. TypeOK
  BY IdleTyped DEF TypeOK, Key, NoKey
<1>2. /\ Idle.op = "none" /\ Idle.pc = "idle" /\ Idle.since = 0
  BY DEF Idle
<1>3. Stages
  BY <1>0, <1>2 DEF Stages, Staged
<1>4. Dated
  BY <1>0, <1>2 DEF Dated, NoKey
<1>5. HeadersNeedRoom
  BY DEF HeadersNeedRoom
<1>6. OnlyYounger
  BY <1>0, <1>2 DEF OnlyYounger
<1>7. Alone /\ Reaching
  BY <1>0, <1>2 DEF Alone, Reaching, Creating
<1>8. OwnNames /\ StillListed
  BY <1>0, <1>2 DEF OwnNames, StillListed
<1> QED
  BY <1>1, <1>3, <1>4, <1>5, <1>6, <1>7, <1>8 DEF Kept

LEMMA KeptStep == Kept /\ [Next]_vars => Kept'
BY TypedStep, StagesStep, DatedStep, RoomStep, YoungerStep, AloneStep, ReachingStep, ListsStep
   DEF Kept

LEMMA KeptInvariant == Spec => []Kept
BY KeptInit, KeptStep, PTL DEF Spec

\* Directory, headers, cache, dm table and the records of the calls keep their types, and
\* only a file with a header ever has keyslots.
THEOREM ContainersTyped == Spec => []TypeOK
<1>1. Kept => TypeOK
  BY DEF Kept
<1> QED
  BY <1>1, KeptInvariant, PTL

\* CloseVolumeFd reports success only when none of the LUKS mappings its file had when the
\* call came is left but those a failing query hid from it, for any number of calls, files
\* and names and whatever is mapped, mounted and closed beside it.
THEOREM CloseFdComplete == Spec => []CloseFdLeavesNothing
<1>1. Kept => CloseFdLeavesNothing
  BY DEF Kept, StillListed, CloseFdLeavesNothing
<1> QED
  BY <1>1, KeptInvariant, PTL

\* What CloseVolumeFd takes down is a LUKS mapping of its own file, or one that took over
\* the name after the snapshot.
THEOREM CloseFdSparing == Spec => []CloseFdSparesOthers
<1>1. Kept => CloseFdSparesOthers
  BY DEF Kept, OwnNames, CloseFdSparesOthers, AtHand
<1> QED
  BY <1>1, KeptInvariant, PTL

\* A creation that nothing else crossed and that reports success leaves a container with
\* its passphrase keyslot, or with its key cached under the name it will be looked up by.
THEOREM CreatedReachable == Spec => []CreatedIsReachable
<1>1. Kept => CreatedIsReachable
  BY DEF Kept, Reaching, CreatedIsReachable
<1> QED
  BY <1>1, KeptInvariant, PTL

\* A mapping with a mounted file system is never taken away: the only step that unmaps
\* asks the kernel without a force flag, and a name is mapped anew only when it is free.
THEOREM MountedKept == Spec => MountedStaysMapped
<1>1. ASSUME Kept, [Next]_vars
      PROVE  [\A n \in Name : mapped[n].mounted => mapped'[n] # NoMap]_vars
  <2> SUFFICES ASSUME NEW n \in Name, mapped[n].mounted
               PROVE  mapped'[n] # NoMap
    OBVIOUS
  <2>0. TypeOK /\ Stages /\ mapped \in [Name -> Mapping \cup {NoMap}]
    BY <1>1 DEF Kept, TypeOK
  <2>1. mapped[n] # NoMap
    BY DEF NoMap
  <2>2. CASE mapped' = mapped
    BY <2>1, <2>2
  <2>3. ASSUME NEW c \in Call, Unmaps(c)
        PROVE  mapped'[n] # NoMap
    BY <2>0, <2>1, <2>3 DEF Unmaps, Unmap
  <2>4. CASE \/ \E c \in Call : activate_by_volume_key(c)
             \/ \E m \in Outside : MapElsewhere(m)
    <3>1. PICK k \in Name, m \in Mapping :
             ~InUse(k) /\ mapped' = [mapped EXCEPT ![k] = m]
      BY <2>0, <2>4, MapsFreeName
    <3> QED
      BY <2>0, <2>1, <3>1, NoMapOutside DEF InUse
  <2>5. ASSUME NEW k \in Name, Mount(k)
        PROVE  mapped'[n] # NoMap
    BY <2>0, <2>1, <2>5, MountTyped
  <2>6. ASSUME NEW c \in Call, Request(c)
        PROVE  mapped' = mapped
    BY <2>0, <2>6, RequestChecks, BeginEffect
  <2>7. ASSUME NEW c \in Call, ServiceStep(c)
        PROVE  mapped'[n] # NoMap
    BY <2>0, <2>2, <2>3, <2>4, <2>7, WhoMaps DEF Strikes
  <2> QED
    BY <1>1, <2>2, <2>4, <2>5, <2>6, <2>7
        DEF Next, ClientCreates, MoveOnto, Unlink, Expire, vars
<1> QED
  BY <1>1, KeptInvariant, PTL DEF Spec, MountedStaysMapped

\* A container's header is truncated or replaced only by a create call on its very file,
\* and that call had made its checks before the container was formatted, or before it was
\* moved onto the call's path, whatever overlaps.
THEOREM OlderKept == Spec => OlderContainerKept
<1> DEFINE Goes(i) == header[i] # NoKey /\ header'[i] # header[i]
           Excused(i) == \E c \in Call : /\ Clobbers(c, i)
                                         /\ call[c].since < header[i] \/ i \in call[c].arrived
<1>1. ASSUME Kept, [Next]_vars
      PROVE  [\A i \in Inode : (header[i] # NoKey /\ header'[i] # header[i]) =>
                 \E c \in Call : /\ Clobbers(c, i)
                                 /\ call[c].since < header[i] \/ i \in call[c].arrived]_vars
  <2> SUFFICES ASSUME NEW i \in Inode, Goes(i)
               PROVE  Excused(i)
    OBVIOUS
  <2>0. TypeOK /\ Stages /\ HeadersNeedRoom /\ OnlyYounger
    BY <1>1 DEF Kept
  <2>1. ASSUME NEW c \in Call, i = File(c), call[c].pc \in {"make", "format"}, call'[c] # call[c]
        PROVE  Excused(i)
    <3>1. call[c].op \in Creating
      BY <2>0, <2>1, StageTells DEF TypeOK, Stages, Creating
    <3>2. Clobbers(c, i)
      BY <2>1, <3>1 DEF Clobbers
    <3> QED
      BY <2>0, <2>1, <3>2 DEF OnlyYounger
  <2>2. ASSUME NEW c \in Call, create_image_file(c)
        PROVE  Excused(i)
    <3>1. PICK j \in Inode : /\ j = File(c) \/ size[j] = "unused"
                             /\ header' = [header EXCEPT ![j] = NoKey]
      BY <2>0, <2>2, ImageMade
    <3>2. j = i
      BY <2>0, <3>1 DEF TypeOK
    <3>3. i = File(c)
      BY <2>0, <3>1, <3>2 DEF HeadersNeedRoom
    <3>4. call[c].pc = "make" /\ call'[c].pc = "format"
      BY <2>0, <2>2, GoStages DEF create_image_file
    <3>5. call'[c] # call[c]
      BY <3>4
    <3> QED
      BY <2>1, <3>3, <3>4, <3>5
  <2>3. ASSUME NEW c \in Call, format_container(c), File(c) # NoFile
        PROVE  Excused(i)
    <3>1. header' = [header EXCEPT ![File(c)] = formats + 1]
      BY <2>0, <2>3, ImageFormatted
    <3>2. i = File(c)
      BY <2>0, <3>1 DEF TypeOK
    <3>3. call[c].pc = "format" /\ call'[c].pc # "format"
      <4> DEFINE stage == IF call[c].cred THEN "seed" ELSE "store"
      <4>1. stage # "format"
        OBVIOUS
      <4>2. call' = [call EXCEPT ![c].key = formats + 1, ![c].cred = FALSE, ![c].pc = stage]
        BY <2>3 DEF format_container
      <4> HIDE DEF stage
      <4>3. call'[c] = [call[c] EXCEPT !.key = formats + 1, !.cred = FALSE, !.pc = stage]
        BY <2>0, <4>2 DEF TypeOK
      <4>4. call[c] \in CallRecord
        BY <2>0 DEF TypeOK
      <4>5. call'[c].pc = stage
        BY <4>3, <4>4 DEF CallRecord
      <4> QED
        BY <2>3, <4>1, <4>5 DEF format_container
    <3>4. call'[c] # call[c]
      BY <3>3
    <3> QED
      BY <2>1, <3>2, <3>3, <3>4
  <2>4. ASSUME NEW c \in Call, Request(c)
        PROVE  header' = header
    BY <2>0, <2>4, RequestChecks, BeginEffect
  <2>5. ASSUME NEW c \in Call, ServiceStep(c)
        PROVE  Excused(i)
    BY <2>0, <2>2, <2>3, <2>5, WhoWrites DEF Ftruncate
  <2> QED
    BY <1>1, <2>4, <2>5
        DEF Next, ClientCreates, MoveOnto, Unlink, Expire, MapElsewhere, Mount, vars, files
<1> QED
  BY <1>1, KeptInvariant, PTL DEF Spec, OlderContainerKept

=============================================================================
