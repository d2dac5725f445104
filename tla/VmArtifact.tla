----------------------------- MODULE VmArtifact -----------------------------
(***************************************************************************)
(* The VM disk bootable.img, its stamp bootable.img.image-id and the image *)
(* it is made from: scripts/generate_vm_artifact.py,                       *)
(* scripts/generate_bootable_image.py, scripts/build_image.py and          *)
(* ensure_image_and_bootable() of scripts/vm_smoke/runtime.py.             *)
(*                                                                         *)
(* Every command is a process of its own; they share the image tag, the    *)
(* disk and the stamp, and nothing locks these.  An interrupted command    *)
(* leaves the disk as it is at that moment.  The variable events records   *)
(* what has happened that the stamp cannot tell.                           *)
(***************************************************************************)
EXTENDS Naturals, FiniteSets

CONSTANTS
    Procs,          \* commands that may be under way at one time
    Images,         \* image IDs, in the order they are first built
    NoImage,        \* the tag does not exist
    NoId,           \* the empty image ID
    NoStamp,        \* there is no stamp file
    NoDisk,         \* there is no disk file
    Blank,          \* a disk with nothing installed
    Partial,        \* bootc install has begun to wipe and write it
    Mixed,          \* two installs have written it at the same time
    Kinds,          \* the commands that are run
    MaxFailures     \* bound: interrupted or failing commands

AllKinds ==
    {"artifact",    \* mise run image:artifact
     "boot",        \* boot_vm_smoke.py with the default configuration
     "unchecked",   \* the same with BOOTC_VM_SKIP_IMAGE_CHECKS=1
     "sandbox",     \* mise run test:vm:sandbox
     "bare"}        \* mise run generate-bootable-image

NoContent == {NoDisk, Blank, Partial, Mixed}

ASSUME ArtifactAssumption ==
    /\ Images \subseteq Nat
    /\ Images # {}
    /\ {NoImage, NoId, NoStamp} \cap Images = {}
    /\ NoContent \cap Images = {}
    /\ NoId # NoStamp
    /\ Kinds \subseteq AllKinds
    /\ MaxFailures \in Nat

VARIABLES
    image,      \* what IMAGE_REF names
    disk,       \* what bootable.img holds
    stamp,
    pc,
    kind,       \* which command process p is running
    image_id,   \* the ID it has read from `podman image inspect'
    source,     \* the image its bootc install runs from
    failures,
    events      \* history: a subset of Events

\* retag      the image was rebuilt while a command was under way
\* overlap    two commands were under way
\* return     a build gave an ID again that an earlier one gave
\* removed    the user deleted bootable.img
\* unasked    a command that compares no IDs made the disk anew
\* unstamped  the disk was written, and the stamp left as it was
Events == {"retag", "overlap", "return", "removed", "unasked", "unstamped"}

files == <<disk, stamp>>
vars  == <<image, disk, stamp, pc, kind, image_id, source, failures, events>>

TypeOK ==
    /\ image \in Images \cup {NoImage}
    /\ disk \in Images \cup NoContent
    /\ stamp \in Images \cup {NoId, NoStamp}
    /\ pc \in [Procs -> {"idle", "start", "compare", "size", "install",
                         "installing", "stamp", "ready"}]
    /\ kind \in [Procs -> AllKinds]
    /\ image_id \in [Procs -> Images \cup {NoId}]
    /\ source \in [Procs -> Images \cup {NoImage}]
    /\ failures \in 0 .. MaxFailures
    /\ events \subseteq Events

Init ==
    /\ image = NoImage
    /\ disk = NoDisk
    /\ stamp = NoStamp
    /\ pc = [p \in Procs |-> "idle"]
    /\ kind = [p \in Procs |-> "artifact"]
    /\ image_id = [p \in Procs |-> NoId]
    /\ source = [p \in Procs |-> NoImage]
    /\ failures = 0
    /\ events = {}

Goto(p, label) == pc' = [pc EXCEPT ![p] = label]

\* The command ends; what it has in memory is gone.
End(p) ==
    /\ Goto(p, "idle")
    /\ kind' = [kind EXCEPT ![p] = "artifact"]
    /\ image_id' = [image_id EXCEPT ![p] = NoId]
    /\ source' = [source EXCEPT ![p] = NoImage]

Note(event, happened) ==
    events' = events \cup IF happened THEN {event} ELSE {}

UnderWay == {p \in Procs : pc[p] # "idle"}

-----------------------------------------------------------------------------
\* build_image.py, run by the user: `podman build -t IMAGE_REF' leaves the tag
\* on a new image or, when the layer cache holds an earlier state of the tree,
\* on an old one.  A build that changes nothing is no step.
Build ==
    /\ \E i \in Images \ {image} :
           /\ image' = i
           /\ events' = events \cup (IF UnderWay # {} THEN {"retag"} ELSE {})
                              \cup (IF image # NoImage /\ i < image THEN {"return"} ELSE {})
    /\ UNCHANGED <<files, pc, kind, image_id, source, failures>>

Start(p) ==
    /\ pc[p] = "idle"
    /\ \E k \in Kinds :
           /\ kind' = [kind EXCEPT ![p] = k]
           /\ \/ /\ k \in {"artifact", "boot", "unchecked"}
                 /\ Goto(p, "start")
              \/ /\ k = "bare"
                 /\ Goto(p, "size")
              \/ /\ k = "sandbox"
                 /\ disk # NoDisk
                 /\ stamp \notin {NoStamp, NoId}
                 /\ Goto(p, "ready")
    /\ Note("overlap", UnderWay # {})
    /\ UNCHANGED <<image, files, image_id, source, failures>>

\* (mutant) a missing image is not built
MutBuiltIfMissing(i) == i = image

BuiltIfMissing(i) == IF image = NoImage THEN i \in Images ELSE i = image

\* The image is built if the tag is missing; then its ID is read.
Inspect(p) ==
    /\ pc[p] = "start"
    /\ kind[p] # "unchecked"
    /\ \E i \in Images \cup {NoImage} :
           /\ BuiltIfMissing(i)
           /\ image' = i
           /\ image_id' = [image_id EXCEPT ![p] = i]
    /\ Goto(p, "compare")
    /\ UNCHANGED <<files, kind, source, failures, events>>

SkipImageChecks(p) ==
    /\ pc[p] = "start"
    /\ kind[p] = "unchecked"
    /\ image_id' = [image_id EXCEPT ![p] = NoId]
    /\ Goto(p, "compare")
    /\ UNCHANGED <<image, files, kind, source, failures, events>>

\* (mutants) the stamp is not compared; the disk is always made anew
MutStale(p) == disk = NoDisk
MutAlwaysStale(p) == TRUE

Stale(p) == disk = NoDisk \/ stamp # image_id[p]

Compare(p) ==
    /\ pc[p] = "compare"
    /\ Goto(p, IF Stale(p) THEN "size" ELSE "ready")
    /\ UNCHANGED <<image, files, kind, image_id, source, failures, events>>

\* ensure_bootable_image(): a missing disk, or one smaller than BOOTABLE_SIZE
\* has become, is replaced by a blank one.
Size(p) ==
    /\ pc[p] = "size"
    /\ disk' \in IF disk = NoDisk THEN {Blank} ELSE {Blank, disk}
    /\ Goto(p, "install")
    /\ Note("unasked", kind[p] \in {"unchecked", "bare"})
    /\ UNCHANGED <<image, stamp, kind, image_id, source, failures>>

\* `podman run IMAGE_REF bootc install to-disk --wipe': the tag is looked up
\* now, not when the ID was read.
BeginInstall(p) ==
    /\ pc[p] = "install"
    /\ image # NoImage
    /\ source' = [source EXCEPT ![p] = image]
    /\ disk' = IF \E q \in Procs : pc[q] = "installing" THEN Mixed ELSE Partial
    /\ Goto(p, "installing")
    /\ UNCHANGED <<image, stamp, kind, image_id, failures, events>>

\* Without the tag `podman run' fails; the disk stays.
ImageMissing(p) ==
    /\ pc[p] = "install"
    /\ image = NoImage
    /\ End(p)
    /\ UNCHANGED <<image, files, failures, events>>

EndInstall(p) ==
    /\ pc[p] = "installing"
    /\ disk' = IF disk = Partial THEN source[p] ELSE disk
    /\ IF kind[p] = "bare" THEN End(p)
                          ELSE Goto(p, "stamp") /\ UNCHANGED <<kind, image_id, source>>
    /\ Note("unstamped", kind[p] = "bare")
    /\ UNCHANGED <<image, stamp, failures>>

\* (mutant) an empty ID is not written
MutNewStamp(p) == IF image_id[p] = NoId THEN stamp ELSE image_id[p]

NewStamp(p) == image_id[p]

WriteStamp(p) ==
    /\ pc[p] = "stamp"
    /\ stamp' = NewStamp(p)
    /\ Goto(p, "ready")
    /\ UNCHANGED <<image, disk, kind, image_id, source, failures, events>>

\* "VM artifact ready", or the VM is booted and in the end stopped.
Done(p) ==
    /\ pc[p] = "ready"
    /\ End(p)
    /\ UNCHANGED <<image, files, failures, events>>

\* A command fails or is interrupted.  write_text() has emptied the stamp
\* before it writes it.
Fail(p) ==
    /\ pc[p] \notin {"idle", "ready"}
    /\ failures < MaxFailures
    /\ failures' = failures + 1
    /\ stamp' \in IF pc[p] = "stamp" THEN {stamp, NoId} ELSE {stamp}
    /\ End(p)
    /\ Note("unstamped", pc[p] \in {"install", "installing", "stamp"})
    /\ UNCHANGED <<image, disk>>

RemoveDisk ==
    /\ UnderWay = {}
    /\ disk # NoDisk
    /\ disk' = NoDisk
    /\ Note("removed", TRUE)
    /\ UNCHANGED <<image, stamp, pc, kind, image_id, source, failures>>

Command(p) ==
    \/ Inspect(p) \/ SkipImageChecks(p) \/ Compare(p) \/ Size(p)
    \/ BeginInstall(p) \/ ImageMissing(p) \/ EndInstall(p)
    \/ WriteStamp(p) \/ Done(p)

Next ==
    \/ Build
    \/ RemoveDisk
    \/ \E p \in Procs : Start(p) \/ Command(p) \/ Fail(p)

Spec == Init /\ [][Next]_vars /\ \A p \in Procs : WF_vars(Command(p))

-----------------------------------------------------------------------------
\* The stamp tells what the disk holds, as long as nothing has happened that
\* it cannot tell.  A disk written and not stamped does no harm alone: IDs have
\* been compared, so the old stamp names an image that is no more.
StampTells ==
    /\ events \cap {"retag", "overlap"} = {}
    /\ "unstamped" \in events => events \cap {"return", "removed", "unasked"} = {}

\* A command that has compared IDs and says the artifact is ready, or boots
\* it, has a disk that holds the image whose ID it read: "VM artifact ready:"
\* with that ID and that disk (generate_vm_artifact.py, lines 45-48).
ReadyIsInstalled ==
    StampTells =>
        \A p \in Procs :
            pc[p] = "ready" /\ kind[p] \in {"artifact", "boot"}
                => disk = image_id[p]

\* "Refresh bootable.img only when the built image ID changed" (README.md,
\* line 22): a disk that holds the current image and is stamped with it is
\* left alone by the commands that compare IDs.
OnlyWhenChanged ==
    [][ events' \cap {"retag", "overlap"} = {}
          /\ disk \in Images /\ disk = stamp /\ disk = image /\ disk' # disk
        => \/ "removed" \in events'
           \/ \E p \in Procs : pc'[p] # pc[p] /\ kind[p] \in {"unchecked", "bare"} ]_vars

\* The sandbox boots "an existing stamped artifact" (README.md, line 44;
\* .mise.toml, line 48): the disk holds what its stamp names, though the image
\* has changed since, unless the disk was written and not stamped.
SandboxIsStamped ==
    events \cap {"retag", "overlap", "unstamped"} = {} =>
        \A p \in Procs : pc[p] = "ready" /\ kind[p] = "sandbox" => disk = stamp

\* Once no more failures come, a command that compares IDs ends with a disk
\* that holds what it asked for, whatever earlier ones left.
Refreshes ==
    \A p \in Procs :
        failures = MaxFailures /\ pc[p] = "compare" /\ kind[p] = "artifact"
            ~> (pc[p] = "ready" /\ disk = image_id[p]) \/ ~StampTells
=============================================================================
