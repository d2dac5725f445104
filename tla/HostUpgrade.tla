----------------------------- MODULE HostUpgrade -----------------------------
(***************************************************************************)
(* `mise run host:upgrade': main() of scripts/host_upgrade.py, with the    *)
(* choice of a root helper in scripts/host_ops.py.                         *)
(*                                                                         *)
(* Upgrades share the image storage, one file for the image ID, what bootc *)
(* has staged and the host, which one of them reboots under the others.    *)
(* An image stands for the state of the source tree it was built from.     *)
(***************************************************************************)
EXTENDS Naturals

CONSTANTS
    Upgrades,       \* upgrades that may be under way at one time
    NoFile,         \* there is no iidfile
    Helpers,        \* the ways this host may offer to become root
    MaxTree,        \* bound: states of the source tree
    MaxFailures     \* bound: commands that fail, upgrades that are killed

AllHelpers == {"uid 0", "sudo", "run0", "systemd-run"}

\* 0 is an empty file, an upgrade without an image, or the image the host was
\* installed with.
Images == 1 .. MaxTree

ASSUME UpgradeAssumption ==
    /\ Helpers \subseteq AllHelpers
    /\ MaxTree \in Nat \ {0}
    /\ MaxFailures \in Nat
    /\ NoFile \notin Nat

VARIABLES
    helper,     \* the first entry of root_prefix() that is there
    tree,       \* the source tree
    store,      \* what each user's container storage holds
    iidfile,
    staged,     \* the deployment bootc has prepared
    booted,
    rebooting,  \* systemd has been asked to reboot
    pc,
    own,        \* the image upgrade u has built
    image_id,   \* what it has read from the file
    orphans,    \* the commands that killed upgrades have left running
    overlapped, \* history: the upgrades that were not alone
    failures

host == <<helper, tree, store, iidfile, staged, booted, rebooting>>
mine == <<own, image_id>>
vars == <<host, pc, mine, orphans, overlapped, failures>>

\* A command: what it does is named by the label of main() that it runs at.
Commands == [does : {"begin", "build", "iid", "switch", "reboot", "finally"},
             image : Images \cup {0}]

TypeOK ==
    /\ helper \in AllHelpers
    /\ tree \in Images
    /\ store \in [{"root", "user"} -> SUBSET Images]
    /\ iidfile \in Images \cup {0, NoFile}
    /\ staged \in Images \cup {0}
    /\ booted \in Images \cup {0}
    /\ rebooting \in BOOLEAN
    /\ pc \in [Upgrades -> {"idle", "begin", "build", "iid", "read", "switch",
                            "reboot", "finally"}]
    /\ own \in [Upgrades -> Images \cup {0}]
    /\ image_id \in [Upgrades -> Images \cup {0}]
    /\ orphans \subseteq Commands
    /\ overlapped \subseteq Upgrades
    /\ failures \in 0 .. MaxFailures

Init ==
    /\ helper \in Helpers
    /\ tree = 1
    /\ store = [who \in {"root", "user"} |-> {}]
    /\ iidfile = NoFile
    /\ staged = 0
    /\ booted = 0
    /\ rebooting = FALSE
    /\ pc = [u \in Upgrades |-> "idle"]
    /\ own = [u \in Upgrades |-> 0]
    /\ image_id = [u \in Upgrades |-> 0]
    /\ orphans = {}
    /\ overlapped = {}
    /\ failures = 0

Goto(u, label) == pc' = [pc EXCEPT ![u] = label]

Step(u, from, to) ==
    /\ pc[u] = from
    /\ Goto(u, to)
    /\ UNCHANGED <<helper, tree, booted, orphans, overlapped, failures>>

\* (mutant) sudo that would ask for a password is passed over
MutIdentities == {"root", "user"}

\* root_prefix() is asked again for every command.  What it finds installed
\* stays, but systemd-run is used only if it answers now, and without a helper
\* the command runs as the user.
Identities == IF helper = "systemd-run" THEN {"root", "user"} ELSE {"root"}

UnderWay == {u \in Upgrades : pc[u] # "idle"}

\* The user commits.
Edit ==
    /\ tree < MaxTree
    /\ tree' = tree + 1
    /\ UNCHANGED <<helper, store, iidfile, staged, booted, rebooting, pc, mine,
                   orphans, overlapped, failures>>

\* can_run_as_root() has answered yes, and the host is not going down.
Start(u) ==
    /\ pc[u] = "idle"
    /\ ~rebooting
    /\ Goto(u, "begin")
    /\ own' = [own EXCEPT ![u] = 0]
    /\ image_id' = [image_id EXCEPT ![u] = 0]
    /\ overlapped' =
           IF UnderWay = {} /\ orphans = {}
           THEN overlapped \ {u}
           ELSE overlapped \cup UnderWay \cup {u}
    /\ UNCHANGED <<host, orphans, failures>>

\* rm -f of the iidfile; whether it fails is not asked.
RemoveFirst(u) ==
    /\ Step(u, "begin", "build")
    /\ iidfile' \in {NoFile, iidfile}
    /\ UNCHANGED <<store, staged, rebooting, mine>>

\* podman build: the image is there, and the iidfile has been opened.
Build(u) ==
    /\ Step(u, "build", "iid")
    /\ \E who \in Identities : store' = [store EXCEPT ![who] = @ \cup {tree}]
    /\ own' = [own EXCEPT ![u] = tree]
    /\ iidfile' = 0
    /\ UNCHANGED <<staged, rebooting, image_id>>

WriteIid(u) ==
    /\ Step(u, "iid", "read")
    /\ iidfile' = own[u]
    /\ UNCHANGED <<store, staged, rebooting, mine>>

\* (mutant) check=True is missing
MutAfterFailedBuild == "read"

\* CalledProcessError: the finally clause is next.
AfterFailedBuild == "finally"

BuildFails(u) ==
    /\ pc[u] \in {"build", "iid"}
    /\ failures < MaxFailures
    /\ failures' = failures + 1
    /\ Goto(u, AfterFailedBuild)
    /\ UNCHANGED <<host, mine, orphans, overlapped>>

\* (mutant) the other upgrade's removal is not noticed
MutReadable == TRUE

Readable == iidfile # NoFile

ReadImageId(u) ==
    IF Readable
    THEN /\ Step(u, "read", "switch")
         /\ image_id' = [image_id EXCEPT ![u] = iidfile]
         /\ UNCHANGED <<store, iidfile, staged, rebooting, own>>
    ELSE /\ Step(u, "read", "finally")
         /\ UNCHANGED <<store, iidfile, staged, rebooting, mine>>

\* bootc switch: root only, and only to an image in root's storage.
Switch(u) ==
    \E who \in Identities :
        /\ IF who = "root" /\ image_id[u] \in store["root"]
           THEN Step(u, "switch", "reboot") /\ staged' = image_id[u]
           ELSE Step(u, "switch", "finally") /\ UNCHANGED staged
        /\ UNCHANGED <<store, iidfile, rebooting, mine>>

Reboot(u) ==
    /\ Step(u, "reboot", "finally")
    /\ rebooting' = TRUE
    /\ UNCHANGED <<store, iidfile, staged, mine>>

\* The finally clause, and the end.
Finally(u) ==
    /\ Step(u, "finally", "idle")
    /\ iidfile' \in {NoFile, iidfile}
    /\ UNCHANGED <<store, staged, rebooting, mine>>

\* Ctrl-C, which the finally clause outlives, SIGTERM or SIGKILL.  They end
\* python; the command it was waiting for may end too, or go on without it: as
\* root it is out of the reach of the user's signals, and with systemd-run it is
\* a unit of its own.
Command(u) ==
    [does |-> pc[u],
     image |-> IF pc[u] = "switch" THEN image_id[u] ELSE own[u]]

Killed(u) ==
    /\ pc[u] # "idle"
    /\ failures < MaxFailures
    /\ failures' = failures + 1
    /\ \/ Goto(u, "idle")
       \/ pc[u] \notin {"begin", "finally"} /\ Goto(u, "finally")
    /\ \/ UNCHANGED orphans
       \/ pc[u] # "read" /\ orphans' = orphans \cup {Command(u)}
    /\ UNCHANGED <<host, mine, overlapped>>

\* What such a command still does, as in the actions above, or it fails.
Orphan(c, does) ==
    /\ c.does \in does
    /\ UNCHANGED <<helper, tree, booted, pc, mine, overlapped, failures>>

OrphanRemoves(c) ==
    /\ Orphan(c, {"begin", "finally"})
    /\ iidfile' = NoFile
    /\ orphans' = orphans \ {c}
    /\ UNCHANGED <<store, staged, rebooting>>

OrphanBuilds(c) ==
    /\ Orphan(c, {"build"})
    /\ \E who \in Identities : store' = [store EXCEPT ![who] = @ \cup {tree}]
    /\ iidfile' = 0
    /\ orphans' = (orphans \ {c}) \cup {[does |-> "iid", image |-> tree]}
    /\ UNCHANGED <<staged, rebooting>>

OrphanWritesIid(c) ==
    /\ Orphan(c, {"iid"})
    /\ iidfile' = c.image
    /\ orphans' = orphans \ {c}
    /\ UNCHANGED <<store, staged, rebooting>>

OrphanSwitches(c) ==
    /\ Orphan(c, {"switch"})
    /\ c.image \in store["root"]
    /\ staged' = c.image
    /\ orphans' = orphans \ {c}
    /\ UNCHANGED <<store, iidfile, rebooting>>

OrphanReboots(c) ==
    /\ Orphan(c, {"reboot"})
    /\ rebooting' = TRUE
    /\ orphans' = orphans \ {c}
    /\ UNCHANGED <<store, iidfile, staged>>

OrphanEnds(c) ==
    /\ Orphan(c, {c.does})
    /\ orphans' = orphans \ {c}
    /\ UNCHANGED <<store, iidfile, staged, rebooting>>

OrphanMoves(c) ==
    \/ OrphanRemoves(c) \/ OrphanBuilds(c) \/ OrphanWritesIid(c)
    \/ OrphanSwitches(c) \/ OrphanReboots(c) \/ OrphanEnds(c)

\* The host goes down under whatever is running; /var/tmp keeps the iidfile.
HostReboots ==
    /\ rebooting
    /\ rebooting' = FALSE
    /\ booted' = IF staged = 0 THEN booted ELSE staged
    /\ pc' = [u \in Upgrades |-> "idle"]
    /\ orphans' = {}
    /\ UNCHANGED <<helper, tree, store, iidfile, staged, mine, overlapped,
                   failures>>

Run(u) ==
    \/ RemoveFirst(u) \/ Build(u) \/ WriteIid(u) \/ ReadImageId(u)
    \/ Switch(u) \/ Reboot(u) \/ Finally(u)

Next ==
    \/ Edit
    \/ HostReboots
    \/ \E u \in Upgrades : Start(u) \/ Run(u) \/ BuildFails(u) \/ Killed(u)
    \/ \E c \in orphans : OrphanMoves(c)

Spec ==
    /\ Init /\ [][Next]_vars
    /\ \A u \in Upgrades : WF_vars(Run(u))
    /\ WF_vars(HostReboots)

-----------------------------------------------------------------------------
\* "Build the image, switch the host with bootc, and reboot" (host_upgrade.py,
\* line 12): the host that an upgrade reboots comes up with the image that
\* upgrade has built, whatever an earlier one left in the iidfile, in the
\* storages and staged, unless another upgrade was under way, or a command that
\* a killed one had left running.
SwitchesOwn ==
    \A u \in Upgrades :
        pc[u] = "reboot" /\ u \notin overlapped =>
            /\ staged = own[u]
            /\ own[u] \in store["root"]

\* When nothing fails any more, an upgrade that has begun to build and stays
\* alone ends with the host running what it has built.  With systemd-run it may
\* not: the build and the switch may be done by different users.
Upgraded ==
    \A u \in Upgrades :
        pc[u] = "begin" /\ failures = MaxFailures /\ u \notin overlapped ~>
            \/ booted = own[u] /\ booted # 0
            \/ u \in overlapped
            \/ helper = "systemd-run"
=============================================================================
