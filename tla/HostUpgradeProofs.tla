-------------------------- MODULE HostUpgradeProofs --------------------------
(***************************************************************************)
(* Proofs about `mise run host:upgrade', for any number of upgrades, of    *)
(* states of the source tree and of failures, and any root helper.         *)
(***************************************************************************)
EXTENDS HostUpgrade, TLAPS

-----------------------------------------------------------------------------
(***************************************************************************)
(* The inductive invariant.                                                *)
(***************************************************************************)

\* An upgrade that is under way and not overlapped is the only one.
Alone ==
    \A u, v \in Upgrades :
        pc[u] # "idle" /\ u \notin overlapped /\ v # u => pc[v] = "idle"

\* And no killed one has left a command running, unless it is the upgrade's own,
\* which a Ctrl-C has sent into its finally clause.
NoOrphans ==
    \A u \in Upgrades :
        pc[u] \notin {"idle", "finally"} /\ u \notin overlapped => orphans = {}

\* Then what it has built is what it hands on: in the file, in what it has
\* read from it, and in what bootc has staged.
HandsOn ==
    \A u \in Upgrades :
        u \notin overlapped =>
            /\ pc[u] = "read" => iidfile = own[u]
            /\ pc[u] = "switch" => image_id[u] = own[u]
            /\ pc[u] = "reboot" => staged = own[u] /\ own[u] \in store["root"]

IInv == TypeOK /\ Alone /\ NoOrphans /\ HandsOn

LEMMA InvInit == Init => IInv
<1> SUFFICES ASSUME Init PROVE IInv
  OBVIOUS
<1>1. 1 \in Images /\ failures \in 0 .. MaxFailures
  BY UpgradeAssumption DEF Init, Images
<1>2. helper \in AllHelpers
  BY UpgradeAssumption DEF Init
<1>3. TypeOK
  BY <1>1, <1>2 DEF Init, TypeOK
<1>4. Alone /\ NoOrphans /\ HandsOn
  BY DEF Init, Alone, NoOrphans, HandsOn
<1> QED BY <1>3, <1>4 DEF IInv

\* One more failure is within the bound.
LEMMA FailureType ==
    ASSUME TypeOK, failures < MaxFailures, failures' = failures + 1
    PROVE  failures' \in 0 .. MaxFailures
BY UpgradeAssumption DEF TypeOK

\* What an upgrade that is not alone does is of no concern to HandsOn, and one
\* that is alone disturbs no other: it is enough to look at its own step.
LEMMA OneMoves ==
    ASSUME IInv, NEW u \in Upgrades, pc[u] # "idle",
           NEW to \in {"idle", "begin", "build", "iid", "read", "switch", "reboot",
                       "finally"},
           pc' = [pc EXCEPT ![u] = to], UNCHANGED overlapped,
           to # "idle" /\ to # "finally" =>
               pc[u] # "finally" /\ UNCHANGED orphans,
           u \notin overlapped =>
               /\ to = "read" => iidfile' = own'[u]
               /\ to = "switch" => image_id'[u] = own'[u]
               /\ to = "reboot" => staged' = own'[u] /\ own'[u] \in store'["root"]
    PROVE  Alone' /\ NoOrphans' /\ HandsOn'
<1>1. pc'[u] = to /\ \A v \in Upgrades : v # u => pc'[v] = pc[v]
  BY DEF IInv, TypeOK
<1>2. Alone'
  BY DEF IInv, Alone
<1>3. ASSUME NEW v \in Upgrades, v \notin overlapped, v # u PROVE pc'[v] = "idle"
  BY <1>3 DEF IInv, Alone
<1>4. HandsOn'
  BY <1>1, <1>3 DEF HandsOn
<1>5. NoOrphans'
  BY <1>1, <1>3 DEF IInv, NoOrphans
<1> QED BY <1>2, <1>4, <1>5

-----------------------------------------------------------------------------
(***************************************************************************)
(* IInv is inductive: one lemma per kind of step.                          *)
(***************************************************************************)

\* An upgrade begins: whoever is under way is no longer alone.
LEMMA StartStep == ASSUME IInv, NEW u \in Upgrades, Start(u) PROVE IInv'
<1>1. /\ pc[u] = "idle" /\ UNCHANGED <<host, orphans, failures>>
      /\ pc' = [pc EXCEPT ![u] = "begin"]
      /\ own' = [own EXCEPT ![u] = 0] /\ image_id' = [image_id EXCEPT ![u] = 0]
      /\ \/ UnderWay = {} /\ orphans = {} /\ overlapped' = overlapped \ {u}
         \/ overlapped' = (overlapped \cup UnderWay) \cup {u}
  BY DEF Start, Goto
<1>2. pc'[u] = "begin" /\ \A v \in Upgrades : v # u => pc'[v] = pc[v]
  BY <1>1 DEF IInv, TypeOK
<1>3. UnderWay \subseteq Upgrades
  BY DEF UnderWay
<1>4. TypeOK'
  BY <1>1, <1>3 DEF IInv, TypeOK, host
<1>5. ASSUME NEW v \in Upgrades, v # u, v \notin overlapped' PROVE pc[v] = "idle"
  BY <1>1, <1>5 DEF UnderWay
<1>6. ASSUME u \notin overlapped'
      PROVE  orphans' = {} /\ \A v \in Upgrades : pc[v] = "idle"
  BY <1>1, <1>6 DEF UnderWay
<1>7. Alone'
  BY <1>2, <1>5, <1>6 DEF Alone
<1>9. NoOrphans'
  BY <1>2, <1>5, <1>6 DEF NoOrphans
<1>8. HandsOn'
  BY <1>2, <1>5 DEF HandsOn
<1> QED BY <1>4, <1>7, <1>8, <1>9 DEF IInv

\* The commands, from the first rm -f to the end.
LEMMA RunStep == ASSUME IInv, NEW u \in Upgrades, Run(u) PROVE IInv'
<1> USE DEF Step, Goto, mine, host
<1>1. CASE RemoveFirst(u)
  <2>1. TypeOK'
    BY <1>1 DEF RemoveFirst, IInv, TypeOK
  <2>2. Alone' /\ NoOrphans' /\ HandsOn'
    BY <1>1, OneMoves DEF RemoveFirst
  <2> QED BY <2>1, <2>2 DEF IInv
<1>2. CASE Build(u)
  <2>1. PICK who \in Identities : store' = [store EXCEPT ![who] = @ \cup {tree}]
    BY <1>2 DEF Build
  <2>2. store' \in [{"root", "user"} -> SUBSET Images]
    BY <2>1 DEF IInv, TypeOK
  <2>3. TypeOK'
    BY <1>2, <2>2 DEF Build, IInv, TypeOK
  <2>4. Alone' /\ NoOrphans' /\ HandsOn'
    BY <1>2, OneMoves DEF Build
  <2> QED BY <2>3, <2>4 DEF IInv
<1>3. CASE WriteIid(u)
  <2>1. TypeOK'
    BY <1>3 DEF WriteIid, IInv, TypeOK
  <2>2. Alone' /\ NoOrphans' /\ HandsOn'
    BY <1>3, OneMoves DEF WriteIid
  <2> QED BY <2>1, <2>2 DEF IInv
<1>4. CASE ReadImageId(u) /\ Readable
  <2>1. /\ pc[u] = "read" /\ pc' = [pc EXCEPT ![u] = "switch"]
        /\ image_id' = [image_id EXCEPT ![u] = iidfile]
        /\ UNCHANGED <<helper, tree, booted, orphans, overlapped, failures, store,
                       iidfile, staged, rebooting, own>>
        /\ iidfile \in Images \cup {0}
    BY <1>4 DEF ReadImageId, Readable, IInv, TypeOK
  <2>2. TypeOK'
    BY <2>1 DEF IInv, TypeOK
  <2>3. u \notin overlapped => image_id'[u] = own[u]
    BY <2>1 DEF IInv, TypeOK, HandsOn
  <2>4. Alone' /\ NoOrphans' /\ HandsOn'
    BY <2>1, <2>3, OneMoves
  <2> QED BY <2>2, <2>4 DEF IInv
<1>5. CASE ReadImageId(u) /\ ~Readable
  <2>1. TypeOK'
    BY <1>5 DEF ReadImageId, IInv, TypeOK
  <2>2. Alone' /\ NoOrphans' /\ HandsOn'
    BY <1>5, OneMoves DEF ReadImageId
  <2> QED BY <2>1, <2>2 DEF IInv
<1>6. CASE Switch(u)
  <2>1. /\ pc[u] = "switch"
        /\ UNCHANGED <<helper, tree, booted, orphans, overlapped, failures, store,
                       iidfile, rebooting, own, image_id>>
        /\ \/ /\ image_id[u] \in store["root"] /\ staged' = image_id[u]
              /\ pc' = [pc EXCEPT ![u] = "reboot"]
           \/ UNCHANGED staged /\ pc' = [pc EXCEPT ![u] = "finally"]
    BY <1>6 DEF Switch
  <2>2. TypeOK'
    BY <2>1 DEF IInv, TypeOK
  <2>3. u \notin overlapped => image_id[u] = own[u]
    BY <2>1 DEF IInv, HandsOn
  <2>4. Alone' /\ NoOrphans' /\ HandsOn'
    BY <2>1, <2>3, OneMoves
  <2> QED BY <2>2, <2>4 DEF IInv
<1>7. CASE Reboot(u)
  <2>1. TypeOK'
    BY <1>7 DEF Reboot, IInv, TypeOK
  <2>2. Alone' /\ NoOrphans' /\ HandsOn'
    BY <1>7, OneMoves DEF Reboot
  <2> QED BY <2>1, <2>2 DEF IInv
<1>8. CASE Finally(u)
  <2>1. TypeOK'
    BY <1>8 DEF Finally, IInv, TypeOK
  <2>2. Alone' /\ NoOrphans' /\ HandsOn'
    BY <1>8, OneMoves DEF Finally
  <2> QED BY <2>1, <2>2 DEF IInv
<1> QED BY <1>1, <1>2, <1>3, <1>4, <1>5, <1>6, <1>7, <1>8 DEF Run

\* A command fails, or the upgrade is killed.
LEMMA FailureStep ==
    ASSUME IInv, NEW u \in Upgrades, BuildFails(u) \/ Killed(u) PROVE IInv'
<1>1. PICK to \in {"idle", "finally"} :
          /\ pc[u] # "idle" /\ pc' = [pc EXCEPT ![u] = to]
          /\ failures < MaxFailures /\ failures' = failures + 1
          /\ UNCHANGED <<host, mine, overlapped>>
  BY DEF BuildFails, AfterFailedBuild, Killed, Goto
<1>2. pc[u] # "idle" /\ pc[u] # "read" => Command(u) \in Commands
  BY DEF Command, Commands, IInv, TypeOK
<1>3. orphans' \subseteq Commands
  BY <1>1, <1>2 DEF BuildFails, Killed, IInv, TypeOK
<1>4. TypeOK'
  BY <1>1, <1>3, FailureType DEF IInv, TypeOK, host, mine
<1>5. Alone' /\ NoOrphans' /\ HandsOn'
  BY <1>1, OneMoves
<1> QED BY <1>4, <1>5 DEF IInv

\* What a killed upgrade has left running moves on: then no upgrade that is on
\* its way to a reboot is alone.
LEMMA OrphanStep == ASSUME IInv, NEW c \in orphans, OrphanMoves(c) PROVE IInv'
<1>1. c \in Commands /\ c.image \in Images \cup {0}
  BY DEF IInv, TypeOK, Commands
<1>2. /\ UNCHANGED <<helper, tree, booted, pc, mine, overlapped, failures>>
      /\ \/ orphans' = orphans \ {c}
         \/ orphans' = (orphans \ {c}) \cup {[does |-> "iid", image |-> tree]}
  BY DEF OrphanMoves, Orphan, OrphanRemoves, OrphanBuilds, OrphanWritesIid,
         OrphanSwitches, OrphanReboots, OrphanEnds
<1>3. orphans' \subseteq Commands
  <2>1. [does |-> "iid", image |-> tree] \in Commands
    BY DEF Commands, IInv, TypeOK
  <2> QED BY <1>2, <2>1 DEF IInv, TypeOK
<1>4. store' \in [{"root", "user"} -> SUBSET Images]
  <2>1. CASE OrphanBuilds(c)
    <3>1. PICK who \in Identities : store' = [store EXCEPT ![who] = @ \cup {tree}]
      BY <2>1 DEF OrphanBuilds
    <3> QED BY <3>1 DEF IInv, TypeOK
  <2>2. CASE UNCHANGED store
    BY <2>2 DEF IInv, TypeOK
  <2> QED BY <2>1, <2>2 DEF OrphanMoves, OrphanRemoves, OrphanWritesIid,
             OrphanSwitches, OrphanReboots, OrphanEnds
<1>5. /\ iidfile' \in Images \cup {0, NoFile}
      /\ staged' \in Images \cup {0}
      /\ rebooting' \in BOOLEAN
  <2>1. c.image \in store["root"] => c.image \in Images
    BY DEF IInv, TypeOK
  <2> QED BY <1>1, <2>1 DEF OrphanMoves, OrphanRemoves, OrphanBuilds,
             OrphanWritesIid, OrphanSwitches, OrphanReboots, OrphanEnds, IInv, TypeOK
<1>6. TypeOK'
  BY <1>2, <1>3, <1>4, <1>5 DEF IInv, TypeOK, mine
<1>7. \A u \in Upgrades : pc[u] \notin {"idle", "finally"} => u \in overlapped
  BY DEF IInv, NoOrphans
<1>8. Alone'
  BY <1>2 DEF IInv, Alone
<1>9. NoOrphans' /\ HandsOn'
  BY <1>2, <1>7 DEF NoOrphans, HandsOn
<1> QED BY <1>6, <1>8, <1>9 DEF IInv

\* The user commits, or the host goes down.
LEMMA OutsideStep == ASSUME IInv, Edit \/ HostReboots \/ UNCHANGED vars PROVE IInv'
<1>1. CASE Edit
  <2>1. tree' \in Images
    BY <1>1, UpgradeAssumption DEF Edit, IInv, TypeOK, Images
  <2> QED BY <1>1, <2>1 DEF Edit, IInv, TypeOK, Alone, NoOrphans, HandsOn, mine
<1>2. CASE HostReboots
  <2>1. TypeOK'
    BY <1>2 DEF HostReboots, IInv, TypeOK, mine
  <2>2. \A u \in Upgrades : pc'[u] = "idle"
    BY <1>2 DEF HostReboots
  <2> QED BY <2>1, <2>2 DEF IInv, Alone, NoOrphans, HandsOn
<1>3. CASE UNCHANGED vars
  BY <1>3 DEF vars, host, mine, IInv, TypeOK, Alone, NoOrphans, HandsOn
<1> QED BY <1>1, <1>2, <1>3

LEMMA Invariant == Spec => []IInv
<1>1. IInv /\ [Next]_vars => IInv'
  BY StartStep, RunStep, FailureStep, OrphanStep, OutsideStep DEF Next
<1> QED BY <1>1, InvInit, PTL DEF Spec

-----------------------------------------------------------------------------
(***************************************************************************)
(* The theorems.                                                           *)
(***************************************************************************)

\* Every variable of the upgrades and of the host keeps its type.
THEOREM TypeCorrect == Spec => []TypeOK
<1>1. IInv => TypeOK
  BY DEF IInv
<1> QED BY <1>1, Invariant, PTL

\* An upgrade that has been alone reboots the host into the image it has built
\* (host_upgrade.py, main()), whatever earlier ones, killed ones too, have left
\* in the iidfile, the storages and staged.  Alone means that no other upgrade has
\* been under way since it began, nor a command of a killed one: those go on
\* writing the file and staging images, and the host may come up with theirs.
THEOREM RebootsIntoOwn == Spec => []SwitchesOwn
<1>1. IInv => SwitchesOwn
  BY DEF IInv, HandsOn, SwitchesOwn
<1> QED BY <1>1, Invariant, PTL
=============================================================================
