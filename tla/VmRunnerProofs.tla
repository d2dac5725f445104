---------------------------- MODULE VmRunnerProofs ----------------------------
(***************************************************************************)
(* TypeOK, ExitStopsVm and EspSafe of VmRunner, for every way to use the   *)
(* runner and any number of signals.                                       *)
(*                                                                         *)
(* What holds when the process is gone was settled long before: by the     *)
(* steps that set vm_proc and log_tail_proc, by the cleanup() that ran to  *)
(* its end, by the finally clause that unmounted the ESP.  IInv follows    *)
(* each of them from the step on which it rests.                           *)
(***************************************************************************)
EXTENDS VmRunner, TLAPS

\* Where the main thread can be once a cleanup() is over: in a test of the
\* fixture, in a bootstrap whose serial login has caught the exception, or on
\* its way out.  No process is started from there.
Leaving ==
    {"unmount", "unwind", "finally", "exiting", "exited", "use",
     "serial", "reset", "activate"}

\* Where qemu has been started and the assignment is done.
Started == {"follow", "followed", "wait", "serial", "reset", "activate"}

Stopped == vm \in {"none", "dead"}

EspMishaps == {"mounted", "umount"}

\* The processes that cleanup() has to stop are known to it.
VmKnown ==
    /\ vm # "none" => vm_proc \/ main = "popened" \/ "popen" \in mishaps
    /\ main = "popened" /\ cleaned => "popen" \in mishaps
    /\ main \in Started => vm_proc

TailKnown ==
    /\ tail = "running" =>
           tail_proc \/ main = "followed" \/ "follower" \in mishaps
    /\ main = "followed" /\ cleaned => "follower" \in mishaps

\* How far the cleanup() that is running has got.
CleaningDone ==
    /\ cleaning # "no" => cleaned
    /\ cleaning \in {"terminate", "kill", "files"} /\ tail_proc =>
           tail # "running"
    /\ cleaning = "kill" => vm_proc
    /\ cleaning = "files" /\ vm_proc => Stopped

\* What a cleanup() that no signal has cut short leaves.
CleanedUp ==
    cleaned /\ cleaning = "no" =>
        /\ main \in Leaving
        /\ "cleanup" \notin mishaps =>
               /\ main # "activate"
               /\ ~temps
               /\ vm_proc => Stopped
               /\ tail_proc => tail # "running"

\* No run ends without a call of cleanup().
ExitCleaned == main = "exited" => cleaned /\ cleaning = "no"

\* The ESP is mounted inside the try block of inject_loader_kargs() only.
EspInside ==
    esp /\ mishaps \cap EspMishaps = {} =>
        main \in {"patch", "unmount"} /\ cleaning = "no"

EntriesSafe == ~entries => root /\ mishaps \cap EspMishaps # {}

IInv ==
    /\ TypeOK
    /\ VmKnown
    /\ TailKnown
    /\ CleaningDone
    /\ CleanedUp
    /\ ExitCleaned
    /\ EspInside
    /\ EntriesSafe

LEMMA AfterExceptionLeaves ==
    ASSUME NEW m
    PROVE  /\ AfterException(m) \in Leaving
           /\ AfterException(m) \notin Started \ {"reset"}
           /\ AfterException(m) = "reset" => m = "serial"
           /\ AfterException(m) = "exited" => m = "exiting"
  BY DEF AfterException, Leaving, Started

-----------------------------------------------------------------------------
LEMMA InvInit == Init => IInv
<1>. SUFFICES ASSUME Init PROVE IInv
  OBVIOUS
<1>1. mode \in AllModes
  BY RunnerAssumption DEF Init
<1>2. signals \in 0 .. MaxSignals
  BY RunnerAssumption DEF Init
<1>3. TypeOK
  BY <1>1, <1>2 DEF Init, TypeOK, AllTails
<1>. QED
  BY <1>3 DEF Init, IInv, VmKnown, TailKnown, Started, CleaningDone,
     CleanedUp, ExitCleaned, EspInside, EntriesSafe

\* The steps up to the use of the VM.
LEMMA PrepareStep == IInv /\ (Prepare \/ Serial \/ GuestReady) => IInv'
<1>. SUFFICES ASSUME IInv, Prepare \/ Serial \/ GuestReady PROVE IInv'
  OBVIOUS
<1>. USE DEF IInv, TypeOK, VmKnown, TailKnown, CleaningDone, CleanedUp,
       ExitCleaned, EspInside, EntriesSafe, Leaving, Started, Stopped,
       AllTails, procs, Step, Go, At, world, fixed
<1>1. CASE Validate
  BY <1>1 DEF Validate
<1>2. CASE Mount
  BY <1>2 DEF Mount
<1>3. CASE Patch
  BY <1>3 DEF Patch
<1>4. CASE Overlay
  BY <1>4 DEF Overlay
<1>5. CASE Popen
  BY <1>5 DEF Popen
<1>6. CASE RecordVm
  BY <1>6 DEF RecordVm
<1>7. CASE Follow
  BY <1>7 DEF Follow
<1>8. CASE GuestReady
  BY <1>8 DEF GuestReady
<1>9. CASE RecordTail
  BY <1>9 DEF RecordTail
<1>10. CASE StartSerial
  BY <1>10 DEF StartSerial
<1>11. CASE SerialLogsIn
  BY <1>11 DEF SerialLogsIn
<1>12. CASE SerialFails
  BY <1>12 DEF SerialFails
<1>13. CASE SerialAgain
  BY <1>13 DEF SerialAgain
<1>. QED
  BY <1>1, <1>2, <1>3, <1>4, <1>5, <1>6, <1>7, <1>8, <1>9, <1>10, <1>11,
     <1>12, <1>13 DEF Prepare, Serial

\* The ways out of the use of the VM.
LEMMA LeaveStep == IInv /\ (Leave \/ FatalError \/ Unmount \/ Unwind) => IInv'
<1>. SUFFICES ASSUME IInv, Leave \/ FatalError \/ Unmount \/ Unwind PROVE IInv'
  OBVIOUS
<1>. USE DEF IInv, TypeOK, VmKnown, TailKnown, CleaningDone, CleanedUp,
       ExitCleaned, EspInside, EntriesSafe, Leaving, Started, Stopped,
       AllTails, procs, Step, Go, At, world, fixed
<1>1. CASE Leave
  BY <1>1 DEF Leave
<1>2. CASE FatalError
  BY <1>2 DEF FatalError
<1>3. CASE Unmount
  BY <1>3 DEF Unmount, RemoveTree, EspMishaps, Mishaps
<1>4. CASE Unwind
  BY <1>4 DEF Unwind
<1>. QED
  BY <1>1, <1>2, <1>3, <1>4

\* The two calls of cleanup() that no signal makes.
LEMMA CallStep == IInv /\ (Finally \/ AtExit) => IInv'
<1>. SUFFICES ASSUME IInv, Finally \/ AtExit PROVE IInv'
  OBVIOUS
<1>. USE DEF IInv, TypeOK, VmKnown, TailKnown, CleaningDone, CleanedUp,
       ExitCleaned, EspInside, EntriesSafe, Leaving, Started, Stopped,
       AllTails, procs, At, Call, world, fixed
<1>1. CASE Finally
  BY <1>1 DEF Finally
<1>2. CASE AtExit
  BY <1>2 DEF AtExit
<1>. QED
  BY <1>1, <1>2

\* The steps of cleanup().  At the last one everything has been stopped.
LEMMA CleanupStep ==
    IInv /\ (StopTail \/ Terminate \/ Kill \/ RemoveFiles) => IInv'
<1>. SUFFICES ASSUME IInv, StopTail \/ Terminate \/ Kill \/ RemoveFiles
              PROVE  IInv'
  OBVIOUS
<1>. USE DEF IInv, TypeOK, VmKnown, TailKnown, CleaningDone, CleanedUp,
       ExitCleaned, EspInside, EntriesSafe, Leaving, Started, Stopped,
       AllTails, procs, CleanStep, world, fixed
<1>1. CASE StopTail
  BY <1>1 DEF StopTail
<1>2. CASE Terminate
  BY <1>2 DEF Terminate, MustStop
<1>3. CASE Kill
  BY <1>3 DEF Kill
<1>4. CASE RemoveFiles
  <2>1. /\ main' = AfterException(main) /\ tries' \in Nat
        /\ cleaning = "files" /\ cleaning' = "no" /\ ~temps'
        /\ UNCHANGED <<fixed, cleaned, vm, procs, tail, esp, signals, mishaps>>
    BY <1>4 DEF RemoveFiles, Raise
  <2>2. /\ main' \in Leaving /\ main' \notin Started \ {"reset"}
        /\ main' = "reset" => main = "serial"
        /\ main' = "exited" => main = "exiting"
    BY <2>1, AfterExceptionLeaves
  <2>3. temps' = FALSE /\ entries' \in BOOLEAN
    BY <1>4 DEF RemoveFiles, RemoveTree
  <2>4. ~entries' => ~entries \/ (esp /\ root)
    BY <1>4, <2>1 DEF RemoveFiles, RemoveTree
  <2>5. EntriesSafe' /\ EspInside'
    BY <2>1, <2>4
  <2>6. TypeOK'
    BY <2>1, <2>2, <2>3
  <2>7. VmKnown' /\ TailKnown'
    BY <2>1, <2>2
  <2>8. CleaningDone' /\ ExitCleaned' /\ CleanedUp'
    BY <2>1, <2>2
  <2>. QED
    BY <2>5, <2>6, <2>7, <2>8
<1>. QED
  BY <1>1, <1>2, <1>3, <1>4

\* A signal begins the cleanup(), or ends what was running.
LEMMA SignalStep == IInv /\ Signal => IInv'
<1>. SUFFICES ASSUME IInv, Signal PROVE IInv'
  OBVIOUS
<1>1. signals' \in 0 .. MaxSignals
  BY RunnerAssumption DEF Signal, IInv, TypeOK
<1>2. /\ mishaps \subseteq mishaps' /\ mishaps' \subseteq Mishaps
      /\ cleaning # "no" => "cleanup" \in mishaps'
      /\ main = "popened" => "popen" \in mishaps'
      /\ main = "followed" => "follower" \in mishaps'
      /\ esp => "mounted" \in mishaps'
  BY DEF Signal, Mishaps, IInv, TypeOK
<1>3. /\ main # "exited" /\ UNCHANGED <<fixed, vm, temps, esp, entries, procs>>
      /\ tail' \in {tail, "none"}
  BY DEF Signal
<1>4. \/ /\ cleaned /\ cleaned' = cleaned
         /\ cleaning' = "no" /\ main' = AfterException(main)
      \/ /\ ~cleaned /\ cleaned' = TRUE
         /\ cleaning' = "tail" /\ main' = main
  BY DEF Signal, Call, Raise
<1>5. \/ main' = main
      \/ /\ main' \in Leaving /\ main' \notin Started \ {"reset"}
         /\ main' = "reset" => main = "serial"
         /\ main' = "exited" => main = "exiting"
  BY <1>4, AfterExceptionLeaves
<1>6. tries' \in Nat
  BY DEF Signal, Raise, IInv, TypeOK
<1>7. TypeOK'
  BY <1>1, <1>2, <1>3, <1>4, <1>5, <1>6 DEF IInv, TypeOK, Leaving, AllTails,
     procs, fixed
<1>8. VmKnown' /\ TailKnown' /\ EntriesSafe'
  BY <1>2, <1>3, <1>4, <1>5 DEF IInv, VmKnown, TailKnown, EntriesSafe, Leaving,
     Started, procs, fixed
<1>9. CleaningDone' /\ ExitCleaned'
  BY <1>3, <1>4 DEF CleaningDone, ExitCleaned
<1>10. CleanedUp'
  BY <1>2, <1>3, <1>4, AfterExceptionLeaves DEF IInv, CleanedUp, procs,
     Stopped, Started
<1>11. EspInside'
  BY <1>2, <1>3 DEF EspInside, EspMishaps
<1>. QED
  BY <1>7, <1>8, <1>9, <1>10, <1>11 DEF IInv

LEMMA InvStep == IInv /\ [Next]_vars => IInv'
<1>1. IInv /\ VmExits => IInv'
  BY DEF VmExits, IInv, TypeOK, VmKnown, TailKnown, CleaningDone, CleanedUp,
     ExitCleaned, EspInside, EntriesSafe, Stopped, procs, fixed
<1>2. IInv /\ UNCHANGED vars => IInv'
  BY DEF vars, world, procs, fixed, IInv, TypeOK, VmKnown, TailKnown,
     CleaningDone, CleanedUp, ExitCleaned, EspInside, EntriesSafe, Stopped
<1>. QED
  BY <1>1, <1>2, PrepareStep, LeaveStep, CallStep, CleanupStep, SignalStep
     DEF Next, Ending

LEMMA Invariant == Spec => []IInv
  BY InvInit, InvStep, PTL DEF Spec

-----------------------------------------------------------------------------
\* The state of a run keeps its type, whatever signals it receives.
THEOREM TypeCorrect == Spec => []TypeOK
<1>1. IInv => TypeOK
  BY DEF IInv
<1>. QED
  BY <1>1, Invariant, PTL

\* When the process is gone (boot_vm_smoke.py, lines 27-42), qemu and the shell
\* of the log follower have been stopped and nothing temporary is left, unless
\* a signal has cut a cleanup() short or come between a Popen() and the
\* assignment of its result; a serial login that has caught the exception of
\* the handler changes nothing about it.
THEOREM ExitIsClean == Spec => []ExitStopsVm
<1>1. ASSUME IInv, main = "exited" PROVE cleaned /\ cleaning = "no"
  BY <1>1 DEF IInv, ExitCleaned
<1>2. IInv => ExitStopsVm
  BY <1>1 DEF IInv, VmKnown, TailKnown, CleanedUp, Stopped, ExitStopsVm
<1>. QED
  BY <1>2, Invariant, PTL

\* rmtree() of the mount point harms the loader entries only as root and after
\* a signal under the mount or a failed umount (qemu.py, lines 130-133).
THEOREM EspIsSafe == Spec => []EspSafe
<1>1. IInv => EspSafe
  BY DEF IInv, EspInside, EntriesSafe, EspMishaps, EspSafe
<1>. QED
  BY <1>1, Invariant, PTL
=============================================================================
