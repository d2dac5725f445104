------------------------------ MODULE VmRunner ------------------------------
(***************************************************************************)
(* One VM smoke run: BootVmSmoke of scripts/boot_vm_smoke.py with          *)
(* prepare_qemu_runtime(), inject_loader_kargs(), start_vm() (qemu.py) and *)
(* cleanup() (runtime.py), run as a script or as the pytest fixture        *)
(* qemu_guest() of tests/support/vm.py.                                    *)
(*                                                                         *)
(* cleanup() is called from three places -- a signal handler, the finally  *)
(* of the fixture, atexit -- and runs at most once.  The handler runs in   *)
(* the main thread, between any two steps of what it interrupts, and ends  *)
(* by raising SystemExit there; that may be another cleanup(), or a serial *)
(* login of bootstrap_graphical_session() (graphical.py), which catches it *)
(* and goes on.                                                            *)
(***************************************************************************)
EXTENDS Naturals

CONSTANTS
    Modes,          \* how the runner is used, a subset of AllModes
    Tries,          \* serial logins that are tried
    MaxSignals      \* bound: SIGINT and SIGTERM the run receives

AllModes ==
    {"script",   \* run(): interactive mode, or tests in a child process
     "fixture",  \* pytest --bootc-vm
     "keep"}     \* pytest --bootc-vm --bootc-vm-keep

ASSUME RunnerAssumption ==
    /\ Modes \subseteq AllModes
    /\ Tries \in Nat
    /\ MaxSignals \in Nat

VARIABLES
    mode,
    root,       \* the user may delete what root's mount shows
    main,       \* where the main thread is, or where it was interrupted
    tries,      \* serial logins that have failed
    cleaning,   \* the step of the cleanup() that is running, or "no"
    cleaned,    \* runner._cleaned
    vm,         \* the qemu process
    vm_proc,    \* state.vm_proc is set
    tail,       \* the log follower, see AllTails
    tail_proc,  \* state.log_tail_proc is set
    temps,      \* temporary files exist, other than the two logs
    esp,        \* the ESP of bootable.img is mounted on the temporary directory
    entries,    \* the loader entries on it still exist
    signals,
    mishaps     \* history: a subset of Mishaps

\* The log follower is a shell that runs `tail -F | perl | sed'.
AllTails ==
    {"none",
     "running",
     "left"}    \* the shell is gone, the three programs live on

\* cleanup   a signal has cut a cleanup() short
\* swallowed the same, and a serial login has caught its SystemExit
\* popen     a signal came while the Popen() of qemu had not returned
\* follower  the same of the log follower
\* mounted   a signal came while the ESP was mounted
\* umount    umount has failed
Mishaps == {"cleanup", "swallowed", "popen", "follower", "mounted", "umount"}

world == <<vm, tail, temps, esp, entries>>
fixed == <<mode, root>>
procs == <<vm_proc, tail_proc>>
vars  ==
    <<fixed, main, tries, cleaning, cleaned, world, procs, signals, mishaps>>

TypeOK ==
    /\ mode \in AllModes
    /\ main \in {"validate", "mount", "patch", "unmount", "overlay", "popen",
                 "popened", "follow", "followed", "wait", "serial", "reset",
                 "activate", "use", "unwind", "finally", "exiting", "exited"}
    /\ tries \in Nat
    /\ cleaning \in {"no", "tail", "terminate", "kill", "files"}
    /\ (cleaning # "no" => cleaned)
    /\ vm \in {"none", "running", "stopping", "dead"}
    /\ tail \in AllTails
    /\ {root, cleaned, vm_proc, tail_proc, temps, esp, entries}
           \subseteq BOOLEAN
    /\ mishaps \subseteq Mishaps
    /\ signals \in 0 .. MaxSignals

Init ==
    /\ mode \in Modes
    /\ root \in BOOLEAN
    /\ main = "validate"
    /\ tries = 0
    /\ cleaning = "no"
    /\ cleaned = FALSE
    /\ vm = "none"
    /\ vm_proc = FALSE
    /\ tail = "none"
    /\ tail_proc = FALSE
    /\ temps = FALSE
    /\ esp = FALSE
    /\ entries = TRUE
    /\ signals = 0
    /\ mishaps = {}

\* The main thread is at `label', not inside a cleanup().
At(label) == main = label /\ cleaning = "no"

Go(from, to) ==
    /\ At(from)
    /\ main' = to
    /\ UNCHANGED <<fixed, cleaning, cleaned, signals>>

Step(from, to) == Go(from, to) /\ UNCHANGED <<tries, mishaps>>

-----------------------------------------------------------------------------
(***************************************************************************)
(* prepare_and_start()                                                     *)
(***************************************************************************)

\* validate_environment() and ensure_image_and_bootable() have passed; the
\* loader entries are patched or the configuration leaves them alone.
Validate ==
    /\ \E to \in {"mount", "overlay"} : Step("validate", to)
    /\ UNCHANGED <<world, procs>>

Mount ==
    /\ Step("mount", "patch")
    /\ temps' = TRUE
    /\ esp' = TRUE
    /\ UNCHANGED <<vm, tail, entries, procs>>

Patch ==
    /\ Step("patch", "unmount")
    /\ UNCHANGED <<world, procs>>

\* rmtree() of a directory, which empties what is mounted there.
\* (mutant) the directory is removed before it is unmounted
MutRemoveTree == entries' = (entries /\ ~(esp /\ root))

RemoveTree == entries' = (entries /\ ~(esp' /\ root))

\* The finally clause: umount and losetup -d, neither checked, and rmtree.
\* An exception that was on its way goes on.
Unmount ==
    /\ \E to \in IF cleaned THEN {"unwind"} ELSE {"overlay", "unwind"} :
           Go("unmount", to) /\ UNCHANGED tries
    /\ esp' \in {FALSE, esp}
    /\ mishaps' = mishaps \cup IF esp' THEN {"umount"} ELSE {}
    /\ RemoveTree
    /\ UNCHANGED <<vm, tail, temps, procs>>

Overlay ==
    /\ Step("overlay", "popen")
    /\ temps' = TRUE
    /\ UNCHANGED <<vm, tail, esp, entries, procs>>

Popen ==
    /\ Step("popen", "popened")
    /\ vm' = "running"
    /\ UNCHANGED <<tail, temps, esp, entries, procs>>

RecordVm ==
    /\ Step("popened", "follow")
    /\ vm_proc' = TRUE
    /\ UNCHANGED <<world, tail_proc>>

\* The log is followed only if the configuration says so.
Follow ==
    \/ Step("follow", "wait") /\ UNCHANGED <<world, procs>>
    \/ /\ Step("follow", "followed")
       /\ tail' = "running"
       /\ UNCHANGED <<vm, temps, esp, entries, procs>>

RecordTail ==
    /\ Step("followed", "wait")
    /\ tail_proc' = TRUE
    /\ UNCHANGED <<world, vm_proc>>

\* The graphical bootstrap gets to its serial login.
StartSerial ==
    /\ Step("wait", "serial")
    /\ temps' = TRUE
    /\ UNCHANGED <<vm, tail, esp, entries, procs>>

SerialLogsIn ==
    /\ Step("serial", "activate")
    /\ vm \in {"running", "stopping"}
    /\ UNCHANGED <<world, procs>>

\* SystemExit: a prompt is late, the login is rejected, nobody listens.
SerialFails ==
    /\ Go("serial", "reset")
    /\ tries' = tries + 1
    /\ UNCHANGED <<world, procs, mishaps>>

\* The reset command and the sleep are over.
SerialAgain ==
    /\ Step("reset", IF tries < Tries THEN "serial" ELSE "unwind")
    /\ UNCHANGED <<world, procs>>

\* SSH answers, and the bootstrap, if there is one, is through; credentials
\* and logs have been written on the way.
GuestReady ==
    /\ \E from \in {"wait", "activate"} : Step(from, "use")
    /\ vm \in {"running", "stopping"}
    /\ temps' = TRUE
    /\ UNCHANGED <<vm, tail, esp, entries, procs>>

\* The VM has been used, or one of the steps so far has raised; an exception
\* in inject_loader_kargs() passes through its finally clause.
Leave ==
    /\ \/ \E from \in {"validate", "mount", "overlay", "popen", "follow",
                       "wait", "serial", "reset", "activate", "use"} :
              Step(from, "unwind")
       \/ Step("patch", "unmount")
    /\ UNCHANGED <<world, procs>>

\* run_pytest() finds a fatal error in qemu's log: it sends qemu a SIGTERM and
\* returns.
FatalError ==
    /\ mode = "script"
    /\ vm = "running"
    /\ vm' = "stopping"
    /\ Step("use", "unwind")
    /\ UNCHANGED <<tail, temps, esp, entries, procs>>

-----------------------------------------------------------------------------
(***************************************************************************)
(* The end of the run, and cleanup().                                      *)
(***************************************************************************)

\* (mutant) the flag is not set first
MutCall == cleaned' = cleaned /\ cleaning' = "tail"

\* The flag is set first: a call during another one does nothing.
Call == cleaned' = TRUE /\ cleaning' = "tail"

Unwind ==
    /\ Step("unwind", IF mode = "script" THEN "exiting" ELSE "finally")
    /\ UNCHANGED <<world, procs>>

\* The fixture's finally: cleanup() unless --bootc-vm-keep was given.
Finally ==
    /\ At("finally")
    /\ IF mode = "keep" \/ cleaned
       THEN main' = "exiting" /\ UNCHANGED <<cleaning, cleaned>>
       ELSE Call /\ UNCHANGED main
    /\ UNCHANGED <<fixed, tries, world, procs, signals, mishaps>>

\* The cleanup() that __init__ registered with atexit.
AtExit ==
    /\ At("exiting")
    /\ IF cleaned
       THEN main' = "exited" /\ UNCHANGED <<cleaning, cleaned>>
       ELSE Call /\ UNCHANGED main
    /\ UNCHANGED <<fixed, tries, world, procs, signals, mishaps>>

\* (mutant) the handler does not raise SystemExit
MutAfterException(m) == m

\* Where a SystemExit raised at m takes the main thread.  In the tests of the
\* fixture it is one test's failure to pytest, which goes on with the next;
\* in a serial login it is a failed login.
AfterException(m) ==
    CASE m = "patch"   -> "unmount"
      [] m = "serial"  -> "reset"
      [] m = "finally" -> "exiting"
      [] m = "exiting" -> "exited"
      [] m = "use" /\ mode # "script" -> "use"
      [] OTHER         -> "unwind"

Raise ==
    /\ main' = AfterException(main)
    /\ tries' = IF main = "serial" THEN tries + 1 ELSE tries

CleanStep(from, to) ==
    /\ cleaning = from
    /\ cleaning' = to
    /\ UNCHANGED <<fixed, main, tries, cleaned, procs, signals, mishaps>>

\* terminate() reaches the shell, not the programs it runs.
StopTail ==
    /\ CleanStep("tail", "terminate")
    /\ tail' = IF tail_proc /\ tail = "running" THEN "left" ELSE tail
    /\ UNCHANGED <<vm, temps, esp, entries>>

\* (mutant) a VM that has been sent a SIGTERM is taken for a dead one
MutMustStop == vm_proc /\ vm = "running"

MustStop == vm_proc /\ vm \in {"running", "stopping"}

Terminate ==
    /\ IF MustStop
       THEN CleanStep("terminate", "kill") /\ vm' = "stopping"
       ELSE CleanStep("terminate", "files") /\ UNCHANGED vm
    /\ UNCHANGED <<tail, temps, esp, entries>>

\* wait(timeout=5), then kill().
Kill ==
    /\ CleanStep("kill", "files")
    /\ vm' = "dead"
    /\ UNCHANGED <<tail, temps, esp, entries>>

\* Temporary files and directories go, and cleanup() returns; the handler then
\* raises SystemExit.
RemoveFiles ==
    /\ cleaning = "files"
    /\ temps' = FALSE
    /\ UNCHANGED esp
    /\ RemoveTree
    /\ cleaning' = "no"
    /\ Raise
    /\ UNCHANGED <<fixed, cleaned, vm, procs, tail, signals, mishaps>>

-----------------------------------------------------------------------------
\* SIGINT or SIGTERM.  The first one runs cleanup(), unless a finally or
\* atexit has begun one; otherwise the handler's call does nothing and its
\* SystemExit ends whatever was running, a cleanup() included.  A SIGINT of
\* the terminal goes to the programs of the log follower as well.
Signal ==
    /\ main # "exited"
    /\ signals < MaxSignals
    /\ signals' = signals + 1
    /\ mishaps' = mishaps
           \cup (IF cleaning # "no" THEN {"cleanup"} ELSE {})
           \cup (IF cleaning # "no" /\ main = "serial"
                 THEN {"swallowed"} ELSE {})
           \cup (IF main = "popened" THEN {"popen"} ELSE {})
           \cup (IF main = "followed" THEN {"follower"} ELSE {})
           \cup (IF esp THEN {"mounted"} ELSE {})
    /\ IF cleaned
       THEN cleaning' = "no" /\ Raise /\ UNCHANGED cleaned
       ELSE Call /\ UNCHANGED <<main, tries>>
    /\ tail' \in {tail, "none"}
    /\ UNCHANGED <<fixed, vm, temps, esp, entries, procs>>

\* The guest powers off, qemu fails, or qemu answers SIGTERM.
VmExits ==
    /\ vm \in {"running", "stopping"}
    /\ vm' = "dead"
    /\ UNCHANGED <<fixed, main, tries, cleaning, cleaned, tail, temps, esp,
                   entries, procs, signals, mishaps>>

Prepare ==
    \/ Validate \/ Mount \/ Patch \/ Overlay
    \/ Popen \/ RecordVm \/ Follow \/ RecordTail \/ StartSerial

Serial == SerialLogsIn \/ SerialFails \/ SerialAgain

Ending ==
    \/ Unmount \/ Unwind \/ Finally \/ AtExit
    \/ StopTail \/ Terminate \/ Kill \/ RemoveFiles

Next ==
    \/ Prepare \/ Serial \/ GuestReady
    \/ FatalError \/ Leave \/ Ending \/ Signal \/ VmExits

\* What ends the run is bounded by timeouts and goes on; so do a serial login
\* and its reset, and the tests of a fixture, but an interactive VM may be used
\* for ever.
Spec ==
    /\ Init /\ [][Next]_vars
    /\ WF_vars(Ending)
    /\ WF_vars(Serial)
    /\ WF_vars(mode # "script" /\ main = "use" /\ Leave)

-----------------------------------------------------------------------------
\* "Close the QEMU window or press Ctrl-C here to stop the VM" (runtime.py,
\* line 133): when the process is gone the VM has been stopped, and the
\* temporary files, homed credentials among them, are gone, however the run
\* ended; unless a signal met cleanup() or the Popen() of qemu.  Of the log
\* follower (qemu.py, line 336) the shell is gone, unless a signal met its
\* Popen(); what the shell has started may live on.
ExitStopsVm ==
    main = "exited" =>
        /\ mishaps \cap {"cleanup", "popen"} = {} => vm \in {"none", "dead"}
        /\ mishaps \cap {"cleanup", "follower"} = {} => tail # "running"
        /\ "cleanup" \notin mishaps => ~temps

\* The rmtree() calls on the mount point (qemu.py, line 133; runtime.py, line
\* 231) leave the loader entries of the shared disk alone, and the ESP is
\* released, unless a signal found it mounted or umount failed; an ordinary
\* user's rmtree() never harms the entries.
EspSafe ==
    /\ ~entries => root /\ mishaps \cap {"mounted", "umount"} # {}
    /\ main = "exited" /\ mishaps \cap {"mounted", "umount"} = {} => ~esp

\* A signal ends the run, wherever it finds it: a serial login that catches
\* the SystemExit of the handler (graphical.py, line 146) has lost its VM and
\* the logins that are left fail; unless a second signal cuts that cleanup()
\* short, which may leave a VM that the bootstrap goes on with.
SignalEnds == signals > 0 ~> main = "exited" \/ "swallowed" \in mishaps
=============================================================================
