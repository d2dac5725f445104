------------------------------ MODULE VmWaits ------------------------------
(***************************************************************************)
(* How the VM smoke runner waits for the guest, from the start of qemu to  *)
(* the end of the tests: wait_for_ssh_banner() and wait_for_ssh_auth() of  *)
(* scripts/vm_smoke/ssh.py, bootstrap_graphical_session() of               *)
(* scripts/vm_smoke/graphical.py, run_pytest() of                          *)
(* scripts/vm_smoke/runtime.py, and, in the pytest process it starts,      *)
(* wait_for_ssh() and wait_until() of tests/support/ssh.py.                *)
(*                                                                         *)
(* The guest boots at its own pace, may be slow to answer, and qemu may    *)
(* die.  Tick lets a second pass; an operation with a timeout has a timer  *)
(* that time cannot run past.                                              *)
(***************************************************************************)
EXTENDS Integers

CONSTANTS
    Timeout,        \* ssh_banner_timeout
    BootTimeout,    \* the boot_timeout of the tests
    KeyscanTime,    \* the longest ssh-keyscan -T
    LoginTime,      \* the timeout of `ssh true'
    CommandTime,    \* the timeout of a remote command
    SerialTime,     \* the longest serial login: connection and three prompts
    Pause,          \* the sleep between two attempts
    Steps,          \* remote commands of the bootstrap before the serial login
    Tries           \* serial logins tried

ASSUME WaitAssumption ==
    {Timeout, BootTimeout, KeyscanTime, LoginTime, CommandTime, SerialTime,
     Pause, Steps, Tries} \subseteq Nat \ {0}

LastStep == Steps + 2   \* two more after the serial login

VARIABLES
    graphical,  \* graphical_session_smoke, set once for all
    vm,         \* the qemu process
    guest,      \* how far the guest has booted
    runner,     \* what the runner is doing
    timer,      \* seconds until its operation ends
    elapsed,    \* seconds its current wait for ssh has taken
    step,       \* remote commands of the bootstrap that have succeeded
    tries,      \* serial logins that have failed
    pytest,     \* what the pytest process is doing
    ptimer,     \* the same of its operation and wait
    pelapsed,
    failure,    \* why the runner gave up
    dead_for    \* seconds since qemu died

guestVars  == <<graphical, vm, guest>>
runnerVars == <<runner, timer, elapsed, step, tries, failure>>
pytestVars == <<pytest, ptimer, pelapsed>>
vars == <<guestVars, runnerVars, pytestVars, dead_for>>

\* The waits with a deadline.
Waits  == {"banner", "banner_pause", "auth", "auth_pause"}
PWaits == {"reach", "reach_pause", "until", "until_pause"}

Times == 0 .. KeyscanTime + LoginTime + CommandTime + SerialTime + Pause

TypeOK ==
    /\ graphical \in BOOLEAN
    /\ vm \in {"up", "dead"}
    /\ guest \in {"booting", "sshd", "open", "slow"}
    /\ runner \in {"banner", "banner_pause", "auth", "auth_pause", "step",
                   "settle", "serial", "reset", "serial_pause", "poll",
                   "poll_pause", "diagnose", "diagnose_tests", "ended"}
    /\ timer \in Times
    /\ elapsed \in Nat
    /\ step \in 0 .. LastStep
    /\ tries \in 0 .. Tries
    /\ pytest \in {"none", "reach", "reach_pause", "until", "until_pause",
                   "passed", "failed", "killed"}
    /\ ptimer \in Times
    /\ pelapsed \in Nat
    /\ failure \in {"none", "vm", "timeout", "expired", "raised", "guest", "tests",
                    "signal"}
    /\ dead_for \in Nat

Init ==
    /\ graphical \in BOOLEAN
    /\ vm = "up"
    /\ guest = "booting"
    /\ runner = "banner"
    /\ timer = KeyscanTime
    /\ elapsed = 0
    /\ step = 0
    /\ tries = 0
    /\ pytest = "none"
    /\ ptimer = 0
    /\ pelapsed = 0
    /\ failure = "none"
    /\ dead_for = 0

-----------------------------------------------------------------------------
(***************************************************************************)
(* The guest and time.                                                     *)
(***************************************************************************)
Boot ==
    /\ vm = "up"
    /\ \/ guest = "booting" /\ guest' = "sshd"
       \/ guest = "sshd"    /\ guest' = "open"
       \/ guest = "open" /\ guest' = "slow"
       \/ guest = "slow" /\ guest' = "open"
    /\ UNCHANGED <<graphical, vm, runnerVars, pytestVars, dead_for>>

Die ==
    /\ vm = "up"
    /\ vm' = "dead"
    /\ UNCHANGED <<graphical, guest, runnerVars, pytestVars, dead_for>>

Tick ==
    /\ runner # "ended" \/ pytest \in PWaits
    /\ runner # "ended" => timer > 0
    /\ pytest \in PWaits => ptimer > 0
    /\ timer' = IF runner # "ended" THEN timer - 1 ELSE timer
    /\ elapsed' = IF runner \in Waits THEN elapsed + 1 ELSE elapsed
    /\ ptimer' = IF pytest \in PWaits THEN ptimer - 1 ELSE ptimer
    /\ pelapsed' = IF pytest \in PWaits THEN pelapsed + 1 ELSE pelapsed
    /\ dead_for' = IF vm = "dead" /\ runner # "ended" THEN dead_for + 1 ELSE dead_for
    /\ UNCHANGED <<guestVars, runner, step, tries, failure, pytest>>

-----------------------------------------------------------------------------
(***************************************************************************)
(* The runner.                                                             *)
(***************************************************************************)
Begin(label, time) == runner' = label /\ timer' = time

GiveUp(why) ==
    /\ runner' = "ended"
    /\ timer' = 0
    /\ failure' = why

\* run_pytest() starts the tests; the first thing they do is wait_for_ssh().
StartPytest ==
    /\ Begin("poll", 0)
    /\ pytest' = "reach"
    /\ ptimer' = LoginTime
    /\ pelapsed' = 0

\* ssh-keyscan, or `ssh true', succeeds: the next wait begins.
Answered ==
    /\ vm = "up"
    /\ \/ /\ runner = "banner"
          /\ guest # "booting"
          /\ Begin("auth", LoginTime)
          /\ UNCHANGED pytestVars
       \/ /\ runner = "auth"
          /\ guest = "open"
          /\ IF graphical THEN Begin("step", CommandTime) /\ UNCHANGED pytestVars
                          ELSE StartPytest
    /\ elapsed' = 0
    /\ UNCHANGED <<guestVars, step, tries, failure, dead_for>>

\* It fails: ensure_vm_alive(), then the deadline, then time.sleep(2).
\* (mutants) the VM is not looked at; the deadline is
MutVmExited == FALSE
MutTimedOut == elapsed > Timeout + Pause

VmExited == vm = "dead"
TimedOut == elapsed >= Timeout

Missed ==
    /\ runner \in {"banner", "auth"}
    /\ \/ VmExited /\ GiveUp("vm")
       \/ ~VmExited /\ TimedOut /\ GiveUp("timeout")
       \/ /\ ~VmExited /\ ~TimedOut
          /\ Begin(IF runner = "banner" THEN "banner_pause" ELSE "auth_pause", Pause)
          /\ UNCHANGED failure
    /\ UNCHANGED <<guestVars, elapsed, step, tries, pytestVars, dead_for>>

Retry ==
    /\ timer = 0
    /\ \/ runner = "banner_pause" /\ Begin("banner", KeyscanTime)
       \/ runner = "auth_pause"   /\ Begin("auth", LoginTime)
    /\ UNCHANGED <<guestVars, elapsed, step, tries, failure, pytestVars, dead_for>>

\* subprocess.run(..., timeout=5) raises TimeoutExpired, which nothing
\* catches; ssh's own ConnectTimeout=5 has begun later.
LoginExpires ==
    /\ runner = "auth"
    /\ timer = 0
    /\ guest = "slow"
    /\ GiveUp("expired")
    /\ UNCHANGED <<guestVars, elapsed, step, tries, pytestVars, dead_for>>
-----------------------------------------------------------------------------
(***************************************************************************)
(* The graphical bootstrap: remote commands, a serial login, two more.     *)
(***************************************************************************)
StepDone ==
    /\ runner = "step"
    /\ vm = "up"
    /\ guest = "open"
    /\ step' = step + 1
    /\ \/ step + 1 = Steps /\ Begin("settle", Pause) /\ UNCHANGED pytestVars
       \/ step + 1 = LastStep /\ StartPytest
       \/ step + 1 \notin {Steps, LastStep} /\ Begin("step", CommandTime) /\ UNCHANGED pytestVars
    /\ UNCHANGED <<guestVars, elapsed, tries, failure, dead_for>>

\* The command fails, or ssh does: SystemExit.  It does not end in time,
\* which is possible of a guest that is well: TimeoutExpired.
StepFails ==
    /\ runner = "step"
    /\ \/ GiveUp("guest")
       \/ timer = 0 /\ vm = "up" /\ GiveUp("raised")
    /\ UNCHANGED <<guestVars, elapsed, step, tries, pytestVars, dead_for>>

\* time.sleep(2) before the first serial login.
Settled ==
    /\ runner = "settle"
    /\ timer = 0
    /\ Begin("serial", SerialTime)
    /\ UNCHANGED <<guestVars, elapsed, step, tries, failure, pytestVars, dead_for>>

SerialLogsIn ==
    /\ runner = "serial"
    /\ vm = "up"
    /\ guest = "open"
    /\ Begin("step", CommandTime)
    /\ UNCHANGED <<guestVars, elapsed, step, tries, failure, pytestVars, dead_for>>

\* SystemExit, when a prompt is late or the login rejected: a reset command,
\* whose exit status nobody looks at.  A socket qemu has closed may raise OSError.
SerialFails ==
    /\ runner = "serial"
    /\ \/ /\ tries' = tries + 1
          /\ Begin("reset", CommandTime)
          /\ UNCHANGED failure
       \/ vm = "dead" /\ GiveUp("raised") /\ UNCHANGED tries
    /\ UNCHANGED <<guestVars, elapsed, step, pytestVars, dead_for>>

Reset ==
    /\ runner = "reset"
    /\ \/ Begin("serial_pause", Pause) /\ UNCHANGED failure
       \/ timer = 0 /\ vm = "up" /\ GiveUp("raised")
    /\ UNCHANGED <<guestVars, elapsed, step, tries, pytestVars, dead_for>>

\* (mutant) login after login
MutTriesLeft == tries <= Tries

TriesLeft == tries < Tries

SerialAgain ==
    /\ runner = "serial_pause"
    /\ timer = 0
    /\ \/ TriesLeft  /\ Begin("serial", SerialTime) /\ UNCHANGED failure
       \/ ~TriesLeft /\ GiveUp("guest")
    /\ UNCHANGED <<guestVars, elapsed, step, tries, pytestVars, dead_for>>

-----------------------------------------------------------------------------
(***************************************************************************)
(* The tests, and the runner that polls them every two seconds.            *)
(***************************************************************************)
\* (mutant) the end of pytest goes unseen
MutAlive == pytest # "none"

Alive == pytest \in PWaits

Diagnose(label, why) ==
    IF graphical THEN Begin(label, CommandTime) /\ UNCHANGED failure
                 ELSE GiveUp(why)

\* pytest.terminate() and wait(): SIGTERM ends pytest at once.
KillPytest ==
    /\ pytest' = IF Alive THEN "killed" ELSE pytest
    /\ UNCHANGED <<ptimer, pelapsed>>

Passed == pytest = "passed"

\* pytest.poll() comes first: tests that are over count, whatever qemu does.
\* Then vm_proc.poll(), then a fatal line in the log of qemu.
Poll ==
    /\ runner = "poll"
    /\ \/ ~Alive /\ Passed  /\ GiveUp("none") /\ UNCHANGED <<vm, pytestVars>>
       \/ ~Alive /\ ~Passed /\ Diagnose("diagnose_tests", "tests") /\ UNCHANGED <<vm, pytestVars>>
       \/ /\ Alive   \* qemu is dead, or its log says it is of no use
          /\ Diagnose("diagnose", "vm")
          /\ IF graphical THEN UNCHANGED <<vm, pytestVars>> ELSE vm' = "dead" /\ KillPytest
       \/ Alive /\ vm = "up" /\ Begin("poll_pause", Pause) /\ UNCHANGED <<vm, failure, pytestVars>>
    /\ UNCHANGED <<graphical, guest, elapsed, step, tries, dead_for>>

PollAgain ==
    /\ runner = "poll_pause"
    /\ timer = 0
    /\ Begin("poll", 0)
    /\ UNCHANGED <<guestVars, elapsed, step, tries, failure, pytestVars, dead_for>>

\* print_graphical_guest_diagnostics() is over; it catches every exception.
\* The tests have run on meanwhile.
Diagnosed ==
    /\ \/ /\ runner = "diagnose"
          /\ GiveUp("vm")
          /\ vm' = "dead"
          /\ KillPytest
       \/ /\ runner = "diagnose_tests"
          /\ GiveUp("tests")
          /\ UNCHANGED <<vm, pytestVars>>
    /\ UNCHANGED <<graphical, guest, elapsed, step, tries, dead_for>>

\* SIGTERM or SIGINT: the handler raises SystemExit wherever the runner is.  A
\* serial login that it interrupts has failed, and the bootstrap goes on; qemu
\* has been stopped by the cleanup() of the handler, unless that was cut short.
Interrupted ==
    /\ \/ /\ runner \notin {"serial", "ended"}
          /\ GiveUp("signal")
          /\ UNCHANGED <<vm, tries>>
       \/ /\ runner = "serial"
          /\ tries' = tries + 1
          /\ Begin("reset", CommandTime)
          /\ vm' \in {vm, "dead"}
          /\ UNCHANGED failure
    /\ UNCHANGED <<graphical, guest, elapsed, step, pytestVars, dead_for>>

-----------------------------------------------------------------------------
PBegin(label, time) == pytest' = label /\ ptimer' = time
PEnd(verdict) == pytest' = verdict /\ ptimer' = 0

\* wait_for_ssh() of the tests, then wait_until().
Reached ==
    /\ vm = "up"
    /\ guest = "open"
    /\ \/ pytest = "reach" /\ PBegin("until", CommandTime) /\ pelapsed' = 0
       \/ pytest = "until" /\ PEnd("passed") /\ UNCHANGED pelapsed
    /\ UNCHANGED <<guestVars, runnerVars, dead_for>>

\* The attempt fails; wait_for_ssh() takes an expired one for a failure,
\* wait_until() lets TimeoutExpired fail the test.
Unreached ==
    /\ \/ pytest = "reach" /\ PBegin("reach_pause", Pause)
       \/ pytest = "until" /\ PBegin("until_pause", Pause)
       \/ pytest = "until" /\ ptimer = 0 /\ guest = "slow" /\ PEnd("failed")
    /\ UNCHANGED <<guestVars, runnerVars, pelapsed, dead_for>>

\* (mutant) the tests wait for ever
MutPTimedOut == FALSE

PTimedOut == pelapsed >= BootTimeout

TestAgain ==
    /\ ptimer = 0
    /\ pytest \in {"reach_pause", "until_pause"}
    /\ \/ PTimedOut /\ PEnd("failed")
       \/ ~PTimedOut /\ pytest = "reach_pause" /\ PBegin("reach", LoginTime)
       \/ ~PTimedOut /\ pytest = "until_pause" /\ PBegin("until", CommandTime)
    /\ UNCHANGED <<guestVars, runnerVars, pelapsed, dead_for>>

Runner ==
    \/ Answered \/ Missed \/ Retry \/ LoginExpires
    \/ StepDone \/ StepFails
    \/ Settled \/ SerialLogsIn \/ SerialFails \/ Reset \/ SerialAgain
    \/ Poll \/ PollAgain \/ Diagnosed

Tests == Reached \/ Unreached \/ TestAgain

Next == Boot \/ Die \/ Tick \/ Runner \/ Interrupted \/ Tests

\* Time passes and both processes run; that the guest boots, and that qemu
\* lives or dies, is not promised.
Spec == Init /\ [][Next]_vars /\ WF_vars(Tick) /\ WF_vars(Runner) /\ WF_vars(Tests)

-----------------------------------------------------------------------------
Longest(a, b) == IF a > b THEN a ELSE b

\* A wait ends within its timeout and one attempt more: the deadline is read
\* after a failed attempt, before the sleep, and after it in the tests.
WaitsAreBounded ==
    /\ runner = "banner" => elapsed < Timeout + Pause + KeyscanTime
    /\ runner = "auth" => elapsed < Timeout + Pause + LoginTime
    /\ pytest = "reach" => pelapsed < BootTimeout + LoginTime
    /\ pytest = "until" => pelapsed < BootTimeout + CommandTime

\* qemu's death ends the run without waiting for ssh, or the tests, to time
\* out: one sleep and one attempt later.  A graphical run may first go through
\* the serial logins it has left, which take longer than the diagnostics do, and
\* a signal does not keep it from that.
DeathIsNoticed ==
    runner # "ended" =>
        \/ dead_for <= Pause + Longest(KeyscanTime, LoginTime)
        \/ /\ graphical
           /\ dead_for <= Pause + Tries * (SerialTime + CommandTime + Pause)

\* The run ends, and so do the tests, even those a signal has orphaned.
Ends == <>[](runner = "ended" /\ pytest \notin PWaits)

\* ssh.py:91-98 names "SSH connection timed out" among the reasons that are
\* retried until the timeout: the wait gives a guest that runs all its time.
GivenItsTime == failure = "expired" => elapsed >= Timeout
=============================================================================
