---------------------------- MODULE VmWaitsProofs ----------------------------
(***************************************************************************)
(* TypeOK, WaitsAreBounded and DeathIsNoticed of VmWaits, for every length *)
(* of the timeouts, the operations and the pauses.                         *)
(*                                                                         *)
(* The properties bound what has passed.  An operation that has just begun *)
(* satisfies them whatever it may still take, so they are not inductive:   *)
(* IInv bounds what has passed together with what is left of the timer,    *)
(* and says when an operation can begin at all.                            *)
(***************************************************************************)
EXTENDS VmWaits, TLAPS

Pauses == {"banner_pause", "auth_pause", "poll_pause"}

Graphical == {"step", "settle", "serial", "reset", "serial_pause", "diagnose",
              "diagnose_tests"}

\* The deadline is read after every attempt, so an attempt, and the sleep
\* before it, begin before it.
Deadlines ==
    /\ runner \in {"banner_pause", "auth_pause"} =>
           elapsed + timer < Timeout + Pause
    /\ runner = "banner" => elapsed + timer < Timeout + Pause + KeyscanTime
    /\ runner = "auth" => elapsed + timer < Timeout + Pause + LoginTime
    /\ pytest = "reach" => pelapsed + ptimer < BootTimeout + LoginTime
    /\ pytest = "until" => pelapsed + ptimer < BootTimeout + CommandTime

\* Where the bootstrap is when it tries a serial login.
Bootstrap ==
    /\ ~graphical => runner \notin Graphical
    /\ runner \in Waits => step = 0
    /\ runner = "step" => step < LastStep
    /\ runner \in {"settle", "serial", "reset", "serial_pause"} => step = Steps
    /\ step < Steps \/ runner = "settle" => tries = 0
    /\ runner = "serial" => tries < Tries
    /\ runner \in {"reset", "serial_pause"} => tries > 0

\* The longest a serial login takes that fails.
Login == SerialTime + CommandTime + Pause

\* What has passed since qemu died and what the operation may still take.
\* Only a sleep, a serial login and its reset end in another operation.  (The
\* cleanup() of a signal that a serial login has caught is not on the clock.)
Death ==
    /\ vm = "up" => dead_for = 0
    /\ runner \in Pauses => dead_for + timer <= Pause
    /\ runner = "banner" => dead_for + timer <= Pause + KeyscanTime
    /\ runner = "auth" => dead_for + timer <= Pause + LoginTime
    /\ runner = "step" => dead_for + timer <= CommandTime
    /\ runner = "poll" => dead_for + timer <= Pause
    /\ runner \in {"diagnose", "diagnose_tests"} =>
           dead_for + timer <= Pause + CommandTime
    /\ runner = "settle" => dead_for + timer <= Pause
    /\ runner = "serial" =>
           dead_for + timer <= Pause + tries * Login + SerialTime
    /\ runner = "reset" => dead_for + timer <= tries * Login
    /\ runner = "serial_pause" => dead_for + timer <= Pause + tries * Login

IInv == TypeOK /\ Deadlines /\ Bootstrap /\ Death

LEMMA Constants ==
    /\ Timeout \in Nat \ {0} /\ BootTimeout \in Nat \ {0}
    /\ KeyscanTime \in Nat \ {0} /\ LoginTime \in Nat \ {0}
    /\ CommandTime \in Nat \ {0} /\ SerialTime \in Nat \ {0}
    /\ Pause \in Nat \ {0} /\ Steps \in Nat \ {0} /\ Tries \in Nat \ {0}
  BY WaitAssumption

\* n serial logins, and one more.
LEMMA Logins ==
    ASSUME NEW n \in Nat
    PROVE  /\ n * Login \in Nat
           /\ (n + 1) * Login = n * Login + Login
           /\ n > 0 => n * Login >= Login
           /\ n <= Tries => n * Login <= Tries * Login
  BY Constants DEF Login

-----------------------------------------------------------------------------
LEMMA InvInit == Init => IInv
<1>. SUFFICES ASSUME Init PROVE IInv
  OBVIOUS
<1>. USE Constants
<1>1. TypeOK
  BY DEF Init, TypeOK, Times, LastStep
<1>2. Deadlines
  BY DEF Init, Deadlines
<1>3. Bootstrap
  BY DEF Init, Bootstrap, Graphical
<1>4. Death
  BY DEF Init, Death, Pauses
<1>. QED
  BY <1>1, <1>2, <1>3, <1>4 DEF IInv

\* The guest, and time.
LEMMA WorldStep ==
    ASSUME IInv, Boot \/ Die \/ Tick
    PROVE  IInv'
<1>. USE Constants DEF IInv, TypeOK, Times, Deadlines, Bootstrap, Death,
       Waits, Graphical, Pauses, Login, LastStep, guestVars, runnerVars,
       pytestVars
<1>1. CASE Boot
  BY <1>1 DEF Boot
<1>2. CASE Die
  BY <1>2 DEF Die
<1>3. CASE Tick
  BY <1>3 DEF Tick
<1>. QED
  BY <1>1, <1>2, <1>3

\* The waits for the banner and the login.
LEMMA WaitStep ==
    ASSUME IInv, Answered \/ Missed \/ Retry \/ LoginExpires
    PROVE  IInv'
<1>. USE Constants DEF IInv, TypeOK, Times, Deadlines, Bootstrap, Death,
       Waits, Graphical, Pauses, Login, LastStep, guestVars, runnerVars,
       pytestVars
<1>1. CASE Answered
  BY <1>1 DEF Answered, Begin, StartPytest
<1>2. CASE Missed
  BY <1>2 DEF Missed, Begin, GiveUp, VmExited, TimedOut
<1>3. CASE Retry
  BY <1>3 DEF Retry, Begin
<1>4. CASE LoginExpires
  BY <1>4 DEF LoginExpires, GiveUp
<1>. QED
  BY <1>1, <1>2, <1>3, <1>4

\* The graphical bootstrap.  Every serial login that fails counts.
LEMMA GraphicalStep ==
    ASSUME IInv, StepDone \/ StepFails \/ Settled \/ SerialLogsIn
                 \/ SerialFails \/ Reset \/ SerialAgain
    PROVE  IInv'
<1>. USE Constants DEF IInv, TypeOK, Times, Deadlines, Bootstrap, Death,
       Waits, Graphical, Pauses, Login, LastStep, guestVars, runnerVars,
       pytestVars
<1>1. CASE StepDone
  BY <1>1 DEF StepDone, Begin, StartPytest
<1>2. CASE StepFails
  BY <1>2 DEF StepFails, GiveUp
<1>3. CASE SerialLogsIn
  BY <1>3 DEF SerialLogsIn, Begin
<1>4. CASE SerialFails
  BY <1>4 DEF SerialFails, Begin, GiveUp
<1>5. CASE Reset
  BY <1>5 DEF Reset, Begin, GiveUp
<1>6. CASE SerialAgain
  BY <1>6 DEF SerialAgain, Begin, GiveUp, TriesLeft
<1>7. CASE Settled
  BY <1>7 DEF Settled, Begin
<1>. QED
  BY <1>1, <1>2, <1>3, <1>4, <1>5, <1>6, <1>7

\* The runner while the tests run, and its end.
LEMMA PollStep ==
    ASSUME IInv, Poll \/ PollAgain \/ Diagnosed \/ Interrupted
    PROVE  IInv'
<1>. USE Constants DEF IInv, TypeOK, Times, Deadlines, Bootstrap, Death,
       Waits, Graphical, Pauses, Login, LastStep, guestVars, runnerVars,
       pytestVars
<1>1. CASE Poll
  BY <1>1 DEF Poll, Diagnose, Begin, GiveUp, KillPytest
<1>2. CASE PollAgain
  BY <1>2 DEF PollAgain, Begin
<1>3. CASE Diagnosed
  BY <1>3 DEF Diagnosed, GiveUp, KillPytest
<1>4. CASE Interrupted
  BY <1>4 DEF Interrupted, Begin, GiveUp
<1>. QED
  BY <1>1, <1>2, <1>3, <1>4

\* The waits of the tests.
LEMMA TestsStep ==
    ASSUME IInv, Reached \/ Unreached \/ TestAgain
    PROVE  IInv'
<1>. USE Constants DEF IInv, TypeOK, Times, Deadlines, Bootstrap, Death,
       Waits, Graphical, Pauses, Login, LastStep, guestVars, runnerVars,
       pytestVars
<1>1. CASE Reached
  BY <1>1 DEF Reached, PBegin, PEnd
<1>2. CASE Unreached
  BY <1>2 DEF Unreached, PBegin, PEnd
<1>3. CASE TestAgain
  BY <1>3 DEF TestAgain, PBegin, PEnd, PTimedOut
<1>. QED
  BY <1>1, <1>2, <1>3

LEMMA InvStep == IInv /\ [Next]_vars => IInv'
<1>. SUFFICES ASSUME IInv, [Next]_vars PROVE IInv'
  OBVIOUS
<1>1. CASE Next
  BY <1>1, WorldStep, WaitStep, GraphicalStep, PollStep, TestsStep DEF Next,
     Runner, Tests
<1>2. CASE UNCHANGED vars
  BY <1>2 DEF vars, guestVars, runnerVars, pytestVars, IInv, TypeOK,
     Deadlines, Bootstrap, Death
<1>. QED
  BY <1>1, <1>2

LEMMA Timers ==
    IInv => /\ timer \in Nat /\ elapsed \in Nat
            /\ ptimer \in Nat /\ pelapsed \in Nat
  BY DEF IInv, TypeOK, Times

LEMMA Invariant == Spec => []IInv
  BY InvInit, InvStep, PTL DEF Spec

-----------------------------------------------------------------------------
\* The state of a run keeps its type; no serial login is counted beyond the
\* number of those that are tried (graphical.py, lines 128-148).
THEOREM TypeCorrect == Spec => []TypeOK
<1>1. IInv => TypeOK
  BY DEF IInv
<1>. QED
  BY <1>1, Invariant, PTL

\* A wait of the runner, or of the tests, ends within its timeout and one
\* attempt, and in the runner one sleep, more: whatever the guest does
\* (ssh.py, lines 14-31 and 72-104; tests/support/ssh.py).
THEOREM WaitsEnd == Spec => []WaitsAreBounded
<1>1. IInv => WaitsAreBounded
  BY Timers, Constants DEF IInv, Deadlines, WaitsAreBounded
<1>. QED
  BY <1>1, Invariant, PTL

\* However long the timeouts of ssh and of the tests are, qemu's death is
\* noticed after one sleep and one attempt, or after the serial logins that
\* are left.
THEOREM DeathEndsRun == Spec => []DeathIsNoticed
<1>1. ASSUME IInv PROVE DeathIsNoticed
  <2>1. /\ timer \in Nat /\ dead_for \in Nat /\ tries \in Nat /\ tries <= Tries
        /\ Bootstrap /\ Death
    BY <1>1, Timers DEF IInv, TypeOK
  <2>2. ASSUME runner \in Pauses \cup {"banner", "auth", "poll"}
        PROVE  dead_for <= Pause + Longest(KeyscanTime, LoginTime)
    BY <2>1, <2>2, Constants DEF Death, Longest
  <2>3. ASSUME runner \in Graphical PROVE dead_for <= Pause + Tries * Login
    <3>1. CASE runner \in {"step", "settle", "diagnose", "diagnose_tests"}
      <4>1. dead_for <= Login
        BY <2>1, <3>1, Constants DEF Death, Login
      <4>2. Login \in Nat /\ Tries * Login \in Nat /\ Login <= Tries * Login
        BY Constants DEF Login
      <4>. QED
        BY <2>1, <4>1, <4>2, Constants
    <3>2. CASE runner \in {"reset", "serial_pause"}
      <4>1. tries * Login \in Nat /\ tries * Login <= Tries * Login
        BY <2>1, Logins
      <4>2. dead_for <= Pause + tries * Login
        BY <2>1, <3>2, <4>1, Constants DEF Death
      <4>. QED
        BY <2>1, <4>2, Constants, Logins
    <3>3. CASE runner = "serial"
      <4>1. tries + 1 <= Tries
        BY <2>1, <3>3, Constants DEF Bootstrap
      <4>2. (tries + 1) * Login <= Tries * Login
        BY <2>1, <4>1, Logins
      <4>3. dead_for <= Pause + (tries + 1) * Login
        <5>1. dead_for <= Pause + tries * Login + SerialTime
          BY <2>1, <3>3, Logins, Constants DEF Death
        <5>. QED
          BY <2>1, <5>1, Constants DEF Login
      <4>. QED
        BY <2>1, <4>2, <4>3, Logins, Constants
    <3>. QED
      BY <2>3, <3>1, <3>2, <3>3 DEF Graphical
  <2>4. runner \in Graphical => graphical
    BY <2>1 DEF Bootstrap
  <2>5. \/ runner \in Pauses \cup Graphical
        \/ runner \in {"banner", "auth", "poll", "ended"}
    BY <1>1 DEF IInv, TypeOK, Pauses, Graphical
  <2>6. CASE runner \in Graphical
    BY <2>3, <2>4, <2>6 DEF DeathIsNoticed, Login
  <2>7. CASE runner \notin Graphical
    BY <2>2, <2>5, <2>7 DEF DeathIsNoticed
  <2>. QED
    BY <2>6, <2>7
<1>. QED
  BY <1>1, Invariant, PTL
=============================================================================
