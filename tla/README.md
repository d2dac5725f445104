# Formal models of arch-bootc

TLA+ specifications of the programs in this repository that keep state over
time or run beside something that changes it: the AUR stage of the image build,
the cache it leaves behind, the VM disk and its stamp, the kernel command line
on it, the runner that boots a VM, waits for it and has to clean up after it, the
upgrade of the host, the usage module of the desktop bar and a hotkey. The rest
of the repository is package lists, configuration and single commands.

## Inventory

| Component | Source | State | Operations | What is hard |
|---|---|---|---|---|
| AUR resolver | `run/scripts/build-aur.py` | `repo_cache`, `provider_cache`, `symbol_to_repo`, `official_needed`, `resolved`, `visiting`, the Python stack | `read_requested_repos`, `select_provider`, `load_repo`, `resolve_repo`, `install_official`, the build loop | recursion on any graph; an index that changes between two requests |
| AUR package cache | same file | clone, archives and `.aur-head` stamp in cache mounts | `update_repo`, `find_artifacts`, `build_repo`, `install_artifacts` | interrupted builds, a branch that moves, archives of old versions |
| VM artifact | `scripts/generate_vm_artifact.py`, `generate_bootable_image.py`, `build_image.py`, `vm_smoke/runtime.py` | image tag, `bootable.img`, `bootable.img.image-id` | build, inspect, compare, blank, install, stamp, boot | read-then-use of a tag, failures between disk and stamp, commands side by side |
| VM runner lifecycle | `scripts/boot_vm_smoke.py`, `vm_smoke/qemu.py`, `vm_smoke/runtime.py`, `tests/support/vm.py` | qemu, log follower, temporary files, the mounted ESP, `_cleaned` | `prepare_and_start`, `cleanup`, the signal handler, `atexit`, the fixture's `finally` | signals between any two steps, cleanup inside cleanup |
| VM runner waits | `vm_smoke/ssh.py`, `graphical.py`, `guest.py`, `runtime.py`, `tests/support/ssh.py` | deadlines, a guest that boots, the pytest child | `wait_for_ssh_banner`, `wait_for_ssh_auth`, `bootstrap_graphical_session`, `run_pytest`, `wait_for_ssh`, `wait_until` | timeouts inside retries, a guest that stalls, qemu dying |
| Waybar AI usage: Claude | `rootfs/usr/libexec/arch-bootc-waybar-ai-usage.py`, `…statusline-rate-limits.py` | record of the status line, cache file, what each bar shows | the hook; read, cache, fall back, show | several writers of a file written in place, killed runs |
| Waybar AI usage: Codex | `arch-bootc-waybar-ai-usage.py` | a JSON-RPC child and its pipes | two exchanges: send, read until the reply or the deadline, terminate | replies out of order, a blocking read under a deadline, a child on every way out |
| Kernel command line | `vm_smoke/config.py`, `vm_smoke/qemu.py`, `scripts/run_vm_preset.py` | loader entries on the ESP of `bootable.img`, `Config` | `config_for`, `effective_kernel_cmdline`, `strip_managed_kargs`, `inject_loader_kargs`, `prepare_direct_kernel_boot`, `fw_cfg` | entries patched in place, boot after boot; which of three ways leads to the guest |
| Host upgrade | `scripts/host_upgrade.py`, `scripts/host_ops.py` | iidfile, image storages, what `bootc` has staged | build, read ID, `bootc switch`, reboot | one iidfile for all, unchecked removals, a helper chosen anew for every command |
| Hotkey | `rootfs/usr/share/hypr/scripts/browser-tab-to-chrome-app` | clipboard, active window | copy the address, wait, put back, open | a browser that copies late, a second press, a user who goes on |
| Configuration fix-ups | `sync-x11-keymap-from-vconsole.sh`, `pam-gnome-keyring-fixup`, `hypr-user-dropins.sh` | configuration files | rewrite or append if missing | idempotence, concurrent logins |
| Recipe helpers, test drivers, tests, static configuration | `run/scripts/*.sh`, `scripts/run_*.py`, `tests`, `packages`, `rootfs` | none of their own | – | – |

The parts meet in files and child processes: the AUR stage runs inside the image
build; the image build moves the tag the VM artifact is made from; the artifact
is the disk the runner boots (and patches, in its ESP); the tests use the runner
as a fixture or as their parent process. What makes each part correct is in the
sections below; every hazard, at its line, is in `PROJECT.json`.

## Modules

### BuildOrder, AurResolve

`BuildOrder` is the promise of the AUR stage: repositories that are wanted are
put in an order with all they need, each after all it needs; only then are they
installed, each after all it needs; and the stage is finished when the whole
order is installed and everything that was wanted with it.

`AurResolve` is one run of `main()`. `stack` is the Python stack of
`resolve_repo()`, a frame being the repository and the place in its loop over
`info.deps`. One action stands for one turn of that loop with all the calls it
makes: `SkipSatisfied`, `NeedOfficial`, `NoProvider`, and, when
`select_provider()` answers, `ReuseResolved`, `FindCycle` or `Descend`, which
includes `load_repo()`; `Return` is the end of the function. `ReadRequest`,
`ResolveTop`, `InstallOfficial`, `BuildNext` and `Finish` are `main()`;
`StageError` is any exception of a command or of the RPC after its retries.

The AUR is not frozen: `Snapshots` are the index states that may answer a
request, each request on its own, and `Srcinfos[r]` the contents a clone of `r`
may show. `select_provider()` is translated as the set of its possible answers
(`SelectProvider`, `FromAur`, `FromSearch`, `Matches`, `Preferred`), the second
look-up of every search result included. `pacman -T` and the official list are
constants: nothing is installed while the search runs. Names are model values;
`DepName` is `dep_name()`, which drops the version.

| Property | Says |
|---|---|
| `DepsFirst` | a repository comes after every provider chosen for its dependencies |
| `CycleIsReal` | the cycle error names a repository that depends on itself |
| `BuildReady` | when `makepkg` starts, each dependency is satisfied, official and installed, or its provider is installed |
| `DecisionsStand` | a name keeps its provider and a repository its `.SRCINFO` |
| `ImplementsBuildOrder` | refinement of `BuildOrder`, with `wanted <- ToSet(top_level_repos)`, `order <- resolved`, `needs <- Chosen` and `finished <- (phase = "done")` |
| `Termination` | the stage ends, on cyclic, incomplete and changing indexes too |
| `ProviderProvides` | the repository chosen for a name provides it: its `.SRCINFO` says so, or a state of the index did |

The proofs use more, which no run repeats: `ResolvedOnce` (none is in the order
twice or still open, so the `seen` set of the build loop never skips),
`StackIsPath` (the open calls are a path of distinct repositories: the recursion
is bounded) and `SearchInv`, these and the others with what makes them inductive.

### AurBuild

`update_repo()`, `build_repo()` and `install_artifacts()` for one repository over
many runs. `files[<<n, v>>]` is the commit that archive was made from, which the
code does not know: it sees names (`FindArtifacts`), their number (`Enough`) and
the stamp (`Fresh`). `Interrupt` ends a run anywhere, in the middle of `makepkg`
or of writing the stamp too, and leaves the cache mounts as they are; of the
archive that `makepkg` was writing it may leave a torn one (`TornFiles`). Two
image builds do not overlap: the recipe mounts pacman's caches `sharing=locked`.

The branch may be forced back to an older commit and `makepkg` may leave
packages out; the history variable `strayed` says that one of these has
happened. Until then `CompleteAtHead` holds: what is given to `pacman -U`
includes the packages of the commit of the run. It fails afterwards: a
half-built other commit under a stamp that upstream comes back to is reused, and
a count of archives stands for their names. `NoRebuild` holds whatever happens.

`Recovers` holds with every `makepkg` that leaves nothing out, from whatever
stamps, clones and whole archives are there, but not from a torn one:
`find_artifacts()` runs `pacman -Qp` on every archive (line 323) before the
stamp is looked at, so one that cannot be read raises in every later run
(`Unreadable`) and nothing builds it again. The cache is shared, so one torn
archive stops the builds of all repositories until somebody deletes it. That
nothing but the commit's archives is given to pacman does not hold:
`find_artifacts()` returns those of older versions too, and after one
interrupted build and a new version both are there.

### VmArtifact

Five commands share a tag, a disk and a stamp: `image:artifact`, a boot, a boot
without image checks, a sandbox boot, and the bare regeneration. Each is a
process with its own `pc`. `Inspect` reads the ID, `Compare` looks at disk and
stamp, `Size` blanks a disk that is missing or too small, `BeginInstall` looks
the tag up again and wipes, `EndInstall`, `WriteStamp`; `Fail` stops a command
anywhere but in its last step and may leave an empty stamp.

The stamp is compared with the image ID and cannot tell everything. `events`
records what it cannot: a rebuild while a command is under way (`retag`), two
commands at a time (`overlap`), a build that gives an old ID again (`return`), a
deleted disk (`removed`), a disk made by a command that compares no IDs
(`unasked`), and a disk that was written and not stamped (`unstamped`).
`StampTells` is the condition found sufficient: no `retag`, no `overlap`, and an
`unstamped` disk only without `return`, `removed` and `unasked`. So an
interrupted `image:artifact` is harmless by itself, and is taken for finished
after the disk was deleted, or after an interrupted bare regeneration.

| Property | Says |
|---|---|
| `ReadyIsInstalled` | while `StampTells`, what is called ready, or booted, holds the image whose ID was read |
| `SandboxIsStamped` | the sandbox boots a disk that holds what its stamp names, unless there was an overlap, a retag or an unstamped write |
| `OnlyWhenChanged` | a command that compares IDs leaves a good disk alone |
| `Refreshes` | once failures stop, such a command ends with the disk it asked for |

### VmRunner

`main` is where the main thread is, `cleaning` the step of the `cleanup()` that
runs on top of it, whoever called it. `Signal` may come between any two steps;
it calls `cleanup()` if that has not begun yet, and its `SystemExit` then takes
the main thread on (`AfterException`): through the `finally` of
`inject_loader_kargs()`, through that of the fixture, to `atexit`. In the tests
of the fixture it is one failure among others, since pytest goes on. In a serial
login it is a failed login: `except SystemExit` (`graphical.py`, line 146)
catches it, and the bootstrap goes on with the reset, the sleep and the logins
that are left (`SerialAgain`), without a VM by then.

Not every signal does the same, and `mishaps` records what the ones so far have
met: a cleanup that was running (`cleanup`; the flag is set, so the handler's
own call returns at once and its `SystemExit` ends the other one), and that in a
serial login, which catches the second exception as it would the first
(`swallowed`); a `Popen()` whose result was not assigned yet, of qemu (`popen`)
or of the log follower (`follower`); a mounted ESP (`mounted`; `cleanup()`
empties it with `rmtree()` before the `finally` unmounts it). `root` says whether
the user may delete what the mount shows.

The log follower is a shell that runs `tail -F | perl | sed`. `cleanup()` ends
the shell and nothing else, so after every ordinary run that follows the log the
three live on (`tail = "left"`), unless a SIGINT from the terminal has reached
them too. `ExitStopsVm` therefore speaks of the shell.

| Property | Says |
|---|---|
| `ExitStopsVm` | when the process is gone so are the VM, the shell of the log follower and the files, after any number of signals anywhere but in a cleanup or in the `Popen()` of what is to be gone; with `--bootc-vm-keep` too, since `atexit` cleans up after the fixture has not |
| `EspSafe` | the loader entries survive and the ESP is released, unless a signal found it mounted or `umount` failed, and for an ordinary user the entries survive even then |
| `SignalEnds` | a signal ends the run, wherever it finds it, at the latest when the serial logins are used up; unless a second one cuts its cleanup short inside a serial login, which may leave the VM alive and the bootstrap going on with it |

### VmWaits

The runner from the start of qemu to its exit status, and the pytest process it
starts, on a clock. `Tick` lets a second pass and cannot run past `timer` or
`ptimer`, the time left to the operation of each process; `elapsed` and
`pelapsed` are what the loops compare with their timeouts. `Answered`, `Missed`,
`Retry` and `LoginExpires` are `wait_for_ssh_banner()` and
`wait_for_ssh_auth()`; `StepDone` to `SerialAgain` are
`bootstrap_graphical_session()`, with its pause, its serial login and its reset;
`Poll`, `PollAgain` and `Diagnosed` are `run_pytest()`; `Reached`, `Unreached`
and `TestAgain` are `wait_for_ssh()` and `wait_until()` of the tests. `Boot`
takes the guest through its boot and in and out of a stall, `Die` ends qemu at
any moment, `Interrupted` is the `SystemExit` of the signal handler, which ends
the run or, in a serial login, that login. What the signal does to qemu and the
files is in `VmRunner`; the seconds that the `cleanup()` of a caught one takes
are not on the clock.

| Property | Says |
|---|---|
| `WaitsAreBounded` | each wait ends within its timeout, one sleep and one attempt |
| `DeathIsNoticed` | the death of qemu ends the run after one attempt and one sleep, or, in a graphical run, the pause and the serial logins that are left, signals or not |
| `Ends` | runner and tests both end, on every guest |

### ClaudeUsage

`record` is the file the status line hook replaces (`WriteTemporary`, `Replace`,
`HookFails`), `cache` the file that `write_cached_claude_usage()` writes in
place (`OpenCache` empties it, `WriteCache` fills it, over what another run has
put there meanwhile). Each bar is a process: `Start`, `ReadRecord`, then the
cache is written, or read (`ReadCache`), and the result shown. `Kill` and
`LoseCache` end a run, or a write, anywhere. `last`, `alone` and `disturbed` are
history: the last summary made from the record, and whether the last write of
the cache was lost, cut short or overlapped.

`LastSuccessful` says that what a bar calls the "last successful value" is that,
while not `disturbed`; `Converges` says that every bar comes to show the last
record and stays there, whatever was disturbed before. `CacheHeals`, proved only,
says that one run that has the cache to itself repairs it.

### CodexUsage

`fetch_codex_usage()` is two exchanges with an `app-server` of their own. Its
pipe is a sequence of lines: replies, useful or not, and noise, which may not
even be text. The server answers the open requests in any order (`Answer`),
writes other lines (`Chatter`), exits or hangs; the parent goes `Send`, `Check`,
`ReadLine`, `EndExchange`, or `Raise` on the way of an exception. `ReplyIsOwn`
says that the reply taken answers the request of this exchange and not
`initialize`, `NoServerLeft` that no server outlives its exchange, `Refreshes`
that the module ends and can be run again unless a server hangs.

### LoaderKargs

The loader entries are files on the shared disk. `OpenEntry` is the `cp` that
has opened one (it is empty now), `WriteEntry` the end of it, `End` stops a run
anywhere, so that an entry may stay empty. `Config(WithPreset(env, preset))` is
the configuration that `Config.__post_init__()` makes of the environment and the
preset; it decides whether a run patches (`Launch`), copies kernel and first
entry off the disk (`Prepare`), or leaves the arguments to `fw_cfg`
(`StubCmdline`). `GuestBoots` is the guest's loader, which reads an entry as it
is on the disk by then. A command line is the set of its arguments, and the
managed ones are grouped: a log level stands for those of
`default_kernel_cmdline()` that belong to it alone. `foreign` and `overtaken`
are history: what overrides have left on the disk, and whose patch another run
has patched over.

| Property | Says |
|---|---|
| `BaseKept` | whatever has patched the disk, and wherever it stopped, an entry that has its kernel has the arguments of the installation, and beside them only managed ones and what an override has left |
| `GuestHasOwn` | a guest gets the arguments its configuration asks for, and, if it patched or booted directly, no managed ones of an earlier boot; what is asked for by `fw_cfg` arrives only with the serial log on |

An argument of `BOOTC_VM_KERNEL_CMDLINE` that no pattern matches stays on the
disk for every later boot, until the disk is made anew: `foreign` is there
because `BaseKept` fails without it.

### HostUpgrade

Each upgrade goes through `main()`; the iidfile, the image storages of root and
of the user, what `bootc` has staged and the host are shared. An image stands
for the state of the source tree it was built from. `RemoveFirst` and `Finally`
may leave the file, since their `rm -f` is not checked; `Build` makes the image
and opens the file, `WriteIid` fills it, and a reboot takes every upgrade down
but not the file. `Killed` ends python, through the `finally` or not; the
command it was waiting for ends too, or goes on as one of `orphans`: it runs as
root, out of the reach of the user's signals, or in a unit of `systemd-run`. An
orphan still does all that its command does (`OrphanBuilds`, `OrphanWritesIid`,
`OrphanSwitches`, `OrphanReboots`, `OrphanRemoves`), or fails (`OrphanEnds`).
`Identities` is `root_prefix()`, which is asked for every command anew:
`systemd-run` is taken only if it answers now.

`SwitchesOwn`: the upgrade that reboots the host has staged the image it has
built, in root's storage, whatever earlier ones have left in the file, in the
storages and staged, unless another upgrade was under way, or an orphan. Then it
may fail: an orphaned build writes the file of a later upgrade between its build
and line 50, which switches the host to the orphan's image. `Upgraded`: when
nothing fails any more, an upgrade that stays alone ends with the host running
its image, unless the helper is `systemd-run`, with which the build and the
switch may be done by different users.

### BrowserTab

`Press` is the hotkey in a browser window, `ReadPrevious`, `PressCopy` (the keys
go to the window that is active then), `PollClipboard`, `LastLook`, `Restore`
and `Open` the script, the last also without a Chrome to open; `Copy` is the
browser, which copies when it gets to it or never, and `UserCopies` and
`UserMoves` the user. Addresses are tabs; text and a picture are the other
contents, and a picture is put back as text (`Garbled`).

`OpensTheTab`: a press that is left alone opens the tab it was meant for, or, if
the browser has not copied by the last look, the address that was in the
clipboard before. `ClipboardRestored`: when all is quiet the clipboard holds what
the user copied last, unless presses met each other or a late copy, or the user
copied during one.

## Runs

| Run | Result | Shows | Bounds |
|---|---|---|---|
| `aur_resolve` | passes, 79 307 states | the properties of the first table | 3 repositories, all lists of up to 3, 2 and 2 dependencies, 2 index states, 2 requests |
| `aur_build` | passes, 159 492 states | `CompleteAtHead`, `NoRebuild`, `Recovers` | 3 commits, 2 packages, 2 versions, 2 failures |
| `vm_artifact` | passes, 1 242 522 states | the four properties of the disk | 2 commands at a time, 2 image IDs, 1 failure |
| `vm_runner` | passes, 22 542 states | the three properties of the runner | 3 uses, 3 signals, 3 serial logins, root or not |
| `vm_waits` | passes, 7 764 states | the three properties of the waits | timeouts of 4 and 3 s, operations of 1–2 s, sleeps of 1 s, 2 serial logins |
| `vm_waits_slow` | `GivenItsTime` violated | one slow login ends the wait | the same |
| `loader_kargs` | passes, 2 794 980 states | `BaseKept`, `GuestHasOwn` | 2 runs at a time, 2 entries, 6 environments with 3 presets each |
| `host_upgrade` | passes, 520 910 states | `SwitchesOwn`, `Upgraded` | 2 upgrades at a time, 2 states of the tree, 1 failure, 2 helpers |
| `claude_usage` | passes, 638 810 states | `LastSuccessful`, `Converges` | 2 bars, 2 sessions, 3 records, 1 killed run or lost write |
| `codex_usage` | passes, 18 142 states | `ReplyIsOwn`, `NoServerLeft`, `Refreshes` | 2 lines in the pipe |
| `codex_usage_hang` | `EndsInTime` violated | `readline()` outlasts the deadline | the same |
| `browser_tab` | passes, 4 710 090 states | `OpensTheTab`, `ClipboardRestored` | 2 presses at a time, 2 tabs, 2 polls, 1 act of the user |

Each passing run also checks its module's type invariant, but `claude_usage`,
whose is proved.

Why the bounds are enough: three repositories with every dependency list give
every graph on three nodes, so chains, diamonds, self-loops and cycles of each
length occur, with a name two of them provide and one that a search result does
not. In `AurBuild` two packages are needed for a half-built set, three commits
for a stamp that is neither the old nor the new one, and one failure for every
violation found. In `VmArtifact` two IDs and the disk's other contents (none,
blank, partly written, mixed) let disk, stamp and tag all differ, and one
failure with two commands reaches every event. `VmRunner` has no bound but the
signals: the first runs `cleanup()`, the second may cut it short, the third
meets the exception of the second on its way; the three serial logins are those
of the code. In `VmWaits` the waits take several attempts before they time out,
an attempt is longer than a sleep, and the timeout is longer than the bound in
`DeathIsNoticed`, so that a death that went unnoticed would show; the real
numbers (300 s, 5 s, 20 s, 2 s) stand in the same order. In `LoaderKargs` two
entries let a run stop between them, the second run overtakes the first, and the
disk is not reset between boots, so their number has no bound; the environments
differ in level, override, serial log, direct boot, patch and sandbox. Two
upgrades and two states of the tree let the iidfile hold another one's image,
and one failure leaves an orphan beside a later upgrade (two failures, four
million states, show nothing else but take longer than a run should); of the
helpers, `sudo`, `run0` and being root act alike. Two tabs and two presses are
needed for a wrong address; 2 polls stand for the 40, whose number only says how
long the browser has. The bounds matter to the liveness properties alone: what
the runs check of safety is proved for all values of the constants.

Deadlock is checked where a component runs for ever (`AurBuild`, `VmArtifact`,
`LoaderKargs`, `HostUpgrade`, `ClaudeUsage`). `AurResolve`, `VmRunner` and
`VmWaits` end, `CodexUsage` stops behind a server that hangs, and `BrowserTab`
when its user, who is bounded, sits in front of a window that is no browser.

## Fairness

Weak fairness on the steps of the program and on nothing else: `AurResolve` is
one sequential process whose commands all end (RPC requests and their retries
are bounded by timeouts). A run of `AurBuild` or a command of `VmArtifact` goes
on once begun; nobody has to start one, push, build or fail. In `VmRunner` the
end of a run is fair, because each of its waits has a timeout, and so are the
tests of a fixture, whose commands have timeouts, and a serial login and its
reset, which have them too; an interactive VM may be used for ever. `VmWaits` is
fair to the clock, the runner and the tests, and to neither the guest nor qemu:
nothing promises that it boots. In `ClaudeUsage` Waybar polls for ever and a
hook that has begun ends; in `CodexUsage` Waybar, the module, the clock and a
server that neither exits nor hangs go on. In `HostUpgrade` an upgrade that has
begun goes on, each step a command that ends, and a host that was asked to
reboot does; nobody has to start an upgrade, and nothing is asked of an orphan.
The properties of `LoaderKargs` and `BrowserTab` are safety. `Termination`,
`Recovers`, the two `Refreshes`, `SignalEnds`, `Ends`, `Upgraded` and
`Converges` rest on this.

## Proofs

Every safety property of the runs, invariant or action property, and the
refinement of `BuildOrder` are proved, for every value of the constants; the
theorems rest on the named assumptions of the modules, which only give the
constants their types and keep the markers apart, and one of them on a
hypothesis of its own (`ProvidersProvide`, below). Few of the properties are
inductive: what had to be added is the argument for them.

`AurResolveProofs`, for every set of repositories, every index behaviour and
every `.SRCINFO` (`ResolveAssumption`: a search result has a repository):

* `TypeCorrect` and `DecisionsStandAlways`. `select_provider()` returns a
  remembered provider and nothing else, so writing its answer back changes no
  name that had one (`RememberKeeps`); `load_repo()` keeps what is cached.
* `SearchCorrect`: `Spec => []SearchInv`, and from it `OrderIsBuildOrder`
  (`DepsFirst`), `NoneTwice` (`ResolvedOnce`), `RecursionIsPath` (`StackIsPath`)
  and `CyclesAreReal` (`CycleIsReal`). `DepsFirst` is not inductive: when a call
  returns, its dependencies have to be in the order, and nothing in `DepsFirst`
  says so. `Explored` does: of every open call, the dependencies before `next`
  are pacman's business, or have a provider in the order, or (the last one, below
  the innermost call) one that is the next call on the stack. It survives a call
  because the provider is the new frame, and a return because the new entry of
  the order is the frame that goes; it survives the changing AUR by
  `DecisionsKept`, since an explored provider is known.
* `BuildsAreReady` (`BuildReady`) and `StageRefinesBuildOrder`
  (`ImplementsBuildOrder`). To the search they add `Progress`, which says what
  each phase of `main()` has achieved (every request that was begun is in the
  order or open), and `OfficialKnown`, which says of the official packages what
  `Explored` says of providers. In the refinement a request that is read, a call
  that ends, a repository that is built and the end of `main()` are steps of
  `BuildOrder`; all others are stutters.
* `ProvidersProvide` (`ProviderProvides`). Through `symbol_to_repo` it follows
  from the `.SRCINFO` that was loaded (`SymbolsOwned`), through an exact name or
  several results from what was looked up. A single result of the search
  `by=provides` is taken as it comes (line 264), so the theorem has a hypothesis
  about the AUR, `SingleHitProvides`: such a result provides the name. Nothing in
  the code ensures it, and without it the property is false. The index of
  `MCAurResolve` satisfies it, which TLC checks there.

`AurBuildProofs`, for any commits, packages, versions and failures
(`BuildAssumption`: a commit has finitely many packages): `TypeCorrect`,
`InstallsComplete` (`CompleteAtHead`) and `StampedIsKept` (`NoRebuild`).
`StampCounts` holds whatever happens: archives are never removed, so a stamped
commit keeps passing the test on their number, and one that is torn stays in the
place of a whole one. `AtHead` holds until somebody
strays: the stamp is no newer than the commit worked on and that no newer than
the branch, so an archive that is overwritten belongs to no later stamp; behind
a stamp, in a build outside `todo` and in what is installed, every package is of
the commit.

`VmArtifactProofs`, for any images, processes and failures: `TypeCorrect`,
`ReadyHoldsImage` (`ReadyIsInstalled`), `SandboxBootsStamped`
(`SandboxIsStamped`) and `FreshDiskStays` (`OnlyWhenChanged`). The properties
speak of what is ready, but the stamp that a command reads was left by one that
may have failed anywhere. `StampIsRight` and `StampIsOld` say what it is worth in
between: right, if every disk that was written was stamped; right or of an older
image, if every command compared IDs. `Solo` reduces a calm system to the one
command that is under way, and `Working` says what that one knows at each step.

`VmRunnerProofs`, for any number of signals: `TypeCorrect`, `ExitIsClean`
(`ExitStopsVm`) and `EspIsSafe` (`EspSafe`). What holds at the exit was settled
long before: by the assignments of `vm_proc` and `log_tail_proc` (`VmKnown`,
`TailKnown`), by the `cleanup()` that was not cut short (`CleaningDone`,
`CleanedUp`), by the `finally` that unmounted (`EspInside`).

`VmWaitsProofs`, for any timeouts and durations: `TypeCorrect`, `WaitsEnd`
(`WaitsAreBounded`) and `DeathEndsRun` (`DeathIsNoticed`). Bounds on what has
passed are not inductive, since an operation that begins may still take its
time; `Deadlines` and `Death` bound what has passed together with what is left.
`Bootstrap` counts the serial logins that are left. The proof has corrected the
property: a graphical run may lose its qemu in one of the waits before the
bootstrap, so its bound, too, is the larger of an attempt and the serial logins.
The numbers of the run had not shown the difference.

`HostUpgradeProofs`, for any number of upgrades, source states and failures:
`TypeCorrect` and `RebootsIntoOwn` (`SwitchesOwn`). `Alone` says that an upgrade
nobody overlapped is the only one under way, `NoOrphans` that then no command of
a killed one is left either, `HandsOn` that its image passes unchanged from the
file to what it has read and what is staged. A step of an orphan therefore has no
upgrade to disturb that is on its way to a reboot and counts as alone.

`LoaderKargsProofs`, for any runs, entries, arguments and environments
(`KargsAssumption`: `"unset"` is no argument): `TypeCorrect`, `ArgumentsKept`
(`BaseKept`) and `OwnArguments` (`GuestHasOwn`). Between the two steps of `cp`
the arguments of an entry are only in `text[r]`, and `TextKept` says that they
are all there. What a guest reads was written some steps before: `OwnOnDisk`
says that the entries a run has patched have its own arguments until its guest
has booted, or it counts as overtaken. A write by another run keeps that because
no two runs patch at a time (`OnePatches`), which `Launch` imposes (see "Not
modelled"), and because a run that waits for its boot is overtaken by every
write. `Appended` is the same for what a direct boot hands to qemu.

`DesktopProofs` extends `ClaudeUsage`, `CodexUsage` and `BrowserTab`, which share
no variables; that is why the specifications of the last two are `CodexSpec` and
`TabSpec`:

* Claude, for any bars, sessions, records and kills (`UsageAssumption`: a file
  without a summary is none): `UsageTypeCorrect`, `CacheIsHealed`
  (`CacheHeals`) and `StaleIsLast` (`LastSuccessful`). `Alone` is what they
  need: while a run counts as alone every other bar is idle, and the file it has
  opened is still empty when it writes. Without it the write that ends the
  disturbance could be followed by that of a run which began before.
* Codex, for a pipe of any size: `CodexTypeCorrect`, `RepliesAreOwn`
  (`ReplyIsOwn`) and `ServersEnd` (`NoServerLeft`). `OwnReplies` extends the
  property to the whole exchange, `Sending` keeps the message numbers in range.
* The hotkey, for any tabs, presses, polls and acts of the user:
  `TabTypeCorrect`, `TabIsOpened` (`OpensTheTab`) and `ClipboardIsRestored`
  (`ClipboardRestored`). `LeftAlone` follows what the clipboard can hold from
  the press to the last look; `KeptSafe` says who holds the user's content:
  the clipboard, or the single press that is going to put it back.

Model-checked only: the liveness properties (`Termination`, `Recovers`, the two
`Refreshes`, `SignalEnds`, `Ends`, `Upgraded`, `Converges`), which rest on
fairness and are out of the prover's reach, and the two that are violated. The
refinement theorem covers the safety part of `BuildOrder`, which is all of it.

## Not modelled

* `makepkg`, `pacman`, `git`, `podman`, `bootc`, `qemu` are environment: actions
  that do what the code relies on, or fail.
* Versions: the code drops constraints with `dep_name()`; so do the models.
* A lock file that a killed `git` leaves: what `git` makes of it is not in the
  repository.
* The app-server of the bar is sent SIGTERM and not waited for; that it ends is
  assumed. A kill of the usage module itself leaves it to the end of its pipe.
* The diagnostics a failed bootstrap prints. The scripts of `guest.py` are remote
  commands that succeed, fail or do not end in time.
* Two runs that mount the ESP at the same time: what two mounts of one FAT file
  system leave is not in the repository, so `LoaderKargs` lets one run patch at a
  time. Likewise what a guest writes to the ESP without an overlay, and a disk
  regenerated under the overlay of a running VM.
* The order of arguments, and the second of two equal neighbours, which the
  patterns of `strip_managed_kargs()` skip; no command line of this code has any.
* `provision-claude`, run once by hand; the wording, icons and labels of the bar;
  six functions of the usage module that nothing calls.
* The fix-ups and the keymap synchronisation: one process, one test and one step
  each. The PAM hook and the drop-ins add a line that `grep` does not find; two
  first logins at once may add it twice, which changes nothing for Hyprland.
* Recipe helpers, test drivers, the tests themselves and static configuration:
  they have no state of their own.

## Plan

1. Proofs that are left: the progress measures behind the liveness properties,
   as far as they are safety (each turn of the search explores one more
   dependency, each serial login is one less), and `ReadyIsInstalled` under
   weaker conditions than `StampTells`.
2. `UsageLabels`: the numeric functions of the usage module (rounding up of
   durations, percentages, bucket labels) against a reference.
