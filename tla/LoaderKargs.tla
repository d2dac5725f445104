----------------------------- MODULE LoaderKargs -----------------------------
(***************************************************************************)
(* The kernel command line of the guest: Config (vm_smoke/config.py),      *)
(* config_for() (run_vm_preset.py) and, in vm_smoke/qemu.py,               *)
(* strip_managed_kargs(), effective_kernel_cmdline(),                      *)
(* inject_loader_kargs(), prepare_direct_kernel_boot() and the fw_cfg part *)
(* of build_qemu_command().                                                *)
(*                                                                         *)
(* The loader entries are files on the ESP of bootable.img.  One boot      *)
(* patches them in place and the next, of another configuration, finds     *)
(* what it has left.  A command line is the set of its arguments: the      *)
(* patterns of strip_managed_kargs() skip the second of two equal          *)
(* neighbours, which no command line of this code has.                     *)
(***************************************************************************)
EXTENDS Naturals

CONSTANTS
    Runs,       \* runs of the VM runner that may be under way at one time
    Entries,    \* the loader entries, in the order of their names
    Base,       \* the arguments `bootc install' gave each of them
    Foreign,    \* arguments that no pattern of strip_managed_kargs() matches
    Envs        \* the environments the runner is started in

Levels == {"quiet", "normal", "debug"}

SerialArgs == {"console=ttyS0", "earlycon"}

\* What strip_managed_kargs() removes; a level stands for the arguments of
\* default_kernel_cmdline() that belong to it alone.
Managed == Levels \cup SerialArgs \cup {"ssh_auto", "ssh_listen"}

Args == Managed \cup Foreign

Option == {"unset", "0", "1"}

\* BOOTC_VM_KERNEL_CMDLINE, or {"unset"}.
Cmdlines == (SUBSET Args) \cup {{"unset"}}

EnvType ==
    [sandbox : BOOLEAN, serial_kernel_log : BOOLEAN, ssh_generator : BOOLEAN,
     inject : Option, direct : Option, listen_credential : Option,
     level : Levels, kernel_cmdline : Cmdlines]

ASSUME KargsAssumption ==
    /\ Entries \subseteq Nat
    /\ Base \in [Entries -> SUBSET Args]
    /\ Foreign \cap (Managed \cup {"unset"}) = {}
    /\ Envs \subseteq EnvType

VARIABLES
    entry,      \* the files: their kernel lines and their options line
    pc,
    cfg,        \* of each run
    todo,       \* the entries a run has still to patch
    text,       \* what it is writing to the next one
    cmdline,    \* qemu's -append, then the command line of the guest
    foreign,    \* history: the arguments overrides have left on the disk
    overtaken   \* history: the runs after whose patch another one patched

vars == <<entry, pc, cfg, todo, text, cmdline, foreign, overtaken>>

-----------------------------------------------------------------------------
(***************************************************************************)
(* The configuration.                                                      *)
(***************************************************************************)

\* config_for(): what the presets of run_vm_preset.py give Config() beside
\* the environment; "none" is boot_vm_smoke.py.  graphical and run-graphical
\* are alike here, and so are the two sandboxes.
Presets == {"none", "graphical", "sandbox"}

WithPreset(env, preset) ==
    IF preset = "none" THEN env
    ELSE [env EXCEPT !.inject = "0", !.sandbox = @ \/ preset = "sandbox"]

Given(option, default) ==
    IF option = "unset" THEN default ELSE option = "1"

\* Config.__post_init__().
Config(env) ==
    [sandbox    |-> env.sandbox,
     inject     |-> Given(env.inject, ~env.sandbox),
     direct     |-> Given(env.direct, env.sandbox),
     credential |-> Given(env.listen_credential, TRUE),
     serial     |-> env.serial_kernel_log,
     generator  |-> env.ssh_generator,
     level      |-> env.level,
     override   |-> env.kernel_cmdline]

ConfigType ==
    [sandbox : BOOLEAN, inject : BOOLEAN, direct : BOOLEAN,
     credential : BOOLEAN, serial : BOOLEAN, generator : BOOLEAN,
     level : Levels, override : Cmdlines]

DefaultCmdline(level) ==
    {level, "console=ttyS0"} \cup IF level = "debug" THEN {"earlycon"} ELSE {}

SshArgs(c) ==
    {"ssh_auto"} \cup IF c.credential THEN {} ELSE {"ssh_listen"}

\* (mutant) the default is not used
MutEffectiveCmdline(c) == c.override \cup IF c.generator THEN SshArgs(c) ELSE {}

\* effective_kernel_cmdline().
EffectiveCmdline(c) ==
    LET given == IF c.override = {"unset"} THEN DefaultCmdline(c.level)
                                           ELSE c.override
    IN  (given \ IF c.serial THEN {} ELSE SerialArgs)
            \cup IF c.generator THEN SshArgs(c) ELSE {}

\* (mutant) the listener has no pattern
MutStrip(options) == options \ (Managed \ {"ssh_listen"})

\* strip_managed_kargs().
Strip(options) == options \ Managed

-----------------------------------------------------------------------------
Installed == [e \in Entries |-> [kernel |-> TRUE, options |-> Base[e]]]

Emptied == [kernel |-> FALSE, options |-> {}]

NoConfig ==
    [sandbox |-> FALSE, inject |-> FALSE, direct |-> FALSE,
     credential |-> TRUE, serial |-> TRUE, generator |-> TRUE,
     level |-> "quiet", override |-> {"unset"}]

EntryType == [kernel : BOOLEAN, options : SUBSET Args]

TypeOK ==
    /\ entry \in [Entries -> EntryType]
    /\ pc \in [Runs -> {"idle", "patch", "copy", "prepare", "boot", "up"}]
    /\ cfg \in [Runs -> ConfigType]
    /\ todo \in [Runs -> SUBSET Entries]
    /\ text \in [Runs -> EntryType]
    /\ cmdline \in [Runs -> SUBSET Args]
    /\ foreign \subseteq Foreign
    /\ overtaken \subseteq Runs

Init ==
    /\ entry = Installed
    /\ pc = [r \in Runs |-> "idle"]
    /\ cfg = [r \in Runs |-> NoConfig]
    /\ todo = [r \in Runs |-> {}]
    /\ text = [r \in Runs |-> Emptied]
    /\ cmdline = [r \in Runs |-> {}]
    /\ foreign = {}
    /\ overtaken = {}

Goto(r, label) == pc' = [pc EXCEPT ![r] = label]

\* sorted(): the entry of S that comes first.
IsFirst(e, S) == e \in S /\ \A f \in S : e <= f

Patching == {r \in Runs : pc[r] \in {"patch", "copy"}}

\* generate_bootable_image.py, with no run under way: see VmArtifact.
Regenerate ==
    /\ \A r \in Runs : pc[r] = "idle"
    /\ entry' = Installed
    /\ foreign' = {}
    /\ UNCHANGED <<pc, cfg, todo, text, cmdline, overtaken>>

\* "Sandbox mode cannot patch loader kernel args": the run ends there.
Accepted(c) == ~(c.inject /\ c.sandbox)

\* The ESP is not mounted twice: what two mounts of one file system leave
\* behind is not for this module.
Launch(r) ==
    /\ pc[r] = "idle"
    /\ \E env \in Envs, preset \in Presets :
           LET c == Config(WithPreset(env, preset))
           IN  /\ Accepted(c)
               /\ c.inject => Patching = {}
               /\ cfg' = [cfg EXCEPT ![r] = c]
               /\ Goto(r, IF c.inject THEN "patch" ELSE "prepare")
               /\ todo' = [todo EXCEPT ![r] = IF c.inject THEN Entries ELSE {}]
    /\ UNCHANGED <<entry, text, cmdline, foreign, overtaken>>

\* (mutant) the options of the entry are replaced
MutPatched(x, c) == [x EXCEPT !.options = EffectiveCmdline(c)]

Patched(x, c) == [x EXCEPT !.options = Strip(@) \cup EffectiveCmdline(c)]

\* The entry is read, its new text prepared, and `cp' has opened the file.
OpenEntry(r) ==
    /\ pc[r] = "patch"
    /\ \E e \in Entries :
           /\ IsFirst(e, todo[r])
           /\ text' = [text EXCEPT ![r] = Patched(entry[e], cfg[r])]
           /\ entry' = [entry EXCEPT ![e] = Emptied]
    /\ Goto(r, "copy")
    /\ UNCHANGED <<cfg, todo, cmdline, foreign, overtaken>>

WriteEntry(r) ==
    /\ pc[r] = "copy"
    /\ \E e \in Entries :
           /\ IsFirst(e, todo[r])
           /\ entry' = [entry EXCEPT ![e] = text[r]]
           /\ todo' = [todo EXCEPT ![r] = @ \ {e}]
    /\ foreign' = foreign \cup (EffectiveCmdline(cfg[r]) \ Managed)
    /\ overtaken' = overtaken \cup {q \in Runs : pc[q] \in {"prepare", "boot"}}
    /\ Goto(r, "patch")
    /\ UNCHANGED <<cfg, text, cmdline>>

\* The ESP is unmounted.
PatchDone(r) ==
    /\ pc[r] = "patch"
    /\ todo[r] = {}
    /\ Goto(r, "prepare")
    /\ UNCHANGED <<entry, cfg, todo, text, cmdline, foreign, overtaken>>

\* A direct boot copies the ESP and takes the first entry on it.  One without
\* kernel lines passes the test for the files, but qemu does not start.
Prepare(r) ==
    /\ pc[r] = "prepare"
    /\ IF cfg[r].direct
       THEN \E e \in Entries :
                /\ IsFirst(e, Entries)
                /\ entry[e].kernel
                /\ cmdline' = [cmdline EXCEPT ![r] =
                       Strip(entry[e].options) \cup EffectiveCmdline(cfg[r])]
       ELSE UNCHANGED cmdline
    /\ Goto(r, "boot")
    /\ UNCHANGED <<entry, cfg, todo, text, foreign, overtaken>>

\* name=opt/org.systemd.stub.kernel-cmdline.
StubCmdline(c) ==
    IF c.serial /\ ~c.inject THEN EffectiveCmdline(c) ELSE {}

\* The loader of the guest reads an entry, through the overlay, from the disk
\* as it is now, and the stub appends what fw_cfg holds.
GuestBoots(r) ==
    /\ pc[r] = "boot"
    /\ IF cfg[r].direct
       THEN UNCHANGED cmdline
       ELSE \E e \in Entries :
                /\ entry[e].kernel
                /\ cmdline' = [cmdline EXCEPT ![r] =
                       entry[e].options \cup StubCmdline(cfg[r])]
    /\ Goto(r, "up")
    /\ UNCHANGED <<entry, cfg, todo, text, foreign, overtaken>>

\* A run ends: after its boot, or anywhere before, interrupted or failing,
\* `cp' on a full ESP included.
End(r) ==
    /\ pc[r] # "idle"
    /\ Goto(r, "idle")
    /\ cfg' = [cfg EXCEPT ![r] = NoConfig]
    /\ todo' = [todo EXCEPT ![r] = {}]
    /\ text' = [text EXCEPT ![r] = Emptied]
    /\ cmdline' = [cmdline EXCEPT ![r] = {}]
    /\ overtaken' = overtaken \ {r}
    /\ UNCHANGED <<entry, foreign>>

Next ==
    \/ Regenerate
    \/ \E r \in Runs :
           \/ Launch(r) \/ OpenEntry(r) \/ WriteEntry(r) \/ PatchDone(r)
           \/ Prepare(r) \/ GuestBoots(r) \/ End(r)

Spec == Init /\ [][Next]_vars

-----------------------------------------------------------------------------
\* However many boots of whatever configurations have patched the disk, and
\* wherever they were stopped: an entry that still has its kernel has all its
\* own arguments, and beside them and the managed ones only what an override
\* has left (strip_managed_kargs(), lines 20-42).
BaseKept ==
    \A e \in Entries :
        entry[e].kernel =>
            /\ Base[e] \ Managed \subseteq entry[e].options
            /\ entry[e].options \subseteq Base[e] \cup Managed \cup foreign

\* A guest gets the arguments its configuration asks for, and no managed ones
\* of an earlier boot.  A run without patch or direct boot shares the entries
\* with earlier ones, but what it asks for arrives unless the serial log is off.
GuestHasOwn ==
    \A r \in Runs :
        LET c   == cfg[r]
            own == EffectiveCmdline(c)
        IN  pc[r] = "up" =>
            /\ c.direct \/ (c.inject /\ r \notin overtaken) =>
                   /\ own \subseteq cmdline[r]
                   /\ cmdline[r] \cap Managed \subseteq own
            /\ ~c.inject /\ c.serial => own \subseteq cmdline[r]
            /\ \E e \in Entries : Base[e] \ Managed \subseteq cmdline[r]
=============================================================================
