-------------------------- MODULE LoaderKargsProofs --------------------------
(***************************************************************************)
(* TypeOK, BaseKept and GuestHasOwn of LoaderKargs, for any number of runs *)
(* and of loader entries, any arguments and any environments.              *)
(*                                                                         *)
(* BaseKept is not inductive: between the two steps of `cp' the arguments  *)
(* of an entry are only in text[r].  GuestHasOwn needs to know what a run  *)
(* leaves on the disk until its guest reads it: no other run patches       *)
(* meanwhile (OnePatches), or it counts as overtaken (OwnOnDisk).          *)
(***************************************************************************)
EXTENDS LoaderKargs, TLAPS

Labels == {"idle", "patch", "copy", "prepare", "boot", "up"}

\* The arguments an entry may have, given those that overrides have left.
Keeps(e, options, left) ==
    /\ Base[e] \ Managed \subseteq options
    /\ options \subseteq Base[e] \cup Managed \cup left

HasOwn(options, c) ==
    /\ EffectiveCmdline(c) \subseteq options
    /\ options \cap Managed \subseteq EffectiveCmdline(c)

TextKept ==
    \A r \in Runs : \A e \in Entries :
        pc[r] = "copy" /\ IsFirst(e, todo[r]) /\ text[r].kernel =>
            Keeps(e, text[r].options,
                  foreign \cup (EffectiveCmdline(cfg[r]) \ Managed))

OnePatches == \A q, r \in Runs : q \in Patching /\ r \in Patching => q = r

NothingLeft == \A r \in Runs : pc[r] \in {"prepare", "boot"} => todo[r] = {}

TextOwn == \A r \in Runs : pc[r] = "copy" => HasOwn(text[r].options, cfg[r])

OwnOnDisk ==
    \A r \in Runs :
        /\ pc[r] \in {"patch", "copy", "prepare", "boot"}
        /\ cfg[r].inject
        /\ r \notin overtaken
        => \A e \in Entries \ todo[r] :
               entry[e].kernel => HasOwn(entry[e].options, cfg[r])

\* What a direct boot has prepared for qemu.
Appended ==
    \A r \in Runs :
        pc[r] = "boot" /\ cfg[r].direct =>
            /\ HasOwn(cmdline[r], cfg[r])
            /\ \E e \in Entries : Base[e] \ Managed \subseteq cmdline[r]

IInv ==
    /\ TypeOK
    /\ BaseKept
    /\ TextKept
    /\ OnePatches
    /\ NothingLeft
    /\ TextOwn
    /\ OwnOnDisk
    /\ Appended
    /\ GuestHasOwn

-----------------------------------------------------------------------------
(***************************************************************************)
(* The operators of the configuration.                                     *)
(***************************************************************************)

\* Config() makes a configuration of every environment under every preset.
LEMMA ConfigOK ==
    ASSUME NEW env \in Envs, NEW preset \in Presets
    PROVE  Config(WithPreset(env, preset)) \in ConfigType
<1>1. env \in EnvType
  BY KargsAssumption
<1>2. WithPreset(env, preset) \in EnvType
  BY <1>1 DEF WithPreset, EnvType, Option, Presets
<1>3. ASSUME NEW o \in Option, NEW d \in BOOLEAN
      PROVE  Given(o, d) \in BOOLEAN
  BY <1>3 DEF Given, Option
<1>. DEFINE w == WithPreset(env, preset)
<1>4. /\ w.sandbox \in BOOLEAN /\ w.serial_kernel_log \in BOOLEAN
      /\ w.ssh_generator \in BOOLEAN /\ w.inject \in Option
      /\ w.direct \in Option /\ w.listen_credential \in Option
      /\ w.level \in Levels /\ w.kernel_cmdline \in Cmdlines
  BY <1>2 DEF EnvType
<1>5. /\ Given(w.inject, ~w.sandbox) \in BOOLEAN
      /\ Given(w.direct, w.sandbox) \in BOOLEAN
      /\ Given(w.listen_credential, TRUE) \in BOOLEAN
  BY <1>3, <1>4
<1>. HIDE DEF w
<1>6. Config(w) \in ConfigType
  BY <1>4, <1>5 DEF Config, ConfigType
<1>. QED
  BY <1>6 DEF w

\* effective_kernel_cmdline() yields arguments, whatever the configuration.
LEMMA EffectiveOK ==
    ASSUME NEW c \in ConfigType
    PROVE  EffectiveCmdline(c) \subseteq Args
<1>1. c.level \in Levels /\ c.override \in Cmdlines
  BY DEF ConfigType
<1>2. DefaultCmdline(c.level) \subseteq Args
  BY <1>1 DEF DefaultCmdline, Args, Managed, SerialArgs
<1>3. SshArgs(c) \subseteq Args
  BY DEF SshArgs, Args, Managed
<1>4. c.override = {"unset"} \/ c.override \subseteq Args
  BY <1>1 DEF Cmdlines
<1>. QED
  BY <1>2, <1>3, <1>4 DEF EffectiveCmdline

\* An entry that inject_loader_kargs() has patched has the arguments of the
\* configuration and no other managed ones.
LEMMA PatchedOwn ==
    ASSUME NEW x \in EntryType, NEW c \in ConfigType
    PROVE  HasOwn(Patched(x, c).options, c)
  BY DEF HasOwn, Patched, Strip, EntryType

LEMMA PatchedOK ==
    ASSUME NEW x \in EntryType, NEW c \in ConfigType
    PROVE  Patched(x, c) \in EntryType /\ Patched(x, c).kernel = x.kernel
<1>1. Strip(x.options) \cup EffectiveCmdline(c) \in SUBSET Args
  BY EffectiveOK DEF Strip, EntryType
<1>. QED
  BY <1>1 DEF Patched, EntryType

\* Patching an entry leaves its own arguments, and adds to the others only
\* what an override brings.
LEMMA PatchedKeeps ==
    ASSUME NEW e \in Entries, NEW x \in EntryType, NEW c \in ConfigType,
           NEW left, Keeps(e, x.options, left)
    PROVE  Keeps(e, Patched(x, c).options,
                 left \cup (EffectiveCmdline(c) \ Managed))
  BY DEF Keeps, Patched, Strip, EntryType

LEMMA FirstIsOne ==
    ASSUME NEW S \in SUBSET Entries, NEW d, NEW e,
           IsFirst(d, S), IsFirst(e, S)
    PROVE  d = e
<1>1. d \in Nat /\ e \in Nat /\ d <= e /\ e <= d
  BY KargsAssumption DEF IsFirst
<1>. QED
  BY <1>1
-----------------------------------------------------------------------------
(***************************************************************************)
(* Type correctness.                                                       *)
(***************************************************************************)

LEMMA NoConfigOK == NoConfig \in ConfigType
  BY DEF NoConfig, ConfigType, Levels, Cmdlines

LEMMA InstalledOK == Installed \in [Entries -> EntryType]
<1>1. ASSUME NEW e \in Entries
      PROVE  [kernel |-> TRUE, options |-> Base[e]] \in EntryType
  BY KargsAssumption DEF EntryType
<1>. QED
  BY <1>1 DEF Installed

LEMMA EmptiedOK == Emptied \in EntryType
  BY DEF Emptied, EntryType

LEMMA TypeInit == Init => TypeOK
  BY NoConfigOK, InstalledOK, EmptiedOK DEF Init, TypeOK

LEMMA TypeStep == TypeOK /\ [Next]_vars => TypeOK'
<1>. SUFFICES ASSUME TypeOK, [Next]_vars PROVE TypeOK'
  OBVIOUS
<1>. USE DEF TypeOK, Goto
<1>1. CASE Regenerate
  BY <1>1, InstalledOK DEF Regenerate
<1>2. ASSUME NEW r \in Runs, Launch(r) PROVE TypeOK'
  <2>1. PICK env \in Envs, preset \in Presets :
            /\ cfg' = [cfg EXCEPT ![r] = Config(WithPreset(env, preset))]
            /\ Goto(r, IF Config(WithPreset(env, preset)).inject
                       THEN "patch" ELSE "prepare")
            /\ todo' = [todo EXCEPT ![r] =
                   IF Config(WithPreset(env, preset)).inject
                   THEN Entries ELSE {}]
    BY <1>2 DEF Launch
  <2>2. cfg' \in [Runs -> ConfigType]
    BY <2>1, ConfigOK
  <2>3. /\ pc' \in [Runs -> Labels]
        /\ todo' \in [Runs -> SUBSET Entries]
    BY <2>1 DEF Labels
  <2>. QED
    BY <1>2, <2>2, <2>3 DEF Launch, Labels
<1>3. ASSUME NEW r \in Runs, OpenEntry(r) PROVE TypeOK'
  <2>1. PICK e \in Entries :
            /\ text' = [text EXCEPT ![r] = Patched(entry[e], cfg[r])]
            /\ entry' = [entry EXCEPT ![e] = Emptied]
    BY <1>3 DEF OpenEntry
  <2>2. Patched(entry[e], cfg[r]) \in EntryType
    BY PatchedOK
  <2>. QED
    BY <1>3, <2>1, <2>2, EmptiedOK DEF OpenEntry
<1>4. ASSUME NEW r \in Runs, WriteEntry(r) PROVE TypeOK'
  <2>1. EffectiveCmdline(cfg[r]) \ Managed \subseteq Foreign
    BY EffectiveOK DEF Args
  <2>2. foreign' \subseteq Foreign /\ overtaken' \subseteq Runs
    BY <1>4, <2>1 DEF WriteEntry
  <2>3. entry' \in [Entries -> EntryType] /\ todo' \in [Runs -> SUBSET Entries]
    BY <1>4 DEF WriteEntry
  <2>. QED
    BY <1>4, <2>2, <2>3 DEF WriteEntry
<1>5. ASSUME NEW r \in Runs, PatchDone(r) PROVE TypeOK'
  BY <1>5 DEF PatchDone
<1>6. ASSUME NEW r \in Runs, Prepare(r) PROVE TypeOK'
  <2>1. cmdline' \in [Runs -> SUBSET Args]
    <3>1. ASSUME NEW e \in Entries
          PROVE  Strip(entry[e].options) \cup EffectiveCmdline(cfg[r])
                     \in SUBSET Args
      BY EffectiveOK DEF Strip, EntryType
    <3>. QED
      BY <1>6, <3>1 DEF Prepare
  <2>. QED
    BY <1>6, <2>1 DEF Prepare
<1>7. ASSUME NEW r \in Runs, GuestBoots(r) PROVE TypeOK'
  <2>1. cmdline' \in [Runs -> SUBSET Args]
    <3>1. ASSUME NEW e \in Entries
          PROVE  entry[e].options \cup StubCmdline(cfg[r]) \in SUBSET Args
      BY EffectiveOK DEF StubCmdline, EntryType
    <3>. QED
      BY <1>7, <3>1 DEF GuestBoots
  <2>. QED
    BY <1>7, <2>1 DEF GuestBoots
<1>8. ASSUME NEW r \in Runs, End(r) PROVE TypeOK'
  BY <1>8, NoConfigOK, EmptiedOK DEF End
<1>9. CASE UNCHANGED vars
  BY <1>9 DEF vars
<1>. QED
  BY <1>1, <1>2, <1>3, <1>4, <1>5, <1>6, <1>7, <1>8, <1>9 DEF Next

\* The variables of the command line hold what their names say, for any
\* number of runs and any environments.
THEOREM TypeCorrect == Spec => []TypeOK
<1>. QED
  BY TypeInit, TypeStep, PTL DEF Spec
-----------------------------------------------------------------------------
(***************************************************************************)
(* The inductive invariant, one lemma per action.                          *)
(***************************************************************************)

LEMMA InvInit == Init => IInv
<1>. SUFFICES ASSUME Init PROVE IInv
  OBVIOUS
<1>1. TypeOK
  BY TypeInit
<1>2. BaseKept
  BY DEF Init, BaseKept, Installed
<1>. QED
  BY <1>1, <1>2 DEF Init, IInv, TextKept, OnePatches, NothingLeft, TextOwn,
     OwnOnDisk, Appended, GuestHasOwn, Patching

LEMMA RegenerateStep == IInv /\ Regenerate => IInv'
<1>. SUFFICES ASSUME IInv, Regenerate PROVE IInv'
  OBVIOUS
<1>1. TypeOK'
  BY TypeStep DEF IInv, Next
<1>2. BaseKept'
  BY DEF Regenerate, BaseKept, Installed
<1>3. \A r \in Runs : pc'[r] = "idle"
  BY DEF Regenerate
<1>. QED
  BY <1>1, <1>2, <1>3 DEF IInv, TextKept, OnePatches, NothingLeft, TextOwn,
     OwnOnDisk, Appended, GuestHasOwn, Patching

\* A run that has just been launched has nothing on the disk; the others keep
\* what they have.
LEMMA LaunchStep == ASSUME NEW r \in Runs PROVE IInv /\ Launch(r) => IInv'
<1>. SUFFICES ASSUME IInv, Launch(r) PROVE IInv'
  OBVIOUS
<1>1. TypeOK /\ TypeOK'
  BY TypeStep DEF IInv, Next
<1>2. PICK c \in ConfigType :
          /\ c.inject => Patching = {}
          /\ cfg' = [cfg EXCEPT ![r] = c]
          /\ pc' = [pc EXCEPT ![r] = IF c.inject THEN "patch" ELSE "prepare"]
          /\ todo' = [todo EXCEPT ![r] = IF c.inject THEN Entries ELSE {}]
  BY ConfigOK DEF Launch, Goto
<1>3. UNCHANGED <<entry, text, cmdline, foreign, overtaken>> /\ pc[r] = "idle"
  BY DEF Launch
<1>4. /\ pc'[r] \in {"patch", "prepare"} /\ cfg'[r] = c
      /\ c.inject => pc'[r] = "patch" /\ todo'[r] = Entries
      /\ ~c.inject => pc'[r] = "prepare" /\ todo'[r] = {}
  BY <1>1, <1>2 DEF TypeOK
<1>5. \A q \in Runs : q # r =>
          pc'[q] = pc[q] /\ cfg'[q] = cfg[q] /\ todo'[q] = todo[q]
  BY <1>1, <1>2 DEF TypeOK
<1>6. BaseKept'
  BY <1>3 DEF IInv, BaseKept
<1>7. TextKept'
  BY <1>3, <1>4, <1>5 DEF IInv, TextKept
<1>8. OnePatches'
  BY <1>2, <1>4, <1>5 DEF IInv, OnePatches, Patching
<1>9. NothingLeft'
  BY <1>4, <1>5 DEF IInv, NothingLeft
<1>10. TextOwn'
  BY <1>3, <1>4, <1>5 DEF IInv, TextOwn
<1>11. OwnOnDisk'
  BY <1>3, <1>4, <1>5 DEF IInv, OwnOnDisk
<1>12. Appended'
  BY <1>3, <1>4, <1>5 DEF IInv, Appended
<1>13. GuestHasOwn'
  BY <1>3, <1>4, <1>5 DEF IInv, GuestHasOwn
<1>. QED
  BY <1>1, <1>6, <1>7, <1>8, <1>9, <1>10, <1>11, <1>12, <1>13 DEF IInv

\* What leaves the entry is what `cp' has to write.
LEMMA OpenEntryStep == ASSUME NEW r \in Runs PROVE IInv /\ OpenEntry(r) => IInv'
<1>. SUFFICES ASSUME IInv, OpenEntry(r) PROVE IInv'
  OBVIOUS
<1>1. TypeOK /\ TypeOK'
  BY TypeStep DEF IInv, Next
<1>2. PICK e \in Entries :
          /\ IsFirst(e, todo[r])
          /\ text' = [text EXCEPT ![r] = Patched(entry[e], cfg[r])]
          /\ entry' = [entry EXCEPT ![e] = Emptied]
  BY DEF OpenEntry
<1>3. /\ UNCHANGED <<cfg, todo, cmdline, foreign, overtaken>>
      /\ pc[r] = "patch" /\ pc' = [pc EXCEPT ![r] = "copy"]
  BY DEF OpenEntry, Goto
<1>4. pc'[r] = "copy" /\ text'[r] = Patched(entry[e], cfg[r])
  BY <1>1, <1>2, <1>3 DEF TypeOK
<1>5. \A q \in Runs : q # r => pc'[q] = pc[q] /\ text'[q] = text[q]
  BY <1>1, <1>2, <1>3 DEF TypeOK
<1>6. ~entry'[e].kernel /\ \A f \in Entries : f # e => entry'[f] = entry[f]
  BY <1>1, <1>2 DEF TypeOK, Emptied
<1>7. BaseKept'
  BY <1>3, <1>6 DEF IInv, BaseKept
<1>8. TextKept'
  <2>. SUFFICES ASSUME NEW q \in Runs, NEW d \in Entries, pc'[q] = "copy",
                       IsFirst(d, todo[q]), text'[q].kernel
                PROVE  Keeps(d, text'[q].options,
                           foreign \cup (EffectiveCmdline(cfg[q]) \ Managed))
    BY <1>3 DEF TextKept, Keeps
  <2>1. CASE q # r
    BY <1>5, <2>1 DEF IInv, TextKept
  <2>2. CASE q = r
    <3>1. d = e
      BY <1>1, <1>2, <2>2, FirstIsOne DEF TypeOK
    <3>2. entry[e] \in EntryType /\ cfg[r] \in ConfigType
      BY <1>1 DEF TypeOK
    <3>3. entry[e].kernel
      BY <1>4, <2>2, <3>2, PatchedOK
    <3>4. Keeps(e, entry[e].options, foreign)
      BY <3>3 DEF IInv, BaseKept, Keeps
    <3>. QED
      BY <1>4, <2>2, <3>1, <3>2, <3>4, PatchedKeeps
  <2>. QED
    BY <2>1, <2>2
<1>9. OnePatches'
  BY <1>3, <1>4, <1>5 DEF IInv, OnePatches, Patching
<1>10. NothingLeft'
  BY <1>3, <1>4, <1>5 DEF IInv, NothingLeft
<1>11. TextOwn'
  <2>1. HasOwn(text'[r].options, cfg[r])
    BY <1>1, <1>4, PatchedOwn DEF TypeOK
  <2>. QED
    BY <1>3, <1>5, <2>1 DEF IInv, TextOwn, HasOwn
<1>12. OwnOnDisk'
  <2>. SUFFICES ASSUME NEW q \in Runs,
                       pc'[q] \in {"patch", "copy", "prepare", "boot"},
                       cfg[q].inject, q \notin overtaken,
                       NEW d \in Entries \ todo[q], entry'[d].kernel
                PROVE  HasOwn(entry'[d].options, cfg[q])
    BY <1>3 DEF OwnOnDisk, HasOwn
  <2>1. pc[q] \in {"patch", "copy", "prepare", "boot"}
    BY <1>3, <1>5
  <2>2. entry'[d] = entry[d]
    BY <1>6
  <2>. QED
    BY <2>1, <2>2 DEF IInv, OwnOnDisk
<1>13. Appended'
  BY <1>3, <1>4, <1>5 DEF IInv, Appended, HasOwn
<1>14. GuestHasOwn'
  BY <1>3, <1>4, <1>5 DEF IInv, GuestHasOwn
<1>. QED
  BY <1>1, <1>7, <1>8, <1>9, <1>10, <1>11, <1>12, <1>13, <1>14 DEF IInv

\* The file gets what the text has kept for it.  Runs that had patched before
\* and whose guest has not read the disk are overtaken from here on.
LEMMA WriteEntryStep == ASSUME NEW r \in Runs PROVE IInv /\ WriteEntry(r) => IInv'
<1>. SUFFICES ASSUME IInv, WriteEntry(r) PROVE IInv'
  OBVIOUS
<1>1. TypeOK /\ TypeOK'
  BY TypeStep DEF IInv, Next
<1>2. PICK e \in Entries :
          /\ IsFirst(e, todo[r])
          /\ entry' = [entry EXCEPT ![e] = text[r]]
          /\ todo' = [todo EXCEPT ![r] = @ \ {e}]
  BY DEF WriteEntry
<1>3. /\ UNCHANGED <<cfg, text, cmdline>>
      /\ pc[r] = "copy" /\ pc' = [pc EXCEPT ![r] = "patch"]
      /\ foreign' = foreign \cup (EffectiveCmdline(cfg[r]) \ Managed)
      /\ overtaken' = overtaken \cup {q \in Runs : pc[q] \in {"prepare", "boot"}}
  BY DEF WriteEntry, Goto
<1>4. pc'[r] = "patch" /\ todo'[r] = todo[r] \ {e}
  BY <1>1, <1>2, <1>3 DEF TypeOK
<1>5. \A q \in Runs : q # r => pc'[q] = pc[q] /\ todo'[q] = todo[q]
  BY <1>1, <1>2, <1>3 DEF TypeOK
<1>6. entry'[e] = text[r] /\ \A f \in Entries : f # e => entry'[f] = entry[f]
  BY <1>1, <1>2 DEF TypeOK
<1>7. \A q \in Runs : q # r => pc[q] \notin {"patch", "copy"}
  BY <1>3 DEF IInv, OnePatches, Patching
<1>8. BaseKept'
  <2>1. text[r].kernel => Keeps(e, text[r].options, foreign')
    BY <1>2, <1>3 DEF IInv, TextKept
  <2>2. ASSUME NEW f \in Entries, f # e, entry[f].kernel
        PROVE  Keeps(f, entry[f].options, foreign')
    BY <1>3, <2>2 DEF IInv, BaseKept, Keeps
  <2>. QED
    BY <1>6, <2>1, <2>2 DEF BaseKept, Keeps
<1>9. TextKept' /\ TextOwn'
  BY <1>4, <1>5, <1>7 DEF TextKept, TextOwn
<1>10. OnePatches'
  BY <1>4, <1>5, <1>7 DEF OnePatches, Patching
<1>11. NothingLeft'
  BY <1>4, <1>5 DEF IInv, NothingLeft
<1>12. OwnOnDisk'
  <2>. SUFFICES ASSUME NEW q \in Runs,
                       pc'[q] \in {"patch", "copy", "prepare", "boot"},
                       cfg[q].inject, q \notin overtaken',
                       NEW d \in Entries \ todo'[q], entry'[d].kernel
                PROVE  HasOwn(entry'[d].options, cfg[q])
    BY <1>3 DEF OwnOnDisk, HasOwn
  <2>1. q = r
    BY <1>3, <1>5, <1>7
  <2>2. CASE d = e
    BY <1>3, <1>6, <2>1, <2>2 DEF IInv, TextOwn
  <2>3. CASE d # e
    <3>1. d \in Entries \ todo[r] /\ entry'[d] = entry[d] /\ r \notin overtaken
      BY <1>3, <1>4, <1>6, <2>1, <2>3
    <3>. QED
      BY <1>3, <2>1, <3>1 DEF IInv, OwnOnDisk
  <2>. QED
    BY <2>2, <2>3
<1>13. Appended'
  BY <1>3, <1>4, <1>5 DEF IInv, Appended, HasOwn
<1>14. GuestHasOwn'
  <2>1. overtaken \subseteq overtaken'
    BY <1>3
  <2>. QED
    BY <1>3, <1>4, <1>5, <2>1 DEF IInv, GuestHasOwn
<1>. QED
  BY <1>1, <1>8, <1>9, <1>10, <1>11, <1>12, <1>13, <1>14 DEF IInv

LEMMA PatchDoneStep == ASSUME NEW r \in Runs PROVE IInv /\ PatchDone(r) => IInv'
<1>. SUFFICES ASSUME IInv, PatchDone(r) PROVE IInv'
  OBVIOUS
<1>1. TypeOK /\ TypeOK'
  BY TypeStep DEF IInv, Next
<1>2. /\ UNCHANGED <<entry, cfg, todo, text, cmdline, foreign, overtaken>>
      /\ pc[r] = "patch" /\ todo[r] = {} /\ pc' = [pc EXCEPT ![r] = "prepare"]
  BY DEF PatchDone, Goto
<1>3. pc'[r] = "prepare" /\ \A q \in Runs : q # r => pc'[q] = pc[q]
  BY <1>1, <1>2 DEF TypeOK
<1>4. BaseKept' /\ GuestHasOwn'
  BY <1>2, <1>3 DEF IInv, BaseKept, GuestHasOwn
<1>5. TextKept' /\ TextOwn'
  BY <1>2, <1>3 DEF IInv, TextKept, TextOwn, Keeps, HasOwn
<1>6. OnePatches' /\ NothingLeft'
  BY <1>2, <1>3 DEF IInv, OnePatches, Patching, NothingLeft
<1>7. OwnOnDisk'
  BY <1>2, <1>3 DEF IInv, OwnOnDisk, HasOwn
<1>8. Appended'
  BY <1>2, <1>3 DEF IInv, Appended, HasOwn
<1>. QED
  BY <1>1, <1>4, <1>5, <1>6, <1>7, <1>8 DEF IInv

\* A direct boot takes its arguments from an entry that has kept its own.
LEMMA PrepareStep == ASSUME NEW r \in Runs PROVE IInv /\ Prepare(r) => IInv'
<1>. SUFFICES ASSUME IInv, Prepare(r) PROVE IInv'
  OBVIOUS
<1>1. TypeOK /\ TypeOK'
  BY TypeStep DEF IInv, Next
<1>2. /\ UNCHANGED <<entry, cfg, todo, text, foreign, overtaken>>
      /\ pc[r] = "prepare" /\ pc' = [pc EXCEPT ![r] = "boot"]
  BY DEF Prepare, Goto
<1>3. pc'[r] = "boot" /\ \A q \in Runs : q # r => pc'[q] = pc[q]
  BY <1>1, <1>2 DEF TypeOK
<1>4. \A q \in Runs : q # r => cmdline'[q] = cmdline[q]
  BY <1>1 DEF Prepare, TypeOK
<1>5. BaseKept'
  BY <1>2 DEF IInv, BaseKept
<1>6. TextKept' /\ TextOwn'
  BY <1>2, <1>3 DEF IInv, TextKept, TextOwn, Keeps, HasOwn
<1>7. OnePatches' /\ NothingLeft'
  BY <1>2, <1>3 DEF IInv, OnePatches, Patching, NothingLeft
<1>8. OwnOnDisk'
  BY <1>2, <1>3 DEF IInv, OwnOnDisk, HasOwn
<1>9. Appended'
  <2>1. ASSUME cfg[r].direct
        PROVE  /\ HasOwn(cmdline'[r], cfg[r])
               /\ \E e \in Entries : Base[e] \ Managed \subseteq cmdline'[r]
    <3>1. PICK e \in Entries :
              /\ entry[e].kernel
              /\ cmdline' = [cmdline EXCEPT ![r] =
                     Strip(entry[e].options) \cup EffectiveCmdline(cfg[r])]
      BY <2>1 DEF Prepare
    <3>2. cmdline'[r] = Strip(entry[e].options) \cup EffectiveCmdline(cfg[r])
      BY <1>1, <3>1 DEF TypeOK
    <3>3. Base[e] \ Managed \subseteq entry[e].options
      BY <3>1 DEF IInv, BaseKept
    <3>. QED
      BY <3>2, <3>3 DEF HasOwn, Strip
  <2>. QED
    BY <1>2, <1>3, <1>4, <2>1 DEF IInv, Appended, HasOwn
<1>10. GuestHasOwn'
  BY <1>2, <1>3, <1>4 DEF IInv, GuestHasOwn
<1>. QED
  BY <1>1, <1>5, <1>6, <1>7, <1>8, <1>9, <1>10 DEF IInv

\* What the guest of r boots with.
LEMMA GuestBootsStep == ASSUME NEW r \in Runs PROVE IInv /\ GuestBoots(r) => IInv'
<1>. SUFFICES ASSUME IInv, GuestBoots(r) PROVE IInv'
  OBVIOUS
<1>1. TypeOK /\ TypeOK'
  BY TypeStep DEF IInv, Next
<1>2. /\ UNCHANGED <<entry, cfg, todo, text, foreign, overtaken>>
      /\ pc[r] = "boot" /\ pc' = [pc EXCEPT ![r] = "up"]
  BY DEF GuestBoots, Goto
<1>3. pc'[r] = "up" /\ \A q \in Runs : q # r => pc'[q] = pc[q]
  BY <1>1, <1>2 DEF TypeOK
<1>4. \A q \in Runs : q # r => cmdline'[q] = cmdline[q]
  BY <1>1 DEF GuestBoots, TypeOK
<1>5. BaseKept'
  BY <1>2 DEF IInv, BaseKept
<1>6. TextKept' /\ TextOwn'
  BY <1>2, <1>3 DEF IInv, TextKept, TextOwn, Keeps, HasOwn
<1>7. OnePatches' /\ NothingLeft'
  BY <1>2, <1>3 DEF IInv, OnePatches, Patching, NothingLeft
<1>8. OwnOnDisk'
  BY <1>2, <1>3 DEF IInv, OwnOnDisk, HasOwn
<1>9. Appended'
  BY <1>2, <1>3, <1>4 DEF IInv, Appended, HasOwn
<1>. DEFINE Reaches(q) ==
         /\ cfg[q].direct \/ (cfg[q].inject /\ q \notin overtaken) =>
                HasOwn(cmdline'[q], cfg[q])
         /\ ~cfg[q].inject /\ cfg[q].serial =>
                EffectiveCmdline(cfg[q]) \subseteq cmdline'[q]
         /\ \E e \in Entries : Base[e] \ Managed \subseteq cmdline'[q]
<1>10. ASSUME cfg[r].direct PROVE Reaches(r)
  BY <1>2, <1>10 DEF GuestBoots, IInv, Appended, HasOwn
<1>11. ASSUME ~cfg[r].direct PROVE Reaches(r)
  <2>1. PICK e \in Entries :
            /\ entry[e].kernel
            /\ cmdline' = [cmdline EXCEPT ![r] =
                   entry[e].options \cup StubCmdline(cfg[r])]
    BY <1>11 DEF GuestBoots
  <2>2. cmdline'[r] = entry[e].options \cup StubCmdline(cfg[r])
    BY <1>1, <2>1 DEF TypeOK
  <2>3. Base[e] \ Managed \subseteq entry[e].options
    BY <2>1 DEF IInv, BaseKept
  <2>4. ASSUME cfg[r].inject, r \notin overtaken
        PROVE  HasOwn(cmdline'[r], cfg[r])
    <3>1. HasOwn(entry[e].options, cfg[r])
      BY <1>2, <2>1, <2>4 DEF IInv, NothingLeft, OwnOnDisk
    <3>. QED
      BY <2>2, <2>4, <3>1 DEF StubCmdline
  <2>5. ASSUME ~cfg[r].inject, cfg[r].serial
        PROVE  EffectiveCmdline(cfg[r]) \subseteq cmdline'[r]
    BY <2>2, <2>5 DEF StubCmdline
  <2>. QED
    BY <1>11, <2>2, <2>3, <2>4, <2>5
<1>12. GuestHasOwn'
  BY <1>2, <1>3, <1>4, <1>10, <1>11 DEF IInv, GuestHasOwn, HasOwn
<1>. QED
  BY <1>1, <1>5, <1>6, <1>7, <1>8, <1>9, <1>12 DEF IInv

LEMMA EndStep == ASSUME NEW r \in Runs PROVE IInv /\ End(r) => IInv'
<1>. SUFFICES ASSUME IInv, End(r) PROVE IInv'
  OBVIOUS
<1>1. TypeOK /\ TypeOK'
  BY TypeStep DEF IInv, Next
<1>2. UNCHANGED <<entry, foreign>> /\ overtaken' = overtaken \ {r}
  BY DEF End
<1>3. pc'[r] = "idle"
  BY <1>1 DEF End, Goto, TypeOK
<1>4. \A q \in Runs : q # r =>
          /\ pc'[q] = pc[q] /\ cfg'[q] = cfg[q] /\ todo'[q] = todo[q]
          /\ text'[q] = text[q] /\ cmdline'[q] = cmdline[q]
          /\ (q \in overtaken' <=> q \in overtaken)
  BY <1>1 DEF End, Goto, TypeOK
<1>5. BaseKept'
  BY <1>2 DEF IInv, BaseKept
<1>6. TextKept' /\ TextOwn'
  BY <1>2, <1>3, <1>4 DEF IInv, TextKept, TextOwn, Keeps, HasOwn
<1>7. OnePatches' /\ NothingLeft'
  BY <1>3, <1>4 DEF IInv, OnePatches, Patching, NothingLeft
<1>8. OwnOnDisk'
  BY <1>2, <1>3, <1>4 DEF IInv, OwnOnDisk, HasOwn
<1>9. Appended'
  BY <1>3, <1>4 DEF IInv, Appended, HasOwn
<1>10. GuestHasOwn'
  BY <1>3, <1>4 DEF IInv, GuestHasOwn
<1>. QED
  BY <1>1, <1>5, <1>6, <1>7, <1>8, <1>9, <1>10 DEF IInv

LEMMA InvStep == IInv /\ [Next]_vars => IInv'
<1>1. IInv /\ UNCHANGED vars => IInv'
  BY DEF vars, IInv, TypeOK, BaseKept, TextKept, OnePatches, Patching,
     NothingLeft, TextOwn, OwnOnDisk, Appended, GuestHasOwn, HasOwn, Keeps
<1>. QED
  BY <1>1, RegenerateStep, LaunchStep, OpenEntryStep, WriteEntryStep,
     PatchDoneStep, PrepareStep, GuestBootsStep, EndStep DEF Next

\* No sequence of boots, whatever their configurations and wherever they are
\* stopped, loses an argument of a loader entry that still has its kernel, or
\* leaves one there that neither is managed nor comes from an override.
THEOREM ArgumentsKept == Spec => []BaseKept
<1>1. IInv => BaseKept
  BY DEF IInv
<1>. QED
  BY InvInit, InvStep, <1>1, PTL DEF Spec

\* A guest boots with the arguments of its own configuration, and with no
\* managed ones of an earlier run, unless another run has patched meanwhile.
THEOREM OwnArguments == Spec => []GuestHasOwn
<1>1. IInv => GuestHasOwn
  BY DEF IInv
<1>. QED
  BY InvInit, InvStep, <1>1, PTL DEF Spec
=============================================================================
