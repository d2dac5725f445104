--------------------------- MODULE VmArtifactProofs ---------------------------
(***************************************************************************)
(* Proofs about the VM disk and its stamp, for any number of commands at a *)
(* time, of images and of failures.                                        *)
(*                                                                         *)
(* The properties speak of what is ready; the stamp that a later command   *)
(* will read is left by an earlier one that may have failed at any step.   *)
(* IInv therefore says what the stamp is worth between two commands: right *)
(* if every disk that was written was stamped (StampIsRight), right or of  *)
(* an older image if every command compared IDs (StampIsOld).  While no    *)
(* image was rebuilt during a command and no two commands overlapped       *)
(* (Calm), one process is under way at most, and a step is checked for it  *)
(* alone (CalmAt).                                                         *)
(***************************************************************************)
EXTENDS VmArtifact, TLAPS

-----------------------------------------------------------------------------
(***************************************************************************)
(* The inductive invariant.                                                *)
(***************************************************************************)

Labels == {"idle", "start", "compare", "size", "install", "installing",
           "stamp", "ready"}

\* The commands that compare image IDs.
Asks(p) == kind[p] \in {"artifact", "boot"}

\* Between the first write of the disk and the stamp.
Unfinished(p) == pc[p] \in {"install", "installing", "stamp"}

\* What commands are never in.
KindAt ==
    \A p \in Procs :
        /\ kind[p] = "bare" => pc[p] \in {"size", "install", "installing"}
        /\ kind[p] = "sandbox" => pc[p] = "ready"
        /\ kind[p] = "unchecked" /\ pc[p] # "start" => image_id[p] = NoId
        /\ pc[p] = "installing" => source[p] \in Images

\* IDs come from images.
NoImageYet ==
    image = NoImage =>
        /\ stamp \notin Images
        /\ \A p \in Procs : image_id[p] \notin Images

\* Without an overlap there is one command at a time.
Solo ==
    "overlap" \notin events =>
        \A p, q \in Procs : pc[p] # "idle" /\ q # p => pc[q] = "idle"

Calm == events \cap {"retag", "overlap"} = {}

\* What then holds of the command that is under way.
Working(p) ==
    /\ pc[p] \notin {"idle", "start"} /\ Asks(p) =>
           image_id[p] = image /\ image \in Images
    /\ pc[p] \in {"size", "install"} /\ Asks(p) =>
           disk \notin Images \/ stamp # image_id[p]
    /\ pc[p] = "installing" =>
           disk = Partial /\ source[p] = image /\ image \in Images
    /\ pc[p] = "stamp" => disk = image /\ image \in Images

\* If every disk that was written got its stamp, the stamp is right.
StampIsRight ==
    "unstamped" \notin events /\ stamp \in Images =>
        disk \in {stamp, NoDisk} \/ \E p \in Procs : Unfinished(p)

\* If IDs were always compared and never came back, it is right or old.
StampIsOld ==
    events \cap {"return", "removed", "unasked"} = {} /\ stamp \in Images =>
        /\ image \in Images
        /\ stamp <= image
        /\ stamp = image => disk = stamp /\ \A p \in Procs : ~Unfinished(p)

CalmInv ==
    /\ \A p \in Procs : Working(p)
    /\ StampIsRight
    /\ StampIsOld
    /\ ReadyIsInstalled
    /\ SandboxIsStamped

IInv == TypeOK /\ KindAt /\ NoImageYet /\ Solo /\ (Calm => CalmInv)

-----------------------------------------------------------------------------
(***************************************************************************)
(* What a step of one command leaves alone.                                *)
(***************************************************************************)

\* The other commands, and what has happened.
OthersStay(p) ==
    /\ \A q \in Procs \ {p} : /\ pc'[q] = pc[q]
                              /\ kind'[q] = kind[q]
                              /\ image_id'[q] = image_id[q]
                              /\ source'[q] = source[q]
    /\ events \subseteq events'

LEMMA GotoFacts ==
    ASSUME TypeOK, NEW p \in Procs, NEW label, Goto(p, label)
    PROVE  /\ pc'[p] = label
           /\ \A q \in Procs \ {p} : pc'[q] = pc[q]
  BY DEF TypeOK, Goto

LEMMA EndFacts ==
    ASSUME TypeOK, NEW p \in Procs, End(p)
    PROVE  /\ pc'[p] = "idle"
           /\ kind'[p] = "artifact"
           /\ image_id'[p] = NoId
           /\ source'[p] = NoImage
           /\ \A q \in Procs \ {p} : /\ pc'[q] = pc[q]
                                     /\ kind'[q] = kind[q]
                                     /\ image_id'[q] = image_id[q]
                                     /\ source'[q] = source[q]
  BY DEF TypeOK, Goto, End

LEMMA EndType ==
    ASSUME TypeOK, NEW p \in Procs, End(p)
    PROVE  /\ pc' \in [Procs -> Labels]
           /\ kind' \in [Procs -> AllKinds]
           /\ image_id' \in [Procs -> Images \cup {NoId}]
           /\ source' \in [Procs -> Images \cup {NoImage}]
  BY DEF TypeOK, Goto, End, AllKinds, Labels

LEMMA NoteFacts ==
    ASSUME TypeOK, NEW event \in Events, NEW happened, Note(event, happened)
    PROVE  /\ events' \subseteq Events
           /\ events \subseteq events'
           /\ happened => event \in events'
  BY DEF TypeOK, Note

\* A step of a command keeps Solo, and where no two commands were under way
\* every other one is idle.
LEMMA OneMoves ==
    ASSUME NEW p \in Procs, Solo, pc[p] # "idle", OthersStay(p)
    PROVE  /\ Solo'
           /\ Calm' =>
                 /\ Calm
                 /\ \A q \in Procs \ {p} : pc[q] = "idle" /\ pc'[q] = "idle"
  BY DEF Solo, OthersStay, Calm

\* What CalmInv says when p alone can be under way.
Tells ==
    /\ "return" \notin events
    /\ "removed" \notin events
    /\ "unasked" \notin events

RightAt(p) ==
    "unstamped" \notin events /\ stamp \in Images =>
        disk = stamp \/ disk = NoDisk \/ Unfinished(p)

OldAt(p) ==
    Tells /\ stamp \in Images =>
        /\ image \in Images
        /\ stamp <= image
        /\ stamp = image => disk = stamp /\ ~Unfinished(p)

ReadyAt(p) ==
    /\ pc[p] = "ready" /\ Asks(p) /\ ("unstamped" \in events => Tells) =>
           disk = image_id[p]
    /\ pc[p] = "ready" /\ kind[p] = "sandbox" /\ "unstamped" \notin events =>
           disk = stamp

CalmAt(p) == Working(p) /\ RightAt(p) /\ OldAt(p) /\ ReadyAt(p)

LEMMA CalmBefore ==
    ASSUME CalmInv, Calm, NEW p \in Procs
    PROVE  (\A q \in Procs \ {p} : pc[q] = "idle") => CalmAt(p)
<1>. SUFFICES ASSUME \A q \in Procs \ {p} : pc[q] = "idle" PROVE CalmAt(p)
  OBVIOUS
<1>1. Working(p)
  BY DEF CalmInv
<1>2. \A q \in Procs : Unfinished(q) => q = p
  BY DEF Unfinished
<1>3. RightAt(p)
  BY <1>2 DEF CalmInv, StampIsRight, RightAt
<1>4. OldAt(p)
  BY <1>2 DEF CalmInv, StampIsOld, OldAt, Tells
<1>5. ReadyAt(p)
  BY DEF CalmInv, Calm, ReadyIsInstalled, SandboxIsStamped, StampTells,
     ReadyAt, Tells, Asks
<1>. QED
  BY <1>1, <1>3, <1>4, <1>5 DEF CalmAt

LEMMA CalmAfter ==
    ASSUME NEW p \in Procs, \A q \in Procs \ {p} : pc'[q] = "idle", CalmAt(p)'
    PROVE  CalmInv'
<1>1. ASSUME NEW q \in Procs PROVE Working(q)'
  <2>1. CASE q = p
    BY <2>1 DEF CalmAt
  <2>2. CASE q # p
    BY <2>2 DEF Working
  <2>. QED
    BY <2>1, <2>2
<1>2. \A q \in Procs : pc'[q] # "idle" => q = p
  OBVIOUS
<1>3. StampIsRight'
  BY <1>2 DEF CalmAt, StampIsRight, RightAt
<1>4. StampIsOld'
  BY <1>2 DEF CalmAt, StampIsOld, OldAt, Tells, Unfinished
<1>5. ReadyIsInstalled'
  BY <1>2 DEF CalmAt, ReadyIsInstalled, StampTells, ReadyAt, Tells, Asks
<1>6. SandboxIsStamped'
  BY <1>2 DEF CalmAt, SandboxIsStamped, ReadyAt
<1>. QED
  BY <1>1, <1>3, <1>4, <1>5, <1>6 DEF CalmInv

\* A step of one command is checked where that command alone is under way.
LEMMA CommandKeeps ==
    ASSUME IInv, NEW p \in Procs, pc[p] # "idle", OthersStay(p),
           TypeOK', KindAt', NoImageYet',
           ASSUME CalmAt(p), Calm', \A q \in Procs \ {p} : pc[q] = "idle"
           PROVE  CalmAt(p)'
    PROVE  IInv'
<1>1. Solo
  BY DEF IInv
<1>2. /\ Solo'
      /\ Calm' =>
            /\ Calm
            /\ \A q \in Procs \ {p} : pc[q] = "idle" /\ pc'[q] = "idle"
  BY <1>1, OneMoves
<1>3. ASSUME Calm' PROVE CalmInv'
  <2>1. Calm /\ \A q \in Procs \ {p} : pc[q] = "idle" /\ pc'[q] = "idle"
    BY <1>2, <1>3
  <2>2. CalmAt(p)
    BY <2>1, CalmBefore DEF IInv
  <2>. QED
    BY <1>3, <2>1, <2>2, CalmAfter
<1>. QED
  BY <1>2, <1>3 DEF IInv

LEMMA Names ==
    /\ NoImage \notin Images /\ NoId \notin Images /\ NoStamp \notin Images
    /\ NoDisk \notin Images /\ Blank \notin Images
    /\ Partial \notin Images /\ Mixed \notin Images
    /\ \A i \in Images : i \in Nat
  BY ArtifactAssumption DEF NoContent

LEMMA KindAfter ==
    ASSUME NEW p \in Procs, KindAt, OthersStay(p),
           kind'[p] = "bare" => pc'[p] \in {"size", "install", "installing"},
           kind'[p] = "sandbox" => pc'[p] = "ready",
           kind'[p] = "unchecked" /\ pc'[p] # "start" => image_id'[p] = NoId,
           pc'[p] = "installing" => source'[p] \in Images
    PROVE  KindAt'
  BY DEF KindAt, OthersStay

LEMMA NoImageAfter ==
    ASSUME NEW p \in Procs, NoImageYet, OthersStay(p),
           image' = NoImage => image = NoImage,
           image' = NoImage /\ stamp' \in Images => stamp' = stamp,
           image' = NoImage /\ image_id'[p] \in Images =>
               image_id'[p] = image_id[p]
    PROVE  NoImageYet'
  BY DEF NoImageYet, OthersStay

-----------------------------------------------------------------------------
(***************************************************************************)
(* One lemma per step.                                                     *)
(***************************************************************************)

\* The ID that is read is that of the image the tag names.
LEMMA InspectKeeps ==
    ASSUME IInv, NEW p \in Procs, Inspect(p)
    PROVE  IInv'
<1>0. TypeOK /\ KindAt /\ NoImageYet
  BY DEF IInv
<1>1. /\ pc[p] = "start" /\ pc'[p] = "compare" /\ kind[p] # "unchecked"
      /\ image' \in Images /\ image_id'[p] = image'
      /\ image' = image \/ stamp \notin Images
      /\ \A q \in Procs \ {p} : pc'[q] = pc[q] /\ image_id'[q] = image_id[q]
      /\ disk' = disk /\ stamp' = stamp /\ kind' = kind
      /\ source' = source /\ failures' = failures /\ events' = events
  BY <1>0, Names, GotoFacts DEF Inspect, TypeOK, KindAt, NoImageYet, files,
     BuiltIfMissing
<1>2. TypeOK'
  BY <1>0, <1>1, ArtifactAssumption DEF Inspect, Goto, TypeOK, KindAt,
     NoContent, Labels, BuiltIfMissing
<1>3. OthersStay(p)
  BY <1>0, <1>1 DEF OthersStay
<1>4. KindAt' /\ NoImageYet'
  BY <1>0, <1>1, <1>3, Names, NoImageAfter DEF KindAt
<1>5. ASSUME CalmAt(p), Calm', \A q \in Procs \ {p} : pc[q] = "idle"
      PROVE  CalmAt(p)'
  BY <1>1, <1>5 DEF CalmAt, Working, RightAt, OldAt, ReadyAt, Unfinished,
     Tells
<1>. QED
  BY <1>1, <1>2, <1>3, <1>4, <1>5, CommandKeeps

LEMMA SkipKeeps ==
    ASSUME IInv, NEW p \in Procs, SkipImageChecks(p)
    PROVE  IInv'
<1>0. TypeOK /\ KindAt /\ NoImageYet
  BY DEF IInv
<1>1. /\ pc[p] = "start" /\ pc'[p] = "compare" /\ kind[p] = "unchecked"
      /\ image_id'[p] = NoId
      /\ \A q \in Procs \ {p} : pc'[q] = pc[q] /\ image_id'[q] = image_id[q]
      /\ image' = image /\ disk' = disk /\ stamp' = stamp
      /\ kind' = kind /\ source' = source /\ failures' = failures
      /\ events' = events
  BY <1>0, GotoFacts DEF SkipImageChecks, TypeOK, files
<1>2. TypeOK'
  BY <1>0, <1>1 DEF SkipImageChecks, Goto, TypeOK
<1>3. OthersStay(p)
  BY <1>1 DEF OthersStay
<1>4. KindAt' /\ NoImageYet'
  BY <1>0, <1>1, <1>3, Names, KindAfter, NoImageAfter
<1>5. ASSUME CalmAt(p), Calm', \A q \in Procs \ {p} : pc[q] = "idle"
      PROVE  CalmAt(p)'
  BY <1>1, <1>5 DEF CalmAt, Working, Asks, RightAt, OldAt, ReadyAt,
     Unfinished, Tells
<1>. QED
  BY <1>1, <1>2, <1>3, <1>4, <1>5, CommandKeeps

\* A disk that is not made anew is the one the stamp tells of.
LEMMA CompareKeeps ==
    ASSUME IInv, NEW p \in Procs, Compare(p)
    PROVE  IInv'
<1>0. TypeOK /\ KindAt /\ NoImageYet
  BY DEF IInv
<1>1. /\ pc[p] = "compare" /\ kind[p] # "sandbox"
      /\ \/ pc'[p] = "size" /\ (disk = NoDisk \/ stamp # image_id[p])
         \/ pc'[p] = "ready" /\ disk # NoDisk /\ stamp = image_id[p]
      /\ \A q \in Procs \ {p} : pc'[q] = pc[q]
      /\ image' = image /\ disk' = disk /\ stamp' = stamp
      /\ kind' = kind /\ image_id' = image_id /\ source' = source
      /\ failures' = failures /\ events' = events
  BY <1>0, GotoFacts DEF Compare, KindAt, files, Stale
<1>2. TypeOK'
  BY <1>0, <1>1 DEF Compare, Goto, TypeOK
<1>3. OthersStay(p)
  BY <1>1 DEF OthersStay
<1>4. KindAt' /\ NoImageYet'
  BY <1>0, <1>1, <1>3, NoImageAfter DEF KindAt
<1>5. ASSUME CalmAt(p), Calm', \A q \in Procs \ {p} : pc[q] = "idle"
      PROVE  CalmAt(p)'
  BY <1>1, <1>5, Names DEF CalmAt, Working, Asks, RightAt, OldAt, ReadyAt,
     Unfinished, Tells
<1>. QED
  BY <1>1, <1>2, <1>3, <1>4, <1>5, CommandKeeps

\* Who makes the disk anew compared IDs, or is noted.
LEMMA SizeKeeps ==
    ASSUME IInv, NEW p \in Procs, Size(p)
    PROVE  IInv'
<1>0. TypeOK /\ KindAt /\ NoImageYet
  BY DEF IInv
<1>1. /\ pc[p] = "size" /\ pc'[p] = "install"
      /\ disk' = disk \/ disk' = Blank
      /\ \A q \in Procs \ {p} : pc'[q] = pc[q]
      /\ image' = image /\ stamp' = stamp /\ kind' = kind
      /\ image_id' = image_id /\ source' = source /\ failures' = failures
  BY <1>0, GotoFacts DEF Size
<1>2. /\ Asks(p) \/ "unasked" \in events'
      /\ events' \subseteq Events /\ events \subseteq events'
  BY <1>0, NoteFacts DEF Size, Events, TypeOK, KindAt, AllKinds, Asks
<1>3. TypeOK'
  BY <1>0, <1>1, <1>2, ArtifactAssumption DEF Size, Goto, TypeOK, KindAt,
     NoContent, Labels, Asks, AllKinds
<1>4. OthersStay(p)
  BY <1>1, <1>2 DEF OthersStay
<1>5. KindAt' /\ NoImageYet'
  BY <1>0, <1>1, <1>4, NoImageAfter DEF KindAt
<1>6. ASSUME CalmAt(p), Calm', \A q \in Procs \ {p} : pc[q] = "idle"
      PROVE  CalmAt(p)'
  BY <1>1, <1>2, <1>6, Names DEF CalmAt, Working, Asks, RightAt, OldAt,
     ReadyAt, Unfinished, Tells
<1>. QED
  BY <1>1, <1>3, <1>4, <1>5, <1>6, CommandKeeps

\* The install runs from the image the tag names now.
LEMMA BeginInstallKeeps ==
    ASSUME IInv, NEW p \in Procs, BeginInstall(p)
    PROVE  IInv'
<1>0. TypeOK /\ KindAt /\ NoImageYet
  BY DEF IInv
<1>1. /\ pc[p] = "install" /\ pc'[p] = "installing"
      /\ image \in Images /\ source'[p] = image
      /\ (\A q \in Procs \ {p} : pc[q] = "idle") => disk' = Partial
      /\ \A q \in Procs \ {p} : pc'[q] = pc[q] /\ source'[q] = source[q]
      /\ image' = image /\ stamp' = stamp /\ kind' = kind
      /\ image_id' = image_id /\ failures' = failures /\ events' = events
  BY <1>0, GotoFacts DEF BeginInstall, TypeOK
<1>2. TypeOK'
  BY <1>0 DEF BeginInstall, Goto, TypeOK, NoContent
<1>3. OthersStay(p)
  BY <1>1 DEF OthersStay
<1>4. KindAt' /\ NoImageYet'
  BY <1>0, <1>1, <1>3, NoImageAfter DEF KindAt
<1>5. ASSUME CalmAt(p), Calm', \A q \in Procs \ {p} : pc[q] = "idle"
      PROVE  CalmAt(p)'
  BY <1>1, <1>5 DEF CalmAt, Working, Asks, RightAt, OldAt, ReadyAt,
     Unfinished, Tells
<1>. QED
  BY <1>1, <1>2, <1>3, <1>4, <1>5, CommandKeeps

LEMMA ImageMissingKeeps ==
    ASSUME IInv, NEW p \in Procs, ImageMissing(p)
    PROVE  IInv'
<1>0. TypeOK /\ KindAt /\ NoImageYet
  BY DEF IInv
<1>1. /\ pc'[p] = "idle" /\ kind'[p] = "artifact" /\ image_id'[p] = NoId
      /\ pc[p] = "install" /\ image \notin Images /\ stamp \notin Images
      /\ \A q \in Procs \ {p} :
             /\ pc'[q] = pc[q] /\ kind'[q] = kind[q]
             /\ image_id'[q] = image_id[q] /\ source'[q] = source[q]
      /\ image' = image /\ disk' = disk /\ stamp' = stamp
      /\ failures' = failures /\ events' = events
  BY <1>0, Names, EndFacts DEF ImageMissing, NoImageYet, files
<1>2. TypeOK'
  BY <1>0, <1>1, EndType DEF ImageMissing, TypeOK
<1>3. OthersStay(p)
  BY <1>1 DEF OthersStay
<1>4. KindAt' /\ NoImageYet'
  BY <1>0, <1>1, <1>3, Names, KindAfter, NoImageAfter
<1>5. ASSUME CalmAt(p), Calm', \A q \in Procs \ {p} : pc[q] = "idle"
      PROVE  CalmAt(p)'
  BY <1>1 DEF CalmAt, Working, RightAt, OldAt, ReadyAt
<1>. QED
  BY <1>1, <1>2, <1>3, <1>4, <1>5, CommandKeeps

\* generate_bootable_image.py ends without a stamp, and this is noted.
LEMMA EndBareKeeps ==
    ASSUME IInv, NEW p \in Procs, EndInstall(p), kind[p] = "bare"
    PROVE  IInv'
<1>0. TypeOK /\ KindAt /\ NoImageYet
  BY DEF IInv
<1>1. /\ pc'[p] = "idle" /\ kind'[p] = "artifact" /\ image_id'[p] = NoId
      /\ \A q \in Procs \ {p} :
             /\ pc'[q] = pc[q] /\ kind'[q] = kind[q]
             /\ image_id'[q] = image_id[q] /\ source'[q] = source[q]
      /\ image' = image /\ stamp' = stamp /\ failures' = failures
  BY <1>0, EndFacts DEF EndInstall
<1>2. /\ pc[p] = "installing" /\ "unstamped" \in events'
      /\ events' \subseteq Events /\ events \subseteq events'
  BY <1>0, NoteFacts DEF EndInstall, Events
<1>3. TypeOK'
  BY <1>0, <1>1, <1>2, EndType DEF EndInstall, TypeOK, KindAt
<1>4. OthersStay(p)
  BY <1>1, <1>2 DEF OthersStay
<1>5. KindAt' /\ NoImageYet'
  BY <1>0, <1>1, <1>4, Names, KindAfter, NoImageAfter
<1>6. ASSUME CalmAt(p), Calm', \A q \in Procs \ {p} : pc[q] = "idle"
      PROVE  CalmAt(p)'
  BY <1>1, <1>2, <1>6, Names DEF CalmAt, Working, RightAt, OldAt, ReadyAt,
     Tells
<1>. QED
  BY <1>2, <1>3, <1>4, <1>5, <1>6, CommandKeeps

\* The disk holds the image the install ran from.
LEMMA EndStampedKeeps ==
    ASSUME IInv, NEW p \in Procs, EndInstall(p), kind[p] # "bare"
    PROVE  IInv'
<1>0. TypeOK /\ KindAt /\ NoImageYet
  BY DEF IInv
<1>1. /\ pc[p] = "installing" /\ pc'[p] = "stamp"
      /\ disk = Partial => disk' = source[p]
      /\ \A q \in Procs \ {p} : pc'[q] = pc[q]
      /\ image' = image /\ stamp' = stamp /\ kind' = kind
      /\ image_id' = image_id /\ source' = source /\ failures' = failures
  BY <1>0, GotoFacts DEF EndInstall
<1>2. /\ events' \subseteq Events /\ events \subseteq events'
  BY <1>0, NoteFacts DEF EndInstall, Events
<1>3. TypeOK'
  BY <1>0, <1>2 DEF EndInstall, Goto, TypeOK, KindAt
<1>4. OthersStay(p)
  BY <1>1, <1>2 DEF OthersStay
<1>5. KindAt' /\ NoImageYet'
  BY <1>0, <1>1, <1>4, NoImageAfter DEF KindAt
<1>6. ASSUME CalmAt(p), Calm', \A q \in Procs \ {p} : pc[q] = "idle"
      PROVE  CalmAt(p)'
  BY <1>1, <1>2, <1>6 DEF CalmAt, Working, Asks, RightAt, OldAt, ReadyAt,
     Unfinished, Tells
<1>. QED
  BY <1>1, <1>3, <1>4, <1>5, <1>6, CommandKeeps

\* The stamp is the ID that was compared, and that of the disk.
LEMMA WriteStampKeeps ==
    ASSUME IInv, NEW p \in Procs, WriteStamp(p)
    PROVE  IInv'
<1>0. TypeOK /\ KindAt /\ NoImageYet
  BY DEF IInv
<1>1. /\ pc[p] = "stamp" /\ pc'[p] = "ready" /\ stamp' = image_id[p]
      /\ Asks(p) \/ (kind[p] = "unchecked" /\ image_id[p] = NoId)
      /\ \A q \in Procs \ {p} : pc'[q] = pc[q]
      /\ image' = image /\ disk' = disk /\ kind' = kind
      /\ image_id' = image_id /\ source' = source /\ failures' = failures
      /\ events' = events
  BY <1>0, GotoFacts DEF WriteStamp, TypeOK, KindAt, NewStamp, Asks, AllKinds
<1>2. TypeOK'
  BY <1>0, <1>1 DEF WriteStamp, Goto, TypeOK
<1>3. OthersStay(p)
  BY <1>1 DEF OthersStay
<1>4. KindAt' /\ NoImageYet'
  BY <1>0, <1>1 DEF KindAt, NoImageYet
<1>5. ASSUME CalmAt(p), Calm', \A q \in Procs \ {p} : pc[q] = "idle"
      PROVE  CalmAt(p)'
  BY <1>1, <1>5, Names DEF CalmAt, Working, Asks, RightAt, OldAt, ReadyAt,
     Unfinished
<1>. QED
  BY <1>1, <1>2, <1>3, <1>4, <1>5, CommandKeeps

LEMMA DoneKeeps ==
    ASSUME IInv, NEW p \in Procs, Done(p)
    PROVE  IInv'
<1>0. TypeOK /\ KindAt /\ NoImageYet
  BY DEF IInv
<1>1. /\ pc'[p] = "idle" /\ kind'[p] = "artifact" /\ image_id'[p] = NoId
      /\ pc[p] = "ready"
      /\ \A q \in Procs \ {p} :
             /\ pc'[q] = pc[q] /\ kind'[q] = kind[q]
             /\ image_id'[q] = image_id[q] /\ source'[q] = source[q]
      /\ image' = image /\ disk' = disk /\ stamp' = stamp
      /\ failures' = failures /\ events' = events
  BY <1>0, EndFacts DEF Done, files
<1>2. TypeOK'
  BY <1>0, <1>1, EndType DEF Done, TypeOK
<1>3. OthersStay(p)
  BY <1>1 DEF OthersStay
<1>4. KindAt' /\ NoImageYet'
  BY <1>0, <1>1, <1>3, Names, KindAfter, NoImageAfter
<1>5. ASSUME CalmAt(p), Calm', \A q \in Procs \ {p} : pc[q] = "idle"
      PROVE  CalmAt(p)'
  BY <1>1, <1>5 DEF CalmAt, Working, RightAt, OldAt, ReadyAt, Unfinished,
     Tells
<1>. QED
  BY <1>1, <1>2, <1>3, <1>4, <1>5, CommandKeeps

\* A command that fails leaves a stamp no image has, or is noted.
LEMMA FailKeeps ==
    ASSUME IInv, NEW p \in Procs, Fail(p)
    PROVE  IInv'
<1>0. TypeOK /\ KindAt /\ NoImageYet
  BY DEF IInv
<1>1. /\ pc'[p] = "idle" /\ kind'[p] = "artifact" /\ image_id'[p] = NoId
      /\ pc[p] # "idle"
      /\ stamp' = stamp \/ stamp' = NoId
      /\ \A q \in Procs \ {p} :
             /\ pc'[q] = pc[q] /\ kind'[q] = kind[q]
             /\ image_id'[q] = image_id[q] /\ source'[q] = source[q]
      /\ image' = image /\ disk' = disk
  BY <1>0, EndFacts DEF Fail
<1>2. /\ Unfinished(p) => "unstamped" \in events'
      /\ events' \subseteq Events /\ events \subseteq events'
  BY <1>0, NoteFacts DEF Fail, Events, Unfinished
<1>3. TypeOK'
  BY <1>0, <1>1, <1>2, EndType, ArtifactAssumption DEF Fail, TypeOK
<1>4. OthersStay(p)
  BY <1>1, <1>2 DEF OthersStay
<1>5. KindAt' /\ NoImageYet'
  BY <1>0, <1>1, <1>4, Names, KindAfter, NoImageAfter
<1>6. ASSUME CalmAt(p), Calm', \A q \in Procs \ {p} : pc[q] = "idle"
      PROVE  CalmAt(p)'
  BY <1>1, <1>2, <1>6, Names DEF CalmAt, Working, RightAt, OldAt, ReadyAt,
     Unfinished, Tells
<1>. QED
  BY <1>1, <1>3, <1>4, <1>5, <1>6, CommandKeeps

-----------------------------------------------------------------------------
\* The steps that are of no command, or begin one.
LEMMA InvInit == Init => IInv
<1>. SUFFICES ASSUME Init PROVE IInv
  OBVIOUS
<1>1. TypeOK
  BY ArtifactAssumption DEF Init, TypeOK, NoContent, AllKinds
<1>2. KindAt /\ Solo
  BY DEF Init, KindAt, Solo
<1>3. NoImageYet
  BY Names DEF Init, NoImageYet
<1>4. CalmInv
  <2>1. StampIsRight /\ StampIsOld
    BY Names DEF Init, StampIsRight, StampIsOld
  <2>2. ReadyIsInstalled /\ SandboxIsStamped /\ \A p \in Procs : Working(p)
    BY DEF Init, ReadyIsInstalled, SandboxIsStamped, Working
  <2>. QED
    BY <2>1, <2>2 DEF CalmInv
<1>. QED
  BY <1>1, <1>2, <1>3, <1>4 DEF IInv

\* Where no command is under way, only the stamp has to be right.
LEMMA IdleAfter ==
    ASSUME \A p \in Procs : pc'[p] = "idle",
           ("unstamped" \notin events /\ stamp \in Images =>
               disk = stamp \/ disk = NoDisk)',
           (Tells /\ stamp \in Images =>
               /\ image \in Images /\ stamp <= image
               /\ stamp = image => disk = stamp)'
    PROVE  CalmInv'
<1>1. StampIsRight' /\ StampIsOld'
  BY DEF StampIsRight, StampIsOld, Tells, Unfinished
<1>2. ReadyIsInstalled' /\ SandboxIsStamped'
  BY DEF ReadyIsInstalled, SandboxIsStamped
<1>3. \A p \in Procs : Working(p)'
  BY DEF Working
<1>. QED
  BY <1>1, <1>2, <1>3 DEF CalmInv

LEMMA IdleBefore ==
    ASSUME CalmInv, \A p \in Procs : pc[p] = "idle"
    PROVE  /\ "unstamped" \notin events /\ stamp \in Images =>
                 disk = stamp \/ disk = NoDisk
           /\ Tells /\ stamp \in Images =>
                 /\ image \in Images /\ stamp <= image
                 /\ stamp = image => disk = stamp
  BY DEF CalmInv, StampIsRight, StampIsOld, Tells, Unfinished

\* A rebuild gives a newer image, or is noted.
LEMMA BuildKeeps == ASSUME IInv, Build PROVE IInv'
<1>0. TypeOK /\ KindAt /\ NoImageYet /\ Solo
  BY DEF IInv
<1>1. /\ image' \in Images /\ image' # image
      /\ disk' = disk /\ stamp' = stamp /\ pc' = pc /\ kind' = kind
      /\ image_id' = image_id /\ source' = source /\ failures' = failures
  BY DEF Build, files
<1>2. /\ events' \subseteq Events /\ events \subseteq events'
      /\ UnderWay # {} => "retag" \in events'
      /\ image # NoImage /\ image' < image => "return" \in events'
  BY <1>0 DEF Build, TypeOK, Events
<1>3. TypeOK'
  BY <1>0, <1>1, <1>2 DEF TypeOK
<1>4. KindAt' /\ Solo'
  BY <1>0, <1>1, <1>2 DEF KindAt, Solo
<1>5. NoImageYet'
  BY <1>1, Names DEF NoImageYet
<1>6. ASSUME Calm' PROVE CalmInv'
  <2>1. Calm /\ UnderWay = {}
    BY <1>2, <1>6 DEF Calm
  <2>2. \A p \in Procs : pc[p] = "idle"
    BY <2>1 DEF UnderWay
  <2>3. CalmInv
    BY <2>1 DEF IInv
  <2>4. Tells' => Tells /\ (image \in Images => image < image')
    BY <1>1, <1>2, Names DEF Tells
  <2>. QED
    BY <1>1, <1>2, <2>2, <2>3, <2>4, IdleBefore, IdleAfter, Names
<1>. QED
  BY <1>3, <1>4, <1>5, <1>6 DEF IInv

\* The user deletes the disk, and this is noted.
LEMMA RemoveDiskKeeps == ASSUME IInv, RemoveDisk PROVE IInv'
<1>0. TypeOK /\ KindAt /\ NoImageYet /\ Solo
  BY DEF IInv
<1>1. /\ UnderWay = {} /\ disk' = NoDisk
      /\ image' = image /\ stamp' = stamp /\ pc' = pc /\ kind' = kind
      /\ image_id' = image_id /\ source' = source /\ failures' = failures
  BY DEF RemoveDisk
<1>2. /\ events' \subseteq Events /\ events \subseteq events'
      /\ "removed" \in events'
  BY <1>0, NoteFacts DEF RemoveDisk, Events
<1>3. TypeOK'
  BY <1>0, <1>1, <1>2 DEF TypeOK, NoContent
<1>4. KindAt' /\ Solo' /\ NoImageYet'
  BY <1>0, <1>1, <1>2 DEF KindAt, Solo, NoImageYet
<1>5. ASSUME Calm' PROVE CalmInv'
  BY <1>1, <1>2, IdleAfter DEF Tells, UnderWay
<1>. QED
  BY <1>3, <1>4, <1>5 DEF IInv

\* A second command that begins is noted.  The sandbox needs no other check
\* than that of its stamp.
LEMMA StartKeeps == ASSUME IInv, NEW p \in Procs, Start(p) PROVE IInv'
<1>0. TypeOK /\ KindAt /\ NoImageYet /\ Solo
  BY DEF IInv
<1>1. PICK k \in Kinds :
          /\ kind' = [kind EXCEPT ![p] = k]
          /\ \/ k \in {"artifact", "boot", "unchecked"} /\ Goto(p, "start")
             \/ k = "bare" /\ Goto(p, "size")
             \/ /\ k = "sandbox" /\ Goto(p, "ready")
                /\ disk # NoDisk /\ stamp \notin {NoStamp, NoId}
  BY DEF Start
<1>2. PICK label \in {"start", "size", "ready"} :
          /\ Goto(p, label)
          /\ label = "start" => k \in {"artifact", "boot", "unchecked"}
          /\ label = "size" => k = "bare"
          /\ label = "ready" => /\ k = "sandbox" /\ disk # NoDisk
                                /\ stamp \notin {NoStamp, NoId}
  BY <1>1
<1>3. pc'[p] = label /\ \A q \in Procs \ {p} : pc'[q] = pc[q]
  BY <1>0, <1>2, GotoFacts
<1>4. kind'[p] = k /\ \A q \in Procs \ {p} : kind'[q] = kind[q]
  BY <1>0, <1>1 DEF TypeOK
<1>5. /\ pc[p] = "idle" /\ image' = image /\ disk' = disk /\ stamp' = stamp
      /\ image_id' = image_id /\ source' = source /\ failures' = failures
  BY DEF Start, files
<1>6. /\ events' \subseteq Events /\ events \subseteq events'
      /\ UnderWay # {} => "overlap" \in events'
  BY <1>0, NoteFacts DEF Start, Events
<1>7. TypeOK'
  <2>1. pc' \in [Procs -> {"idle", "start", "compare", "size", "install",
                           "installing", "stamp", "ready"}]
    BY <1>0, <1>2 DEF Goto, TypeOK
  <2>2. kind' \in [Procs -> AllKinds]
    BY <1>0, <1>1, ArtifactAssumption DEF TypeOK
  <2>. QED
    BY <1>0, <1>5, <1>6, <2>1, <2>2 DEF TypeOK
<1>8. OthersStay(p)
  BY <1>3, <1>4, <1>5, <1>6 DEF OthersStay
<1>9. KindAt'
  BY <1>0, <1>2, <1>3, <1>4, <1>5, <1>8, KindAfter
<1>10. NoImageYet'
  BY <1>0, <1>5 DEF NoImageYet
<1>11. "overlap" \notin events' => \A q \in Procs : pc[q] = "idle"
  BY <1>6 DEF UnderWay
<1>12. Solo'
  BY <1>3, <1>11 DEF Solo
<1>13. ASSUME Calm' PROVE CalmInv'
  <2>1. Calm /\ \A q \in Procs : pc[q] = "idle"
    BY <1>6, <1>11, <1>13 DEF Calm
  <2>2. CalmInv
    BY <2>1 DEF IInv
  <2>3. /\ "unstamped" \notin events /\ stamp \in Images =>
              disk = stamp \/ disk = NoDisk
        /\ Tells /\ stamp \in Images =>
              /\ image \in Images /\ stamp <= image
              /\ stamp = image => disk = stamp
    BY <2>1, <2>2, IdleBefore
  <2>4. Working(p)'
    BY <1>2, <1>3, <1>4 DEF Working, Asks
  <2>5. RightAt(p)' /\ OldAt(p)'
    BY <1>2, <1>3, <1>5, <1>6, <2>3 DEF RightAt, OldAt, Tells, Unfinished
  <2>6. ReadyAt(p)'
    BY <1>0, <1>2, <1>3, <1>4, <1>5, <1>6, <2>3 DEF ReadyAt, Asks, TypeOK
  <2>. QED
    BY <1>3, <2>1, <2>4, <2>5, <2>6, CalmAfter DEF CalmAt
<1>. QED
  BY <1>7, <1>9, <1>10, <1>12, <1>13 DEF IInv

LEMMA InvStep == IInv /\ [Next]_vars => IInv'
<1>. SUFFICES ASSUME IInv, [Next]_vars PROVE IInv'
  OBVIOUS
<1>1. CASE Build
  BY <1>1, BuildKeeps
<1>2. CASE RemoveDisk
  BY <1>2, RemoveDiskKeeps
<1>3. ASSUME NEW p \in Procs, Start(p) \/ Command(p) \/ Fail(p) PROVE IInv'
  BY <1>3, StartKeeps, InspectKeeps, SkipKeeps, CompareKeeps, SizeKeeps,
     BeginInstallKeeps, ImageMissingKeeps, EndBareKeeps, EndStampedKeeps,
     WriteStampKeeps, DoneKeeps, FailKeeps DEF Command
<1>4. CASE UNCHANGED vars
  <2>1. TypeOK' /\ KindAt' /\ NoImageYet' /\ Solo'
    BY <1>4 DEF IInv, vars, TypeOK, KindAt, NoImageYet, Solo
  <2>2. Calm' => Calm
    BY <1>4 DEF vars, Calm
  <2>3. ASSUME CalmInv PROVE CalmInv'
    BY <1>4, <2>3 DEF vars, CalmInv, Working, Asks, Unfinished, StampIsRight,
       StampIsOld, ReadyIsInstalled, SandboxIsStamped, StampTells
  <2>. QED
    BY <2>1, <2>2, <2>3 DEF IInv
<1>. QED
  BY <1>1, <1>2, <1>3, <1>4 DEF Next

LEMMA Invariant == Spec => []IInv
  BY InvInit, InvStep, PTL DEF Spec

-----------------------------------------------------------------------------
\* The tag, the disk, the stamp and what every command has in memory keep
\* their types.
THEOREM TypeCorrect == Spec => []TypeOK
<1>1. IInv => TypeOK
  BY DEF IInv
<1>. QED
  BY <1>1, Invariant, PTL

\* A command that has compared IDs and says that the artifact is ready, or
\* boots it (generate_vm_artifact.py, lines 45-48), has a disk that holds the
\* image whose ID it read, as long as nothing happened that a stamp cannot
\* tell: however many commands failed at whatever step before it.
THEOREM ReadyHoldsImage == Spec => []ReadyIsInstalled
<1>1. IInv => ReadyIsInstalled
  BY DEF IInv, Calm, CalmInv, StampTells, ReadyIsInstalled
<1>. QED
  BY <1>1, Invariant, PTL

\* The sandbox boots a disk that holds what its stamp names, unless the disk
\* was written and not stamped, or two commands overlapped.
THEOREM SandboxBootsStamped == Spec => []SandboxIsStamped
<1>1. IInv => SandboxIsStamped
  BY DEF IInv, Calm, CalmInv, SandboxIsStamped
<1>. QED
  BY <1>1, Invariant, PTL

\* A step that changes a disk that holds the current image and has its stamp
\* is one of the user, or of a command that compares no IDs.
LEMMA DiskStays ==
    ASSUME IInv, [Next]_vars,
           events' \cap {"retag", "overlap"} = {},
           disk \in Images, disk = stamp, disk = image, disk' # disk
    PROVE  \/ "removed" \in events'
           \/ \E p \in Procs :
                 pc'[p] # pc[p] /\ kind[p] \in {"unchecked", "bare"}
<1>0. TypeOK
  BY DEF IInv
<1>1. CASE RemoveDisk
  BY <1>0, <1>1, NoteFacts DEF RemoveDisk, Events
<1>2. ASSUME NEW p \in Procs, Size(p) \/ BeginInstall(p) \/ EndInstall(p)
      PROVE  pc'[p] # pc[p] /\ kind[p] \in {"unchecked", "bare"}
  <2>1. events \subseteq events'
    BY <1>0, <1>2, NoteFacts DEF Size, BeginInstall, EndInstall, Events
  <2>2. Working(p)
    BY <2>1 DEF IInv, Calm, CalmInv
  <2>3. pc[p] \in {"size", "install", "installing"}
    BY <1>2 DEF Size, BeginInstall, EndInstall
  <2>4. ~Asks(p)
    BY <2>2, <2>3, Names DEF Working
  <2>5. kind[p] \in {"unchecked", "bare"}
    BY <1>0, <2>3, <2>4 DEF IInv, KindAt, Asks, TypeOK, AllKinds
  <2>6. pc'[p] # pc[p]
    BY <1>0, <1>2, GotoFacts, EndFacts DEF Size, BeginInstall, EndInstall
  <2>. QED
    BY <2>5, <2>6
<1>3. ASSUME ~RemoveDisk,
             \A p \in Procs : ~(Size(p) \/ BeginInstall(p) \/ EndInstall(p))
      PROVE  FALSE
  BY <1>3 DEF Next, vars, files, Build, Start, Command, Inspect,
     SkipImageChecks, Compare, ImageMissing, WriteStamp, Done, Fail
<1>. QED
  BY <1>1, <1>2, <1>3

\* "Refresh bootable.img only when the built image ID changed" (README.md,
\* line 22): a disk that holds the current image and is stamped with it is
\* left alone by the commands that compare IDs.
THEOREM FreshDiskStays == Spec => OnlyWhenChanged
<1>1. IInv /\ [Next]_vars =>
        [ events' \cap {"retag", "overlap"} = {}
            /\ disk \in Images /\ disk = stamp /\ disk = image /\ disk' # disk
          => \/ "removed" \in events'
             \/ \E p \in Procs :
                   pc'[p] # pc[p] /\ kind[p] \in {"unchecked", "bare"} ]_vars
  BY DiskStays
<1>. QED
  BY <1>1, Invariant, PTL DEF Spec, OnlyWhenChanged
=============================================================================
