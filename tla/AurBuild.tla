------------------------------ MODULE AurBuild ------------------------------
(***************************************************************************)
(* The package cache of the AUR stage, run/scripts/build-aur.py:           *)
(* update_repo(), build_repo() and install_artifacts() for one repository, *)
(* over many runs of the stage.                                            *)
(*                                                                         *)
(* The clone, the archives and the stamp are in cache mounts that outlive  *)
(* an image build, so a run finds what earlier runs left there, those that *)
(* were interrupted included; meanwhile upstream moves the branch.  The    *)
(* mounts of pacman are `sharing=locked': two image builds do not overlap. *)
(***************************************************************************)
EXTENDS Naturals, FiniteSets

CONSTANTS
    Heads,          \* commits of the repository, in the order they were made
    NoHead,
    Torn,           \* what a makepkg killed while it writes leaves of an archive
    Names,          \* package names
    Versions,       \* pkgver-pkgrel strings
    NamesAt,        \* NamesAt[h]: the pkgnames of .SRCINFO at commit h
    VersionsAt,     \* VersionsAt[h]: the versions a build of h may get
    MaxFailures     \* bound: interrupted or failed runs

ASSUME BuildAssumption ==
    /\ Heads \subseteq Nat
    /\ Heads # {}
    /\ NoHead \notin Heads
    /\ Torn \notin Heads \cup {NoHead}
    /\ NamesAt \in [Heads -> (SUBSET Names) \ {{}}]
    /\ VersionsAt \in [Heads -> (SUBSET Versions) \ {{}}]
    /\ \A h \in Heads : IsFiniteSet(NamesAt[h])
    /\ MaxFailures \in Nat

VARIABLES
    upstream,   \* the tip of the branch at aur.archlinux.org
    stamp,      \* .<repo>.aur-head in CACHE_PKG
    files,      \* files[<<n, v>>]: the commit that archive n-v was made from
    pc,         \* where the stage is with this repository
    head,       \* repo_head() of the clone in this run
    version,    \* the version makepkg gave this build
    todo,       \* packages makepkg has still to archive in this run
    artifacts,  \* what build_repo() returns: a set of <<name, version>>
    failures,
    strayed     \* history: upstream has put the branch back on an older
                \* commit, or makepkg has left out a package and succeeded

persistent == <<stamp, files>>
vars == <<upstream, stamp, files, pc, head, version, todo, artifacts, failures, strayed>>

Archives == Names \X Versions

TypeOK ==
    /\ upstream \in Heads
    /\ stamp \in Heads \cup {NoHead}
    /\ files \in [Archives -> Heads \cup {NoHead, Torn}]
    /\ pc \in {"idle", "check", "make", "install"}
    /\ head \in Heads \cup {NoHead}
    /\ (pc # "idle" => head # NoHead)
    /\ version \in Versions
    /\ todo \subseteq Names
    /\ artifacts \subseteq Archives
    /\ failures \in 0 .. MaxFailures
    /\ strayed \in BOOLEAN

Init ==
    /\ upstream \in Heads
    /\ stamp = NoHead
    /\ files = [a \in Archives |-> NoHead]
    /\ pc = "idle"
    /\ head = NoHead
    /\ version \in Versions
    /\ todo = {}
    /\ artifacts = {}
    /\ failures = 0
    /\ strayed = FALSE

-----------------------------------------------------------------------------
\* find_artifacts() has `pacman -Qp' read every archive in CACHE_PKG before it
\* asks whose it is: one that is torn makes it raise.
Readable == \A a \in Archives : files[a] # Torn

\* What it returns: every archive of one of the packages, of any version.
FindArtifacts(h) ==
    {a \in Archives : a[1] \in NamesAt[h] /\ files[a] # NoHead}

\* (mutant) off by one
MutEnough(h) == Cardinality(FindArtifacts(h)) > Cardinality(NamesAt[h])

Enough(h) == Cardinality(FindArtifacts(h)) >= Cardinality(NamesAt[h])

\* Upstream moves the branch.
Push ==
    /\ \E h \in Heads \ {upstream} :
           /\ upstream' = h
           /\ strayed' = (strayed \/ h < upstream)
    /\ UNCHANGED <<persistent, pc, head, version, todo, artifacts, failures>>

\* (mutant) the commit of the last build is taken for the tip
MutTip == stamp

Tip == upstream

\* update_repo(): whatever an earlier run left in the clone is reset to the
\* fetched branch tip.
UpdateRepo ==
    /\ pc = "idle"
    /\ head' = Tip
    /\ pc' = "check"
    /\ UNCHANGED <<upstream, persistent, version, todo, artifacts, failures, strayed>>

\* (mutant) that there is a stamp is enough
MutFresh(h) == stamp # NoHead /\ Enough(h)

\* (mutant) the number of archives has to exceed that of the packages
MutFreshAbove(h) ==
    stamp = h /\ Cardinality(FindArtifacts(h)) > Cardinality(NamesAt[h])

Fresh(h) == stamp = h /\ Enough(h)

Reuse ==
    /\ pc = "check"
    /\ Readable
    /\ Fresh(head)
    /\ artifacts' = FindArtifacts(head)
    /\ pc' = "install"
    /\ UNCHANGED <<upstream, persistent, head, version, todo, failures, strayed>>

\* makepkg may leave out packages, as those of another architecture.
StartMakepkg ==
    /\ pc = "check"
    /\ Readable
    /\ ~Fresh(head)
    /\ version' \in VersionsAt[head]
    /\ todo' \in (SUBSET NamesAt[head]) \ {{}}
    /\ strayed' = (strayed \/ todo' # NamesAt[head])
    /\ pc' = "make"
    /\ UNCHANGED <<upstream, persistent, head, artifacts, failures>>

\* makepkg -f writes the archives one after the other, over existing ones.
Archive(n) ==
    /\ pc = "make"
    /\ n \in todo
    /\ files' = [files EXCEPT ![<<n, version>>] = head]
    /\ todo' = todo \ {n}
    /\ UNCHANGED <<upstream, stamp, pc, head, version, artifacts, failures, strayed>>

MakepkgDone == todo = {}

\* makepkg has succeeded and the archives found are as many as the packages.
Stamp ==
    /\ pc = "make"
    /\ MakepkgDone
    /\ Readable
    /\ Enough(head)
    /\ artifacts' = FindArtifacts(head)
    /\ stamp' = head
    /\ pc' = "install"
    /\ UNCHANGED <<upstream, files, head, version, todo, failures, strayed>>

\* "did not produce all expected artifacts".
TooFew ==
    /\ pc = "make"
    /\ MakepkgDone
    /\ Readable
    /\ ~Enough(head)
    /\ pc' = "idle"
    /\ UNCHANGED <<upstream, persistent, head, version, todo, artifacts, failures, strayed>>

\* build_repo() lists the archives before it decides and after makepkg.
Lists == pc = "check" \/ (pc = "make" /\ MakepkgDone)

\* find_artifacts() raises, and with it the stage.
Unreadable ==
    /\ Lists
    /\ ~Readable
    /\ pc' = "idle"
    /\ UNCHANGED <<upstream, persistent, head, version, todo, artifacts, failures, strayed>>

\* pacman -U, then cleanup_after_install(), which leaves CACHE_PKG alone.
Install ==
    /\ pc = "install"
    /\ pc' = "idle"
    /\ UNCHANGED <<upstream, persistent, head, version, todo, artifacts, failures, strayed>>

\* What an end in the middle of makepkg may leave: an archive it was writing,
\* in the place of one of that version that was there before.
TornFiles ==
    {[files EXCEPT ![<<n, version>>] = Torn] : n \in IF pc = "make" THEN todo ELSE {}}

\* makepkg or another command fails, or the image build is interrupted: what
\* is in the cache mounts stays.  write_text() has emptied the stamp before it
\* writes it.
Interrupt ==
    /\ pc # "idle"
    /\ failures < MaxFailures
    /\ failures' = failures + 1
    /\ stamp' \in IF pc = "make" /\ MakepkgDone /\ Enough(head)
                 THEN {stamp, NoHead} ELSE {stamp}
    /\ files' \in {files} \cup TornFiles
    /\ pc' = "idle"
    /\ UNCHANGED <<upstream, head, version, todo, artifacts, strayed>>

Run ==
    \/ Reuse \/ StartMakepkg
    \/ \E n \in Names : Archive(n)
    \/ Stamp \/ TooFew \/ Unreadable \/ Install

Next == Push \/ UpdateRepo \/ Run \/ Interrupt

\* A stage that has begun goes on to its end unless it is interrupted; nobody
\* has to start one, and upstream need not move.
Spec == Init /\ [][Next]_vars /\ WF_vars(Run)

-----------------------------------------------------------------------------
BuiltAt(a, h) == files[a] = h

\* Among what is given to pacman -U there is, of every package of the commit
\* the run works on, an archive made from that commit, whatever interrupted
\* runs left behind, unless upstream or makepkg has strayed ("reuse cached
\* artifacts for <repo> at <head>", line 361; "did not produce all expected
\* artifacts", line 379).
CompleteAtHead ==
    pc = "install" /\ ~strayed =>
        \A n \in NamesAt[head] :
            \E a \in artifacts : a[1] = n /\ BuiltAt(a, head)

\* A commit that has been stamped is not built again while the stamp stands.
NoRebuild == [][pc = "check" /\ pc' = "make" => stamp # head]_vars

\* Once no more failures come, a stage that has begun gets to its install,
\* whatever stamps, clones and whole archives the interrupted ones before it
\* left in the caches.  An archive they left torn ends it in find_artifacts()
\* (line 323), before anything can write that archive again, and a makepkg
\* that leaves packages out may end it too.
Recovers ==
    failures = MaxFailures /\ pc = "check" ~> pc = "install" \/ strayed \/ ~Readable
=============================================================================
