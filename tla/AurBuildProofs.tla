--------------------------- MODULE AurBuildProofs ---------------------------
(***************************************************************************)
(* Proofs about the package cache of the AUR stage, for any history of the *)
(* branch, any split into packages and any number of failures.             *)
(***************************************************************************)
EXTENDS AurBuild, FiniteSetTheorems, TLAPS

-----------------------------------------------------------------------------
(***************************************************************************)
(* The inductive invariant.                                                *)
(***************************************************************************)

\* The archives in CACHE_PKG.
Written == {a \in Archives : files[a] # NoHead}

\* Some archive of package n was made from commit h.
HasBuild(n, h) == \E v \in Versions : files[<<n, v>>] = h

\* Whatever happens: archives are never removed, so a commit with a stamp
\* keeps passing the test on their number.
StampCounts ==
    /\ IsFiniteSet(Written)
    /\ stamp # NoHead => Enough(stamp)
    /\ pc = "make" => stamp # head /\ todo \subseteq NamesAt[head]

\* As long as neither upstream nor makepkg strays: the stamp is no newer than
\* the commit worked on and that no newer than the branch; a build that goes
\* on has made all but `todo', and behind a stamp, and in what is installed,
\* there is every package of the commit.
AtHead ==
    /\ head # NoHead => head <= upstream
    /\ stamp # NoHead => head # NoHead /\ stamp <= head
    /\ stamp = head /\ head # NoHead => \A n \in NamesAt[head] : HasBuild(n, head)
    /\ pc = "make" => \A n \in NamesAt[head] \ todo : files[<<n, version>>] = head
    /\ pc = "install" => \A n \in NamesAt[head] :
                             \E a \in artifacts : a[1] = n /\ files[a] = head

IInv == TypeOK /\ StampCounts /\ (~strayed => AtHead)

-----------------------------------------------------------------------------
(***************************************************************************)
(* Lemmas about the archives.                                              *)
(***************************************************************************)

LEMMA NoHeadIsNone == NoHead \notin Heads \cup {Torn}
BY BuildAssumption DEF BuildAssumption

\* What find_artifacts() counts is finite.
LEMMA FoundIsFinite ==
    ASSUME IsFiniteSet(Written), NEW h
    PROVE  IsFiniteSet(FindArtifacts(h)) /\ Cardinality(FindArtifacts(h)) \in Nat
<1>1. FindArtifacts(h) \subseteq Written
  BY DEF FindArtifacts, Written
<1> QED BY <1>1, FS_Subset, FS_CardinalityType

\* The number of packages of a commit is a number.
LEMMA NamesCounted ==
    ASSUME NEW h \in Heads PROVE Cardinality(NamesAt[h]) \in Nat
BY BuildAssumption, FS_CardinalityType DEF BuildAssumption

\* A commit with a stamp passes the test of line 360.
LEMMA StampedIsFresh == ASSUME IInv, pc = "check", stamp = head PROVE Fresh(head)
<1>1. stamp # NoHead
  BY DEF IInv, TypeOK
<1>2. Enough(stamp)
  BY <1>1 DEF IInv, StampCounts
<1> QED BY <1>2 DEF Fresh, Enough, FindArtifacts

\* Something is put in the place of an archive, a whole one or a torn one: the
\* others stay, and a commit that had enough archives still has.
LEMMA OverwriteFacts ==
    ASSUME IInv, NEW b \in Archives, NEW c \in Heads \cup {Torn},
           files' = [files EXCEPT ![b] = c]
    PROVE  /\ files' \in [Archives -> Heads \cup {NoHead, Torn}]
           /\ files'[b] = c
           /\ \A a \in Archives : a # b => files'[a] = files[a]
           /\ IsFiniteSet(Written')
           /\ \A h \in Heads : Enough(h) => Enough(h)'
<1>1. files' \in [Archives -> Heads \cup {NoHead, Torn}]
  BY DEF IInv, TypeOK
<1>2. /\ files'[b] = c
      /\ \A a \in Archives : a # b => files'[a] = files[a]
  BY DEF IInv, TypeOK
<1>3. c # NoHead
  BY NoHeadIsNone
<1>4. Written' = Written \cup {b}
  BY <1>2, <1>3 DEF Written
<1>5. IsFiniteSet(Written')
  BY <1>4, FS_AddElement DEF IInv, StampCounts
<1>6. ASSUME NEW h \in Heads, Enough(h) PROVE Enough(h)'
  <2>1. FindArtifacts(h) \subseteq FindArtifacts(h)'
    BY <1>2, <1>3 DEF FindArtifacts
  <2>2. FindArtifacts(h)' \subseteq Written'
    BY DEF FindArtifacts, Written
  <2>3. IsFiniteSet(FindArtifacts(h)')
    BY <1>5, <2>2, FS_Subset
  <2>4. Cardinality(FindArtifacts(h)) <= Cardinality(FindArtifacts(h)')
    BY <2>1, <2>3, FS_Subset
  <2>5. /\ Cardinality(FindArtifacts(h)) \in Nat
        /\ Cardinality(FindArtifacts(h)') \in Nat
        /\ Cardinality(NamesAt[h]) \in Nat
    BY <2>3, FoundIsFinite, NamesCounted, FS_CardinalityType DEF IInv, StampCounts
  <2>6. Cardinality(FindArtifacts(h)) >= Cardinality(NamesAt[h])
    BY <1>6 DEF Enough
  <2>7. Cardinality(FindArtifacts(h)') >= Cardinality(NamesAt[h])
    BY <2>4, <2>5, <2>6
  <2> QED BY <2>7 DEF Enough
<1> QED BY <1>1, <1>2, <1>5, <1>6

\* makepkg writes an archive.
LEMMA ArchiveFacts ==
    ASSUME IInv, NEW n \in Names, Archive(n)
    PROVE  /\ n \in todo /\ n \in NamesAt[head] /\ head \in Heads
           /\ files' \in [Archives -> Heads \cup {NoHead, Torn}]
           /\ files'[<<n, version>>] = head
           /\ \A a \in Archives : a # <<n, version>> => files'[a] = files[a]
           /\ IsFiniteSet(Written')
           /\ \A h \in Heads : Enough(h) => Enough(h)'
<1>1. /\ n \in todo /\ n \in NamesAt[head] /\ head \in Heads
      /\ <<n, version>> \in Archives
      /\ files' = [files EXCEPT ![<<n, version>>] = head]
  BY DEF Archive, IInv, TypeOK, StampCounts, Archives
<1> QED BY <1>1, OverwriteFacts

\* An end of the stage leaves the archives alone or, in makepkg only, one of
\* them torn; the stamp is as it was or empty, and as it was with a torn one.
LEMMA InterruptFacts ==
    ASSUME IInv, Interrupt
    PROVE  /\ files' \in [Archives -> Heads \cup {NoHead, Torn}]
           /\ IsFiniteSet(Written')
           /\ \A h \in Heads : Enough(h) => Enough(h)'
           /\ stamp' \in {stamp, NoHead}
           /\ files' = files \/ stamp # head
<1>1. stamp' \in {stamp, NoHead} /\ files' \in {files} \cup TornFiles
  BY DEF Interrupt
<1>2. CASE files' = files
  <2>1. Written' = Written /\ \A h \in Heads : Enough(h) => Enough(h)'
    BY <1>2 DEF Written, Enough, FindArtifacts
  <2> QED BY <1>1, <1>2, <2>1 DEF IInv, TypeOK, StampCounts
<1>3. CASE files' \in TornFiles
  <2>1. pc = "make" /\ stamp # head
    BY <1>3 DEF TornFiles, IInv, StampCounts
  <2>2. PICK n \in todo : files' = [files EXCEPT ![<<n, version>>] = Torn]
    BY <1>3 DEF TornFiles
  <2>3. <<n, version>> \in Archives
    BY <2>2 DEF IInv, TypeOK, Archives
  <2> QED BY <1>1, <2>1, <2>2, <2>3, OverwriteFacts
<1> QED BY <1>1, <1>2, <1>3

-----------------------------------------------------------------------------
(***************************************************************************)
(* IInv is inductive.                                                      *)
(***************************************************************************)
LEMMA TypeStep == ASSUME IInv, [Next]_vars PROVE TypeOK'
<1> USE DEF IInv, TypeOK, persistent
<1>1. CASE Push
  BY <1>1 DEF Push
<1>2. CASE UpdateRepo
  BY <1>2, NoHeadIsNone DEF UpdateRepo, Tip
<1>3. CASE Reuse
  BY <1>3 DEF Reuse, FindArtifacts
<1>4. CASE StartMakepkg
  <2>1. /\ head \in Heads /\ head # NoHead
        /\ version' \in VersionsAt[head] /\ todo' \subseteq NamesAt[head]
    BY <1>4 DEF StartMakepkg
  <2>2. version' \in Versions /\ todo' \subseteq Names
    BY <2>1, BuildAssumption DEF BuildAssumption
  <2> QED BY <1>4, <2>1, <2>2 DEF StartMakepkg
<1>5. ASSUME NEW n \in Names, Archive(n) PROVE TypeOK'
  BY <1>5, ArchiveFacts DEF Archive
<1>6. CASE Stamp
  BY <1>6 DEF Stamp, FindArtifacts
<1>7. CASE TooFew \/ Unreadable \/ Install
  BY <1>7 DEF TooFew, Unreadable, Install
<1>8. CASE Interrupt
  <2>1. failures' \in 0 .. MaxFailures
    BY <1>8, BuildAssumption DEF Interrupt, BuildAssumption
  <2>2. stamp' \in Heads \cup {NoHead}
    BY <1>8 DEF Interrupt
  <2>3. files' \in [Archives -> Heads \cup {NoHead, Torn}]
    BY <1>8, InterruptFacts
  <2> QED BY <1>8, <2>1, <2>2, <2>3 DEF Interrupt
<1>9. CASE UNCHANGED vars
  BY <1>9 DEF vars
<1> QED BY <1>1, <1>2, <1>3, <1>4, <1>5, <1>6, <1>7, <1>8, <1>9 DEF Next, Run

LEMMA StampCountsStep == ASSUME IInv, [Next]_vars PROVE StampCounts'
<1>1. ASSUME UNCHANGED persistent, pc' # "make" PROVE StampCounts'
  BY <1>1 DEF IInv, StampCounts, persistent, Written, Enough, FindArtifacts
<1>2. CASE UpdateRepo \/ Reuse \/ TooFew \/ Unreadable \/ Install
  BY <1>1, <1>2 DEF UpdateRepo, Reuse, TooFew, Unreadable, Install, persistent
<1>3. CASE Push \/ UNCHANGED vars
  BY <1>3 DEF Push, vars, IInv, StampCounts, persistent, Written, Enough, FindArtifacts
<1>4. CASE StartMakepkg
  <2>1. UNCHANGED <<stamp, files, head>> /\ todo' \subseteq NamesAt[head]
    BY <1>4 DEF StartMakepkg, persistent
  <2>2. stamp # head
    BY <1>4, StampedIsFresh DEF StartMakepkg
  <2> QED BY <2>1, <2>2 DEF IInv, StampCounts, Written, Enough, FindArtifacts
<1>5. ASSUME NEW n \in Names, Archive(n) PROVE StampCounts'
  <2>1. UNCHANGED <<stamp, pc, head>> /\ todo' \subseteq todo
    BY <1>5 DEF Archive
  <2>2. IsFiniteSet(Written') /\ \A h \in Heads : Enough(h) => Enough(h)'
    BY <1>5, ArchiveFacts
  <2>3. ASSUME NEW h \in Heads, h = stamp PROVE Enough(h)'
    <3>1. Enough(stamp)
      BY <2>3, NoHeadIsNone DEF IInv, StampCounts
    <3>2. Enough(h)
      BY <2>3, <3>1 DEF Enough, FindArtifacts
    <3> QED BY <2>2, <3>2
  <2>4. stamp' # NoHead => Enough(stamp)'
    BY <2>1, <2>3 DEF IInv, TypeOK, Enough, FindArtifacts
  <2> QED BY <2>1, <2>2, <2>4 DEF IInv, StampCounts
<1>6. CASE Stamp
  <2>1. /\ stamp' = head /\ UNCHANGED <<files, head>> /\ pc' = "install" /\ Enough(head)
    BY <1>6 DEF Stamp
  <2>2. Written' = Written
    BY <2>1 DEF Written
  <2>3. Enough(stamp)'
    BY <2>1 DEF Enough, FindArtifacts
  <2> QED BY <2>1, <2>2, <2>3 DEF IInv, StampCounts
<1>7. CASE Interrupt
  <2>1. pc' = "idle"
    BY <1>7 DEF Interrupt
  <2>2. /\ IsFiniteSet(Written') /\ stamp' \in {stamp, NoHead}
        /\ \A h \in Heads : Enough(h) => Enough(h)'
    BY <1>7, InterruptFacts
  <2>3. ASSUME stamp' # NoHead PROVE Enough(stamp)'
    <3>1. stamp' = stamp /\ stamp \in Heads /\ Enough(stamp)
      BY <2>2, <2>3 DEF IInv, TypeOK, StampCounts
    <3>2. \A h \in Heads : h = stamp' => Enough(h)'
      BY <2>2, <3>1
    <3> QED BY <3>1, <3>2 DEF Enough, FindArtifacts
  <2> QED BY <2>1, <2>2, <2>3 DEF IInv, StampCounts
<1> QED BY <1>2, <1>3, <1>4, <1>5, <1>6, <1>7 DEF Next, Run

\* Every archive of the commit that is in the cache is found.
LEMMA FoundAtHead ==
    ASSUME TypeOK, head # NoHead, \A n \in NamesAt[head] : HasBuild(n, head)
    PROVE  \A n \in NamesAt[head] :
               \E a \in FindArtifacts(head) : a[1] = n /\ files[a] = head
<1> SUFFICES ASSUME NEW n \in NamesAt[head]
             PROVE  \E a \in FindArtifacts(head) : a[1] = n /\ files[a] = head
  OBVIOUS
<1>1. PICK v \in Versions : files[<<n, v>>] = head
  BY DEF HasBuild
<1>2. n \in Names
  BY BuildAssumption DEF BuildAssumption, TypeOK
<1>3. <<n, v>> \in FindArtifacts(head)
  BY <1>1, <1>2 DEF FindArtifacts, Archives
<1> QED BY <1>1, <1>3

LEMMA AtHeadStep ==
    ASSUME IInv, [Next]_vars, ~strayed' PROVE AtHead'
<1>1. ~strayed /\ AtHead
  <2>1. strayed => strayed'
    BY DEF Next, Run, Push, UpdateRepo, Reuse, StartMakepkg, Archive, Stamp, TooFew,
           Unreadable, Install, Interrupt, vars
  <2> QED BY <2>1 DEF IInv
<1>2. /\ upstream \in Nat /\ (head # NoHead => head \in Nat)
      /\ (stamp # NoHead => stamp \in Nat)
  BY BuildAssumption DEF IInv, TypeOK, BuildAssumption
<1>3. CASE Push
  <2>1. UNCHANGED <<stamp, files, pc, head, version, todo, artifacts>>
    BY <1>3 DEF Push, persistent
  <2>2. upstream' \in Nat /\ ~(upstream' < upstream)
    BY <1>3, BuildAssumption DEF Push, BuildAssumption
  <2>3. head # NoHead => head <= upstream'
    BY <1>1, <1>2, <2>2 DEF AtHead
  <2> QED BY <1>1, <2>1, <2>3 DEF AtHead, HasBuild
<1>4. CASE UpdateRepo
  <2>1. UNCHANGED <<upstream, stamp, files>> /\ head' = upstream /\ pc' = "check"
    BY <1>4 DEF UpdateRepo, Tip, persistent
  <2>2. head' <= upstream
    BY <1>2, <2>1
  <2>3. stamp # NoHead => head' # NoHead /\ stamp <= head'
    BY <1>1, <1>2, <2>1, NoHeadIsNone DEF AtHead, IInv, TypeOK
  <2>4. stamp = head' => head # NoHead /\ stamp = head
    BY <1>1, <1>2, <2>1, NoHeadIsNone DEF AtHead, IInv, TypeOK
  <2> QED BY <1>1, <2>1, <2>2, <2>3, <2>4 DEF AtHead, HasBuild
<1>5. CASE Reuse
  <2>1. /\ UNCHANGED <<upstream, stamp, files, head>>
        /\ artifacts' = FindArtifacts(head) /\ pc' = "install"
        /\ stamp = head /\ head # NoHead /\ TypeOK
    BY <1>5 DEF Reuse, Fresh, persistent, IInv, TypeOK
  <2>2. \A n \in NamesAt[head] : HasBuild(n, head)
    BY <1>1, <2>1 DEF AtHead
  <2>3. \A n \in NamesAt[head] : \E a \in artifacts' : a[1] = n /\ files[a] = head
    BY <2>1, <2>2, FoundAtHead
  <2> QED BY <1>1, <2>1, <2>3 DEF AtHead, HasBuild
<1>6. CASE StartMakepkg
  <2>1. UNCHANGED <<upstream, stamp, files, head>> /\ pc' = "make" /\ todo' = NamesAt[head]
    BY <1>6 DEF StartMakepkg, persistent
  <2>2. NamesAt[head] \ todo' = {}
    BY <2>1
  <2> QED BY <1>1, <2>1, <2>2 DEF AtHead, HasBuild
<1>7. ASSUME NEW n \in Names, Archive(n) PROVE AtHead'
  <2>1. UNCHANGED <<upstream, stamp, pc, head, version>> /\ pc = "make" /\ todo' = todo \ {n}
    BY <1>7 DEF Archive
  <2>2. stamp # head
    BY <2>1 DEF IInv, StampCounts
  <2>3. \A q \in NamesAt[head] : q \in Names
    BY <1>7, ArchiveFacts, BuildAssumption DEF BuildAssumption
  <2>4. ASSUME NEW q \in NamesAt[head] \ todo' PROVE files'[<<q, version>>] = head
    <3>1. CASE q = n
      BY <1>7, <3>1, ArchiveFacts
    <3>2. CASE q # n
      <4>1. q \in NamesAt[head] \ todo
        BY <2>1, <2>4, <3>2
      <4>2. files[<<q, version>>] = head
        BY <1>1, <2>1, <4>1 DEF AtHead
      <4>3. <<q, version>> \in Archives /\ <<q, version>> # <<n, version>>
        BY <2>3, <3>2 DEF Archives, IInv, TypeOK
      <4> QED BY <1>7, <4>2, <4>3, ArchiveFacts
    <3> QED BY <3>1, <3>2
  <2> QED BY <1>1, <2>1, <2>2, <2>4 DEF AtHead
<1>8. CASE Stamp
  <2>1. /\ UNCHANGED <<upstream, files, head>> /\ stamp' = head
        /\ artifacts' = FindArtifacts(head) /\ pc' = "install"
        /\ pc = "make" /\ todo = {} /\ head # NoHead /\ TypeOK
        /\ version \in Versions
    BY <1>8 DEF Stamp, MakepkgDone, IInv, TypeOK
  <2>2. \A n \in NamesAt[head] : HasBuild(n, head)
    BY <1>1, <2>1 DEF AtHead, HasBuild
  <2>3. \A n \in NamesAt[head] : \E a \in artifacts' : a[1] = n /\ files[a] = head
    BY <2>1, <2>2, FoundAtHead
  <2>4. head <= head
    BY <1>2, <2>1
  <2> QED BY <1>1, <2>1, <2>2, <2>3, <2>4 DEF AtHead, HasBuild
<1>9. CASE TooFew \/ Unreadable \/ Install
  <2>1. UNCHANGED <<upstream, stamp, files, head>> /\ pc' = "idle"
    BY <1>9 DEF TooFew, Unreadable, Install, persistent
  <2> QED BY <1>1, <2>1 DEF AtHead, HasBuild
<1>10. CASE Interrupt
  <2>1. UNCHANGED <<upstream, head>> /\ pc' = "idle"
    BY <1>10 DEF Interrupt
  <2>2. stamp' \in {stamp, NoHead} /\ (files' = files \/ stamp # head)
    BY <1>10, InterruptFacts
  <2>3. stamp' = head /\ head # NoHead => files' = files /\ stamp = head
    BY <2>2
  <2>4. stamp' # NoHead => head # NoHead /\ stamp' <= head
    BY <1>1, <2>2 DEF AtHead
  <2>5. stamp' = head /\ head # NoHead => \A n \in NamesAt[head] : HasBuild(n, head)'
    BY <1>1, <2>1, <2>3 DEF AtHead, HasBuild
  <2> QED BY <1>1, <2>1, <2>4, <2>5 DEF AtHead, HasBuild
<1>11. CASE UNCHANGED vars
  BY <1>1, <1>11 DEF vars, AtHead, HasBuild
<1> QED BY <1>3, <1>4, <1>5, <1>6, <1>7, <1>8, <1>9, <1>10, <1>11 DEF Next, Run

LEMMA InvInit == Init => IInv
<1> SUFFICES ASSUME Init PROVE IInv
  OBVIOUS
<1>1. failures \in 0 .. MaxFailures
  BY BuildAssumption DEF Init, BuildAssumption
<1>2. TypeOK
  BY <1>1 DEF Init, TypeOK
<1>3. Written = {}
  BY DEF Init, Written
<1>4. StampCounts
  BY <1>3, FS_EmptySet DEF Init, StampCounts
<1>5. AtHead
  BY NoHeadIsNone DEF Init, AtHead
<1> QED BY <1>2, <1>4, <1>5 DEF IInv

LEMMA Invariant == Spec => []IInv
<1>1. IInv /\ [Next]_vars => IInv'
  BY TypeStep, StampCountsStep, AtHeadStep DEF IInv
<1> QED BY <1>1, InvInit, PTL DEF Spec

-----------------------------------------------------------------------------
(***************************************************************************)
(* The theorems.                                                           *)
(***************************************************************************)

\* Every variable of the stage and of the caches keeps its type.
THEOREM TypeCorrect == Spec => []TypeOK
<1>1. IInv => TypeOK
  BY DEF IInv
<1> QED BY <1>1, Invariant, PTL

\* What is installed contains every package of the commit, made from it,
\* whatever earlier runs left behind (build_repo(), lines 356-382), as long as
\* neither upstream nor makepkg strays.
THEOREM InstallsComplete == Spec => []CompleteAtHead
<1>1. IInv => CompleteAtHead
  BY DEF IInv, AtHead, CompleteAtHead, BuiltAt
<1> QED BY <1>1, Invariant, PTL

\* makepkg is not started for a commit that has a stamp (line 360).
THEOREM StampedIsKept == Spec => NoRebuild
<1>1. IInv /\ [Next]_vars => [pc = "check" /\ pc' = "make" => stamp # head]_vars
  <2> SUFFICES ASSUME IInv, Next, pc = "check", pc' = "make" PROVE stamp # head
    OBVIOUS
  <2>1. StartMakepkg
    BY DEF Next, Run, Push, UpdateRepo, Reuse, Archive, Stamp, TooFew, Unreadable,
           Install, Interrupt, persistent
  <2> QED BY <2>1, StampedIsFresh DEF StartMakepkg
<1> QED BY <1>1, Invariant, PTL DEF Spec, NoRebuild
=============================================================================
