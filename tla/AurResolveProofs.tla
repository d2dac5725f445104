-------------------------- MODULE AurResolveProofs --------------------------
(***************************************************************************)
(* Proofs about the AUR stage, for any set of repositories, any .SRCINFO   *)
(* contents, any requests and any behaviour of the AUR, in three parts:    *)
(*   1. types, and the caches keep what has been decided;                  *)
(*   2. the depth-first search of resolve_repo() yields a build order;     *)
(*   3. the whole stage: what is installed when a build starts, the step   *)
(*      by step implementation of BuildOrder, and the choice of providers. *)
(***************************************************************************)
EXTENDS AurResolve, TLAPS

-----------------------------------------------------------------------------
(***************************************************************************)
(* Lemmas about the operators of the model.                                *)
(***************************************************************************)

\* Appending to a sequence adds one element to its set of elements.
LEMMA ToSetAppend ==
    ASSUME NEW S, NEW q \in Seq(S), NEW e
    PROVE  ToSet(Append(q, e)) = ToSet(q) \cup {e}
<1>1. /\ DOMAIN Append(q, e) = 1 .. (Len(q) + 1)
      /\ DOMAIN q = 1 .. Len(q)
      /\ Len(q) \in Nat
      /\ \A i \in 1 .. Len(q) : Append(q, e)[i] = q[i]
      /\ Append(q, e)[Len(q) + 1] = e
  OBVIOUS
<1>2. \A x : x \in ToSet(Append(q, e)) => x \in ToSet(q) \cup {e}
  <2> SUFFICES ASSUME NEW i \in 1 .. (Len(q) + 1)
               PROVE  Append(q, e)[i] \in ToSet(q) \cup {e}
    BY <1>1 DEF ToSet
  <2> QED BY <1>1 DEF ToSet
<1>3. \A x : x \in ToSet(q) \cup {e} => x \in ToSet(Append(q, e))
  <2>1. \A i \in 1 .. Len(q) : Append(q, e)[i] = q[i] /\ i \in 1 .. (Len(q) + 1)
    BY <1>1
  <2>2. Len(q) + 1 \in 1 .. (Len(q) + 1)
    BY <1>1
  <2> QED BY <1>1, <2>1, <2>2 DEF ToSet
<1> QED BY <1>2, <1>3

\* Front() drops the last element.
LEMMA FrontFacts ==
    ASSUME NEW S, NEW q \in Seq(S), Len(q) # 0
    PROVE  /\ Front(q) \in Seq(S)
           /\ Len(Front(q)) = Len(q) - 1
           /\ \A n \in 1 .. (Len(q) - 1) : Front(q)[n] = q[n]
<1>1. Len(q) \in Nat \ {0} /\ Len(q) - 1 \in Nat /\ \A n \in 1 .. Len(q) : q[n] \in S
  OBVIOUS
<1>2. Front(q) = [n \in 1 .. (Len(q) - 1) |-> q[n]]
  BY <1>1 DEF Front
<1>3. \A n \in 1 .. (Len(q) - 1) : q[n] \in S
  BY <1>1
<1>4. Front(q) \in Seq(S)
  BY <1>1, <1>2, <1>3
<1>5. Len(Front(q)) = Len(q) - 1
  BY <1>1, <1>2
<1> QED BY <1>2, <1>4, <1>5

\* The repository chosen among several is one of them.
LEMMA PreferredIsOne ==
    ASSUME NEW S PROVE Preferred(S) \subseteq S
BY DEF Preferred

\* The record of a search result that is looked up again gives a repository
\* or says there is none.
LEMMA MatchesType ==
    ASSUME NEW w \in Snapshots, NEW s \in Symbols,
           NEW seen \in [w.hits[s] -> Snapshots]
    PROVE  Matches(s, w, seen) \subseteq Repos \cup {NoRepo}
<1>1. \A v \in Snapshots : v \in Snapshot
  BY ResolveAssumption DEF ResolveAssumption
<1>2. w.hits[s] \subseteq Symbols
  BY <1>1 DEF Snapshot
<1>3. \A v \in Snapshots, p \in Symbols : v.base[p] \in Repos \cup {NoRepo}
  BY <1>1 DEF Snapshot
<1>4. \A p \in w.hits[s] : RecordOf(p, w, seen) \in Snapshots
  BY DEF RecordOf
<1> QED BY <1>2, <1>3, <1>4 DEF Matches

\* The AUR answers with a repository or with none.
LEMMA FromAurType ==
    ASSUME NEW s \in Symbols PROVE FromAur(s) \subseteq Repos \cup {NoRepo}
<1>1. \A w \in Snapshots : w.base[s] \in Repos \cup {NoRepo}
  BY ResolveAssumption DEF ResolveAssumption, Snapshot
<1>2. ASSUME NEW w \in Snapshots
      PROVE  FromSearch(s, w) \subseteq Repos \cup {NoRepo}
  <2>1. CASE Cardinality(w.hits[s]) = 1
    <3>1. \A p \in w.hits[s] : w.base[p] \in Repos \cup {NoRepo}
      BY ResolveAssumption DEF ResolveAssumption, Snapshot
    <3> QED BY <2>1, <3>1 DEF FromSearch
  <2>2. CASE Cardinality(w.hits[s]) # 1
    <3>1. ASSUME NEW seen \in [w.hits[s] -> Snapshots]
          PROVE  (IF Matches(s, w, seen) = {} THEN {NoRepo}
                  ELSE Preferred(Matches(s, w, seen))) \subseteq Repos \cup {NoRepo}
      BY MatchesType, PreferredIsOne
    <3> QED BY <2>2, <3>1 DEF FromSearch
  <2> QED BY <2>1, <2>2
<1> QED BY <1>1, <1>2 DEF FromAur

\* A provider is a repository or none, and a remembered one is final.
LEMMA SelectProviderType ==
    ASSUME TypeOK, NEW s \in Symbols
    PROVE  /\ SelectProvider(s) \subseteq Repos \cup {NoRepo}
           /\ provider_cache[s] # NoRepo => SelectProvider(s) = {provider_cache[s]}
<1>1. provider_cache[s] \in Repos \cup {NoRepo} /\ symbol_to_repo[s] \in Repos \cup {NoRepo}
  BY DEF TypeOK
<1>2. FromAur(s) \subseteq Repos \cup {NoRepo}
  BY FromAurType
<1>3. CASE provider_cache[s] # NoRepo
  BY <1>1, <1>3 DEF SelectProvider
<1>4. CASE provider_cache[s] = NoRepo /\ symbol_to_repo[s] # NoRepo
  BY <1>1, <1>4 DEF SelectProvider
<1>5. CASE provider_cache[s] = NoRepo /\ symbol_to_repo[s] = NoRepo
  BY <1>2, <1>5 DEF SelectProvider
<1> QED BY <1>3, <1>4, <1>5

\* load_repo() keeps the caches well typed, caches the repository, and leaves
\* what was cached alone.
LEMMA LoadType ==
    ASSUME TypeOK, NEW r \in Repos, Load(r)
    PROVE  /\ repo_cache' \in [Repos -> Info \cup {NoInfo}]
           /\ symbol_to_repo' \in [Symbols -> Repos \cup {NoRepo}]
           /\ repo_cache'[r] # NoInfo
           /\ \A q \in Repos : repo_cache[q] # NoInfo => repo_cache'[q] = repo_cache[q]
           /\ \A q \in Repos \ {r} : repo_cache'[q] = repo_cache[q]
<1>1. PICK info \in IF repo_cache[r] = NoInfo THEN Srcinfos[r] ELSE {repo_cache[r]} :
          /\ repo_cache' = [repo_cache EXCEPT ![r] = info]
          /\ symbol_to_repo' =
               [s \in Symbols |->
                   IF s \in info.symbols /\ symbol_to_repo[s] = NoRepo
                   THEN r ELSE symbol_to_repo[s]]
  BY DEF Load
<1>2. repo_cache \in [Repos -> Info \cup {NoInfo}]
      /\ symbol_to_repo \in [Symbols -> Repos \cup {NoRepo}]
  BY DEF TypeOK
<1>3. info \in Info /\ info # NoInfo /\ (repo_cache[r] # NoInfo => info = repo_cache[r])
  <2>1. CASE repo_cache[r] = NoInfo
    BY <1>1, <2>1, ResolveAssumption DEF ResolveAssumption
  <2>2. CASE repo_cache[r] # NoInfo
    BY <1>1, <1>2, <2>2
  <2> QED BY <2>1, <2>2
<1>4. symbol_to_repo' \in [Symbols -> Repos \cup {NoRepo}]
  BY <1>1, <1>2
<1> QED BY <1>1, <1>2, <1>3, <1>4

-----------------------------------------------------------------------------
(***************************************************************************)
(* Type correctness.                                                       *)
(***************************************************************************)

\* The frame that advances, and the stack that a call and a return leave.
LEMMA StackType ==
    ASSUME TypeOK, stack # <<>>
    PROVE  /\ Last(stack) \in Frame
           /\ Current \in Repos
           /\ Last(stack).next \in Nat \ {0}
           /\ Len(stack) \in Nat \ {0}
           /\ Advanced \in Seq(Frame)
           /\ Len(Advanced) = Len(stack)
           /\ Front(stack) \in Seq(Frame)
           /\ Len(Front(stack)) = Len(stack) - 1
           /\ \A n \in 1 .. (Len(stack) - 1) : Front(stack)[n] = stack[n]
           /\ \A n \in 1 .. Len(stack) : /\ Advanced[n].repo = stack[n].repo
                                         /\ n # Len(stack) => Advanced[n] = stack[n]
           /\ Advanced[Len(stack)].next = Last(stack).next + 1
<1>1. stack \in Seq(Frame) /\ Len(stack) \in Nat \ {0}
  BY DEF TypeOK
<1>2. stack[Len(stack)] \in Frame /\ Last(stack) = stack[Len(stack)]
  BY <1>1 DEF Last
<1>3. \A f \in Frame : /\ f.next + 1 \in Nat \ {0}
                       /\ [f EXCEPT !.next = @ + 1] \in Frame
                       /\ [f EXCEPT !.next = @ + 1].repo = f.repo
                       /\ [f EXCEPT !.next = @ + 1].next = f.next + 1
  BY DEF Frame
<1>4. Advanced = [stack EXCEPT ![Len(stack)] = [stack[Len(stack)] EXCEPT !.next = @ + 1]]
  BY DEF Advanced
<1>5. /\ Advanced \in Seq(Frame) /\ Len(Advanced) = Len(stack)
      /\ Advanced[Len(stack)] = [stack[Len(stack)] EXCEPT !.next = @ + 1]
      /\ \A n \in 1 .. Len(stack) : n # Len(stack) => Advanced[n] = stack[n]
  BY <1>1, <1>2, <1>3, <1>4
<1>6. /\ Front(stack) \in Seq(Frame)
      /\ Len(Front(stack)) = Len(stack) - 1
      /\ \A n \in 1 .. (Len(stack) - 1) : Front(stack)[n] = stack[n]
  BY <1>1, FrontFacts
<1>7. Current \in Repos /\ Last(stack).next \in Nat \ {0}
  BY <1>2 DEF Current, Frame
<1> QED BY <1>1, <1>2, <1>3, <1>5, <1>6, <1>7

\* A dependency that is looked at names a symbol.
LEMMA DependencyType ==
    ASSUME TypeOK, AtDependency, repo_cache[Current] # NoInfo
    PROVE  /\ Dependency \in Deps
           /\ DepName[Dependency] \in Symbols
<1>1. Current \in Repos /\ Last(stack).next \in Nat \ {0}
  BY StackType DEF AtDependency
<1>2. repo_cache[Current] \in Info
  BY <1>1 DEF TypeOK
<1>3. CurrentDeps \in Seq(Deps)
  BY <1>2 DEF CurrentDeps, Info
<1>4. Dependency \in Deps
  BY <1>1, <1>3 DEF Dependency, AtDependency
<1> QED BY <1>4, ResolveAssumption DEF ResolveAssumption

LEMMA TypeInit == Init => TypeOK
BY DEF Init, TypeOK, Phases, Errors

LEMMA TypeStep == TypeOK /\ [Next]_vars => TypeOK'
<1> SUFFICES ASSUME TypeOK, [Next]_vars PROVE TypeOK'
  OBVIOUS
<1> USE DEF reqVars, dfsVars, buildVars
<1>1. CASE ReadRequest
  <2> DEFINE line == Requests[Len(top_level_repos) + 1]
  <2>1. line \in Symbols
    <3>1. Requests \in Seq(Symbols)
      BY ResolveAssumption DEF ResolveAssumption
    <3>2. Len(top_level_repos) \in Nat
      BY DEF TypeOK
    <3>3. Len(top_level_repos) < Len(Requests)
      BY <1>1 DEF ReadRequest
    <3> QED BY <3>1, <3>2, <3>3
  <2>2. PICK w \in Snapshots :
            \/ /\ w.base[line] # NoRepo
               /\ top_level_repos' = Append(top_level_repos, w.base[line])
               /\ UNCHANGED <<phase, error>>
            \/ /\ w.base[line] = NoRepo
               /\ Raise("unknown request")
               /\ UNCHANGED top_level_repos
    BY <1>1 DEF ReadRequest
  <2>3. w.base[line] \in Repos \cup {NoRepo}
    BY <2>1, ResolveAssumption DEF ResolveAssumption, Snapshot
  <2>4. top_level_repos' \in Seq(Repos) /\ Len(top_level_repos') >= Len(top_level_repos)
    <3>1. top_level_repos \in Seq(Repos)
      BY DEF TypeOK
    <3>2. ASSUME NEW r \in Repos, top_level_repos' = Append(top_level_repos, r)
          PROVE  top_level_repos' \in Seq(Repos) /\ Len(top_level_repos') >= Len(top_level_repos)
      BY <3>1, <3>2
    <3>3. CASE UNCHANGED top_level_repos
      BY <3>1, <3>3
    <3> QED BY <2>2, <2>3, <3>2, <3>3
  <2>5. top <= Len(top_level_repos')
    BY <2>4 DEF TypeOK
  <2>6. phase' \in Phases /\ error' \in Errors
    BY <2>2 DEF Raise, TypeOK, Phases, Errors
  <2> QED BY <1>1, <2>4, <2>5, <2>6 DEF ReadRequest, TypeOK
<1>2. CASE BeginResolve
  BY <1>2 DEF BeginResolve, TypeOK, Phases
<1>3. CASE ResolveTop
  <2> DEFINE r == top_level_repos[top + 1]
  <2>1. r \in Repos /\ top + 1 <= Len(top_level_repos) /\ top + 1 \in Nat
    BY <1>3 DEF ResolveTop, TypeOK
  <2>2. CASE r \in ToSet(resolved)
    BY <1>3, <2>1, <2>2 DEF ResolveTop, TypeOK
  <2>3. CASE r \notin ToSet(resolved)
    <3>1. Load(r) /\ stack' = <<NewFrame(r)>> /\ visiting' = {r}
      BY <1>3, <2>3 DEF ResolveTop
    <3>2. NewFrame(r) \in Frame
      BY <2>1 DEF NewFrame, Frame
    <3>3. stack' \in Seq(Frame)
      BY <3>1, <3>2
    <3>4. /\ repo_cache' \in [Repos -> Info \cup {NoInfo}]
          /\ symbol_to_repo' \in [Symbols -> Repos \cup {NoRepo}]
      BY <2>1, <3>1, LoadType
    <3> QED BY <1>3, <2>1, <2>3, <3>1, <3>3, <3>4 DEF ResolveTop, TypeOK
  <2> QED BY <2>2, <2>3
<1>4. CASE SkipSatisfied
  BY <1>4, StackType DEF SkipSatisfied, AtDependency, TypeOK
<1>5. CASE NeedOfficial
  BY <1>5, StackType DEF NeedOfficial, AtDependency, WantsOfficial, TypeOK
<1>6. CASE NoProvider
  BY <1>6 DEF NoProvider, Raise, TypeOK, Phases, Errors
<1>7. CASE ReuseResolved
  <2>1. provider_cache' \in [Symbols -> Repos \cup {NoRepo}]
    BY <1>7 DEF ReuseResolved, RememberProvider, TypeOK
  <2> QED BY <1>7, <2>1, StackType DEF ReuseResolved, Provided, AtDependency, TypeOK
<1>8. CASE FindCycle
  <2>1. provider_cache' \in [Symbols -> Repos \cup {NoRepo}]
    BY <1>8 DEF FindCycle, RememberProvider, TypeOK
  <2> QED BY <1>8, <2>1 DEF FindCycle, Raise, TypeOK, Phases, Errors
<1>9. CASE Descend
  <2>1. PICK p \in Repos : /\ Provided(p)
                           /\ RememberProvider(p)
                           /\ stack' = Append(Advanced, NewFrame(p))
                           /\ visiting' = visiting \cup {p}
                           /\ Load(p)
    BY <1>9 DEF Descend
  <2>2. provider_cache' \in [Symbols -> Repos \cup {NoRepo}]
    BY <2>1 DEF RememberProvider, TypeOK
  <2>3. Advanced \in Seq(Frame)
    BY <2>1, StackType DEF Provided, AtDependency
  <2>4. stack' \in Seq(Frame)
    BY <2>1, <2>3 DEF NewFrame, Frame
  <2>5. /\ repo_cache' \in [Repos -> Info \cup {NoInfo}]
        /\ symbol_to_repo' \in [Symbols -> Repos \cup {NoRepo}]
    BY <2>1, LoadType
  <2> QED BY <1>9, <2>1, <2>2, <2>4, <2>5 DEF Descend, TypeOK
<1>10. CASE Return
  <2>1. stack' \in Seq(Frame) /\ Current \in Repos
    BY <1>10, StackType DEF Return
  <2>2. resolved' \in Seq(Repos) /\ Len(resolved') = Len(resolved) + 1
    BY <1>10, <2>1 DEF Return, Ordered, TypeOK
  <2>3. built <= Len(resolved') /\ built \in Nat
    BY <2>2 DEF TypeOK
  <2> QED BY <1>10, <2>1, <2>2, <2>3 DEF Return, TypeOK
<1>11. CASE FinishResolve
  BY <1>11 DEF FinishResolve, TypeOK, Phases
<1>12. CASE InstallOfficial
  BY <1>12 DEF InstallOfficial, TypeOK, Phases
<1>13. CASE BuildNext
  <2>1. NextToBuild \in Repos /\ built + 1 \in Nat /\ built + 1 <= Len(resolved)
    BY <1>13 DEF BuildNext, NextToBuild, TypeOK
  <2>2. /\ repo_cache' \in [Repos -> Info \cup {NoInfo}]
        /\ symbol_to_repo' \in [Symbols -> Repos \cup {NoRepo}]
    BY <1>13, <2>1, LoadType DEF BuildNext
  <2> QED BY <1>13, <2>1, <2>2 DEF BuildNext, TypeOK
<1>14. CASE Finish
  BY <1>14 DEF Finish, TypeOK, Phases
<1>15. CASE StageError
  BY <1>15 DEF StageError, Raise, TypeOK, Phases, Errors
<1>16. CASE UNCHANGED vars
  BY <1>16 DEF vars, TypeOK
<1> QED
  BY <1>1, <1>2, <1>3, <1>4, <1>5, <1>6, <1>7, <1>8, <1>9, <1>10, <1>11,
     <1>12, <1>13, <1>14, <1>15, <1>16 DEF Next, Step

\* The state of the stage keeps its type, whatever the AUR answers.
THEOREM TypeCorrect == Spec => []TypeOK
<1>1. Init => TypeOK
  BY TypeInit
<1>2. TypeOK /\ [Next]_vars => TypeOK'
  BY TypeStep
<1> QED BY <1>1, <1>2, PTL DEF Spec

-----------------------------------------------------------------------------
(***************************************************************************)
(* What has been decided stands.                                           *)
(***************************************************************************)

\* Remembering the provider that select_provider() returned changes no name
\* that had one.
LEMMA RememberKeeps ==
    ASSUME TypeOK, NEW p, Provided(p), RememberProvider(p)
    PROVE  /\ \A s \in Symbols :
                  provider_cache[s] # NoRepo => provider_cache'[s] = provider_cache[s]
           /\ DepName[Dependency] \in Symbols => provider_cache'[DepName[Dependency]] = p
<1>1. /\ p \in SelectProvider(DepName[Dependency])
      /\ provider_cache' = [provider_cache EXCEPT ![DepName[Dependency]] = p]
  BY DEF Provided, RememberProvider
<1>2. provider_cache \in [Symbols -> Repos \cup {NoRepo}]
  BY DEF TypeOK
<1>3. ASSUME NEW s \in Symbols, provider_cache[s] # NoRepo
      PROVE  provider_cache'[s] = provider_cache[s]
  <2>1. CASE s = DepName[Dependency]
    <3>1. SelectProvider(s) = {provider_cache[s]}
      BY <1>3, SelectProviderType
    <3> QED BY <1>1, <1>2, <2>1, <3>1
  <2>2. CASE s # DepName[Dependency]
    BY <1>1, <1>2, <2>2
  <2> QED BY <2>1, <2>2
<1> QED BY <1>1, <1>2, <1>3

LEMMA DecisionsStep == TypeOK /\ [Next]_vars => DecisionsKept
<1> SUFFICES ASSUME TypeOK, [Next]_vars PROVE DecisionsKept
  OBVIOUS
<1>1. ASSUME UNCHANGED <<repo_cache, provider_cache>> PROVE DecisionsKept
  BY <1>1 DEF DecisionsKept
<1>2. ASSUME NEW p, Provided(p), RememberProvider(p), UNCHANGED repo_cache
      PROVE  DecisionsKept
  BY <1>2, RememberKeeps DEF DecisionsKept
<1>3. ASSUME NEW r \in Repos, Load(r), UNCHANGED provider_cache
      PROVE  DecisionsKept
  BY <1>3, LoadType DEF DecisionsKept
<1>4. CASE ReadRequest \/ BeginResolve \/ NoProvider \/ FinishResolve
           \/ InstallOfficial \/ Finish \/ StageError
  BY <1>1, <1>4 DEF ReadRequest, BeginResolve, NoProvider, FinishResolve,
                    InstallOfficial, Finish, StageError, dfsVars
<1>5. CASE SkipSatisfied \/ NeedOfficial \/ Return
  BY <1>1, <1>5 DEF SkipSatisfied, NeedOfficial, Return
<1>6. CASE ReuseResolved
  BY <1>2, <1>6 DEF ReuseResolved
<1>7. CASE FindCycle
  BY <1>2, <1>7 DEF FindCycle
<1>8. CASE Descend
  <2>1. PICK p \in Repos : Provided(p) /\ RememberProvider(p) /\ Load(p)
    BY <1>8 DEF Descend
  <2> QED BY <2>1, RememberKeeps, LoadType DEF DecisionsKept
<1>9. CASE ResolveTop
  <2>1. top_level_repos[top + 1] \in Repos
    BY <1>9 DEF ResolveTop, TypeOK
  <2> QED BY <1>1, <1>3, <1>9, <2>1 DEF ResolveTop, dfsVars
<1>10. CASE BuildNext
  <2>1. NextToBuild \in Repos
    BY <1>10 DEF BuildNext, NextToBuild, TypeOK
  <2> QED BY <1>3, <1>10, <2>1 DEF BuildNext
<1>11. CASE UNCHANGED vars
  BY <1>1, <1>11 DEF vars, dfsVars
<1> QED
  BY <1>4, <1>5, <1>6, <1>7, <1>8, <1>9, <1>10, <1>11 DEF Next, Step

\* A name keeps its provider and a repository its .SRCINFO, however the AUR
\* changes while the stage runs.
THEOREM DecisionsStandAlways == Spec => DecisionsStand
<1>1. Init => TypeOK
  BY TypeInit
<1>2. TypeOK /\ [Next]_vars => TypeOK'
  BY TypeStep
<1>3. TypeOK /\ [Next]_vars => DecisionsKept
  BY DecisionsStep
<1>4. TypeOK /\ [Next]_vars => [DecisionsKept]_vars
  BY <1>3
<1> QED BY <1>1, <1>2, <1>4, PTL DEF Spec, DecisionsStand

-----------------------------------------------------------------------------
(***************************************************************************)
(* Part 2.  The search: SearchInv of AurResolve is inductive.              *)
(***************************************************************************)
IInv == TypeOK /\ SearchInv

-----------------------------------------------------------------------------
(***************************************************************************)
(* What the caches say of a repository that is loaded does not change.     *)
(***************************************************************************)

\* The repositories in the order and those of the open calls are loaded.
LEMMA Loaded ==
    ASSUME IInv
    PROVE  /\ \A r \in ToSet(resolved) \cup visiting :
                  r \in Repos /\ repo_cache[r] \in Info
           /\ \A n \in DOMAIN stack : stack[n] \in Frame /\ stack[n].repo \in visiting
           /\ stack # <<>> => Current \in visiting
<1>1. TypeOK /\ SearchInv
  BY DEF IInv
<1>2. \A r \in ToSet(resolved) : r \in Repos
  BY <1>1 DEF TypeOK, ToSet
<1>3. \A r \in visiting : r \in Repos
  BY <1>1 DEF TypeOK
<1>4. \A r \in ToSet(resolved) \cup visiting : repo_cache[r] # NoInfo
  BY <1>1 DEF SearchInv
<1>5. \A r \in ToSet(resolved) \cup visiting : repo_cache[r] \in Info
  BY <1>1, <1>2, <1>3, <1>4 DEF TypeOK
<1>6. \A n \in DOMAIN stack : stack[n] \in Frame /\ stack[n].repo \in visiting
  <2>1. \A n \in DOMAIN stack : stack[n] \in Frame
    BY <1>1 DEF TypeOK
  <2>2. visiting = {f.repo : f \in ToSet(stack)}
    BY <1>1 DEF SearchInv, StackIsPath
  <2> QED BY <2>1, <2>2 DEF ToSet
<1>7. ASSUME stack # <<>> PROVE Current \in visiting
  <2>1. Len(stack) \in DOMAIN stack /\ Last(stack) = stack[Len(stack)]
    BY <1>1, <1>7 DEF TypeOK, Last
  <2> QED BY <1>6, <2>1 DEF Current
<1> QED BY <1>2, <1>3, <1>5, <1>6, <1>7

\* The dependencies of a loaded repository stay, and so do the edges to
\* providers that are known.
LEMMA LoadedStays ==
    ASSUME TypeOK, DecisionsKept, NEW r \in Repos, repo_cache[r] \in Info
    PROVE  /\ repo_cache'[r] = repo_cache[r]
           /\ AurDeps(r)' = AurDeps(r)
           /\ \A d \in AurDeps(r) : DepName[d] \in Symbols
           /\ \A d \in AurDeps(r) : provider_cache[DepName[d]] # NoRepo =>
                  provider_cache'[DepName[d]] = provider_cache[DepName[d]]
           /\ \A p \in Repos : p \in Edges(r) => p \in Edges(r)'
           /\ Edges(r) \subseteq Repos => Edges(r)' = Edges(r)
<1>1. repo_cache[r] # NoInfo /\ NoRepo \notin Repos
  BY ResolveAssumption DEF ResolveAssumption
<1>2. repo_cache'[r] = repo_cache[r]
  BY <1>1 DEF DecisionsKept
<1>3. AurDeps(r)' = AurDeps(r)
  BY <1>2 DEF AurDeps
<1>4. \A d \in AurDeps(r) : DepName[d] \in Symbols
  <2>1. \A d \in ToSet(repo_cache[r].deps) : d \in Deps
    BY DEF Info, ToSet
  <2> QED BY <2>1, ResolveAssumption DEF AurDeps, ResolveAssumption
<1>5. \A d \in AurDeps(r) : provider_cache[DepName[d]] # NoRepo =>
          provider_cache'[DepName[d]] = provider_cache[DepName[d]]
  BY <1>4 DEF DecisionsKept
<1>6. ASSUME NEW p \in Repos, p \in Edges(r) PROVE p \in Edges(r)'
  <2>1. PICK d \in AurDeps(r) : p = provider_cache[DepName[d]]
    BY <1>6 DEF Edges
  <2>2. provider_cache'[DepName[d]] = p
    BY <1>1, <1>5, <2>1
  <2> QED BY <1>3, <2>2 DEF Edges
<1>7. ASSUME Edges(r) \subseteq Repos PROVE Edges(r)' = Edges(r)
  <2>1. \A d \in AurDeps(r) : provider_cache'[DepName[d]] = provider_cache[DepName[d]]
    BY <1>1, <1>5, <1>7 DEF Edges
  <2> QED BY <1>3, <2>1 DEF Edges
<1> QED BY <1>2, <1>3, <1>4, <1>5, <1>6, <1>7

\* The providers of a repository in the order are known.
LEMMA OrderEdges ==
    ASSUME IInv, NEW r \in ToSet(resolved)
    PROVE  Edges(r) \subseteq ToSet(resolved) /\ Edges(r) \subseteq Repos
<1>1. PICK i \in DOMAIN resolved : resolved[i] = r
  BY DEF ToSet
<1>2. resolved \in Seq(Repos) /\ DepsFirst
  BY DEF IInv, TypeOK, SearchInv
<1>3. \A p \in Edges(r) : \E j \in DOMAIN resolved : resolved[j] = p
  BY <1>1, <1>2 DEF DepsFirst
<1>4. \A j \in DOMAIN resolved : resolved[j] \in Repos
  BY <1>2
<1> QED BY <1>3, <1>4 DEF ToSet

\* A dependency the loop has dealt with has a known provider.
LEMMA ExploredKnown ==
    ASSUME IInv, NEW n \in DOMAIN stack, NEW i \in 1 .. (stack[n].next - 1),
           NEW d, d = repo_cache[stack[n].repo].deps[i], d \in AurDeps(stack[n].repo)
    PROVE  provider_cache[DepName[d]] \in Repos
<1>1. Explored(n)
  BY DEF IInv, SearchInv
<1>2. \/ provider_cache[DepName[d]] \in ToSet(resolved)
      \/ n < Len(stack) /\ provider_cache[DepName[d]] = stack[n + 1].repo
  BY <1>1 DEF Explored
<1>3. n < Len(stack) => n + 1 \in DOMAIN stack
  BY DEF IInv, TypeOK
<1>4. n < Len(stack) => stack[n + 1].repo \in Repos
  BY <1>3, Loaded
<1> QED BY <1>2, <1>4, Loaded

\* DepsFirst survives a step that leaves the order alone.
LEMMA DepsFirstStays ==
    ASSUME IInv, DecisionsKept, UNCHANGED resolved PROVE DepsFirst'
<1>1. TypeOK /\ DepsFirst
  BY DEF IInv, SearchInv
<1>2. ASSUME NEW i \in DOMAIN resolved
      PROVE  Edges(resolved[i])' = Edges(resolved[i])
  <2>1. resolved[i] \in ToSet(resolved)
    BY DEF ToSet
  <2> QED BY <1>1, <2>1, OrderEdges, Loaded, LoadedStays
<1> QED BY <1>1, <1>2 DEF DepsFirst

\* So does what a call has dealt with.
LEMMA ExploredStays ==
    ASSUME IInv, DecisionsKept, UNCHANGED resolved,
           NEW n \in DOMAIN stack, Len(stack') >= Len(stack),
           stack'[n] = stack[n],
           n < Len(stack) => stack'[n + 1].repo = stack[n + 1].repo
    PROVE  Explored(n)'
<1>1. TypeOK /\ Explored(n) /\ stack[n].repo \in Repos /\ repo_cache[stack[n].repo] \in Info
  BY Loaded DEF IInv, SearchInv
<1>2. repo_cache'[stack[n].repo] = repo_cache[stack[n].repo]
      /\ AurDeps(stack[n].repo)' = AurDeps(stack[n].repo)
  BY <1>1, LoadedStays
<1> SUFFICES ASSUME NEW i \in 1 .. (stack[n].next - 1),
                    NEW d, d = repo_cache[stack[n].repo].deps[i],
                    d \in AurDeps(stack[n].repo)
             PROVE  \/ provider_cache'[DepName[d]] \in ToSet(resolved)
                    \/ /\ n < Len(stack')
                       /\ i = stack[n].next - 1
                       /\ provider_cache'[DepName[d]] = stack'[n + 1].repo
  BY <1>2 DEF Explored, AurDeps
<1>3. provider_cache'[DepName[d]] = provider_cache[DepName[d]]
  BY <1>1, LoadedStays, ExploredKnown, ResolveAssumption DEF ResolveAssumption
<1>4. \/ provider_cache[DepName[d]] \in ToSet(resolved)
      \/ /\ n < Len(stack)
         /\ i = stack[n].next - 1
         /\ provider_cache[DepName[d]] = stack[n + 1].repo
  BY <1>1 DEF Explored
<1>5. n < Len(stack) => n < Len(stack')
  BY <1>1 DEF TypeOK
<1> QED BY <1>3, <1>4, <1>5

\* The innermost call goes on to its next dependency when the one it looks at
\* has been dealt with.
LEMMA TopAdvances ==
    ASSUME IInv, DecisionsKept, UNCHANGED resolved, AtDependency,
           NEW m, m = Len(stack),
           stack'[m].repo = Current,
           stack'[m].next = Last(stack).next + 1,
           Dependency \in AurDeps(Current) =>
               \/ provider_cache'[DepName[Dependency]] \in ToSet(resolved)
               \/ /\ m < Len(stack')
                  /\ provider_cache'[DepName[Dependency]] = stack'[m + 1].repo
    PROVE  Explored(m)'
<1>1. /\ TypeOK /\ m \in DOMAIN stack /\ m \in Nat /\ Last(stack) = stack[m]
      /\ Current = stack[m].repo /\ stack[m].next \in Nat \ {0}
  BY StackType DEF IInv, TypeOK, AtDependency, Last, Current
<1>2. PICK c \in Repos : c = Current
  BY <1>1, StackType DEF AtDependency
<1>3. /\ repo_cache[c] \in Info
      /\ repo_cache'[c] = repo_cache[c]
      /\ AurDeps(c)' = AurDeps(c)
      /\ \A d \in AurDeps(c) : provider_cache[DepName[d]] # NoRepo =>
             provider_cache'[DepName[d]] = provider_cache[DepName[d]]
  <2>1. repo_cache[c] \in Info
    BY <1>2, Loaded DEF AtDependency
  <2> QED BY <1>1, <2>1, LoadedStays
<1> SUFFICES ASSUME NEW i \in 1 .. Last(stack).next,
                    NEW d, d = repo_cache[c].deps[i], d \in AurDeps(c)
             PROVE  \/ provider_cache'[DepName[d]] \in ToSet(resolved)
                    \/ /\ m < Len(stack')
                       /\ i = Last(stack).next
                       /\ provider_cache'[DepName[d]] = stack'[m + 1].repo
  <2>1. stack'[m].next - 1 = Last(stack).next
    BY <1>1
  <2> QED BY <1>2, <1>3, <2>1 DEF Explored
<1>4. CASE i = Last(stack).next
  <2>1. d = Dependency
    BY <1>2, <1>4 DEF Dependency, CurrentDeps
  <2> QED BY <1>2, <1>4, <2>1
<1>5. CASE i # Last(stack).next
  <2>1. i \in 1 .. (stack[m].next - 1)
    BY <1>1, <1>5
  <2>2. provider_cache[DepName[d]] \in Repos
    BY <1>1, <1>2, <2>1, ExploredKnown
  <2>3. provider_cache'[DepName[d]] = provider_cache[DepName[d]]
    BY <1>3, <2>2, ResolveAssumption DEF ResolveAssumption
  <2>4. Explored(m)
    BY <1>1 DEF IInv, SearchInv
  <2>5. \/ provider_cache[DepName[d]] \in ToSet(resolved)
        \/ m < Len(stack)
    BY <1>1, <1>2, <2>1, <2>4 DEF Explored
  <2>6. ~(m < Len(stack))
    BY <1>1
  <2> QED BY <2>3, <2>5, <2>6
<1> QED BY <1>4, <1>5

-----------------------------------------------------------------------------
(***************************************************************************)
(* The path of open calls.                                                 *)
(***************************************************************************)

\* What StackIsPath says, call by call.
LEMMA PathFacts ==
    ASSUME IInv
    PROVE  /\ \A r : r \in visiting <=> \E n \in 1 .. Len(stack) : stack[n].repo = r
           /\ \A m, n \in 1 .. Len(stack) : stack[m].repo = stack[n].repo => m = n
           /\ \A n \in 1 .. Len(stack) : n > 1 => stack[n].repo \in Edges(stack[n - 1].repo)
           /\ DOMAIN stack = 1 .. Len(stack)
           /\ Len(stack) \in Nat
<1>1. StackIsPath /\ DOMAIN stack = 1 .. Len(stack) /\ Len(stack) \in Nat
  BY DEF IInv, SearchInv, TypeOK
<1>2. \A r : r \in visiting <=> \E n \in 1 .. Len(stack) : stack[n].repo = r
  BY <1>1 DEF StackIsPath, ToSet
<1> QED BY <1>1, <1>2 DEF StackIsPath

\* The converse, for the next state.
LEMMA PathIntro ==
    ASSUME stack' \in Seq(Frame),
           \A r : r \in visiting' <=> \E n \in 1 .. Len(stack') : stack'[n].repo = r,
           \A m, n \in 1 .. Len(stack') : stack'[m].repo = stack'[n].repo => m = n,
           \A n \in 1 .. Len(stack') : n > 1 => \E p, q :
               p = stack'[n].repo /\ q = stack'[n - 1].repo /\ p \in Edges(q)'
    PROVE  StackIsPath'
<1>1. DOMAIN stack' = 1 .. Len(stack')
  OBVIOUS
<1>2. visiting' = {f.repo : f \in ToSet(stack')}
  BY <1>1 DEF ToSet
<1>3. \A n \in 1 .. Len(stack') : n > 1 => stack'[n].repo \in Edges(stack[n - 1].repo)'
  OBVIOUS
<1> QED BY <1>1, <1>2, <1>3 DEF StackIsPath

\* An edge of the path is still one after the step.
LEMMA PathEdgeStays ==
    ASSUME IInv, DecisionsKept, NEW n \in 1 .. Len(stack), n > 1
    PROVE  \E p, q : p = stack[n].repo /\ q = stack[n - 1].repo /\ p \in Edges(q)'
<1>1. n - 1 \in 1 .. Len(stack) /\ DOMAIN stack = 1 .. Len(stack)
  BY PathFacts
<1>2. PICK p, q : p = stack[n].repo /\ q = stack[n - 1].repo
  OBVIOUS
<1>3. p \in Edges(q) /\ p \in Repos /\ q \in Repos /\ repo_cache[q] \in Info
  BY <1>1, <1>2, PathFacts, Loaded
<1>4. p \in Edges(q)'
  BY <1>3, LoadedStays DEF IInv
<1> QED BY <1>2, <1>4

\* The path survives when the innermost call advances.
LEMMA PathAdvances ==
    ASSUME IInv, DecisionsKept, stack # <<>>, stack' = Advanced, visiting' = visiting
    PROVE  StackIsPath'
<1>1. /\ stack' \in Seq(Frame) /\ Len(stack') = Len(stack)
      /\ \A n \in 1 .. Len(stack) : stack'[n].repo = stack[n].repo
  BY StackType DEF IInv
<1>2. \A n \in 1 .. Len(stack') : n > 1 => \E p, q :
          p = stack'[n].repo /\ q = stack'[n - 1].repo /\ p \in Edges(q)'
  <2> SUFFICES ASSUME NEW n \in 1 .. Len(stack), n > 1
               PROVE  \E p, q : p = stack'[n].repo /\ q = stack'[n - 1].repo /\ p \in Edges(q)'
    BY <1>1
  <2>1. n - 1 \in 1 .. Len(stack)
    BY PathFacts
  <2>2. stack'[n].repo = stack[n].repo /\ stack'[n - 1].repo = stack[n - 1].repo
    BY <1>1, <2>1
  <2> QED BY <2>2, PathEdgeStays
<1> QED BY <1>1, <1>2, PathFacts, PathIntro

-----------------------------------------------------------------------------
(***************************************************************************)
(* SearchInv is inductive: one lemma per kind of step.                     *)
(***************************************************************************)

\* The stage stops with a cycle, or another error, in phase "failed" only.
LEMMA NoErrorYet == ASSUME IInv, phase # "failed" PROVE error = "none"
BY DEF IInv, SearchInv

\* Loaded repositories are still loaded after a step, which may add one.
LEMMA CachedStays ==
    ASSUME IInv, DecisionsKept,
           \A r \in ToSet(resolved)' \cup visiting' :
               \/ r \in ToSet(resolved) \cup visiting
               \/ repo_cache'[r] # NoInfo
    PROVE  \A r \in ToSet(resolved)' \cup visiting' : repo_cache'[r] # NoInfo
<1>1. \A r \in ToSet(resolved) \cup visiting : r \in Repos /\ repo_cache[r] # NoInfo
  BY Loaded DEF IInv, SearchInv
<1>2. \A r \in ToSet(resolved) \cup visiting : repo_cache'[r] = repo_cache[r]
  BY <1>1 DEF DecisionsKept
<1> QED BY <1>1, <1>2

\* Steps outside the search, errors other than a cycle included.
LEMMA QuietStep ==
    ASSUME IInv, UNCHANGED dfsVars, error' # "cycle" \/ error' = error,
           error' # "none" => phase' = "failed"
    PROVE  SearchInv'
<1> USE DEF IInv, SearchInv, dfsVars
<1>1. DepsFirst' /\ ResolvedOnce' /\ StackIsPath'
  BY DEF DepsFirst, ResolvedOnce, StackIsPath, Edges, AurDeps
<1>2. CycleIsReal'
  BY DEF CycleIsReal, Dependency, CurrentDeps, Current
<1>3. \A n \in DOMAIN stack' : Explored(n)'
  BY DEF Explored, AurDeps
<1> QED BY <1>1, <1>2, <1>3

\* The innermost call is done with a dependency.
LEMMA AdvanceStep ==
    ASSUME IInv, DecisionsKept, AtDependency, stack' = Advanced,
           UNCHANGED <<phase, error, visiting, resolved, repo_cache>>,
           Dependency \in AurDeps(Current) =>
               provider_cache'[DepName[Dependency]] \in ToSet(resolved)
    PROVE  SearchInv'
<1>1. /\ stack' \in Seq(Frame) /\ Len(stack') = Len(stack) /\ Len(stack) \in Nat \ {0}
      /\ \A n \in 1 .. Len(stack) : /\ stack'[n].repo = stack[n].repo
                                    /\ n # Len(stack) => stack'[n] = stack[n]
      /\ stack'[Len(stack)].next = Last(stack).next + 1
      /\ stack'[Len(stack)].repo = Current
      /\ DOMAIN stack' = 1 .. Len(stack)
      /\ DOMAIN stack = 1 .. Len(stack)
  BY StackType DEF AtDependency, IInv, Last, Current
<1>2. DepsFirst'
  BY DepsFirstStays
<1>3. ResolvedOnce'
  BY DEF IInv, SearchInv, ResolvedOnce
<1>4. StackIsPath'
  BY PathAdvances DEF AtDependency
<1>5. error' = "none"
  BY NoErrorYet DEF AtDependency
<1>6. \A r \in ToSet(resolved)' \cup visiting' : repo_cache'[r] # NoInfo
  BY DEF IInv, SearchInv
<1>7. ASSUME NEW n \in 1 .. Len(stack) PROVE Explored(n)'
  <2>1. CASE n = Len(stack)
    BY <1>1, <2>1, TopAdvances
  <2>2. CASE n # Len(stack)
    <3>1. Len(stack') = Len(stack) /\ Len(stack) \in Nat
      BY <1>1
    <3>2. n + 1 \in 1 .. Len(stack) /\ Len(stack') >= Len(stack)
      BY <2>2, <3>1
    <3> QED BY <1>1, <2>2, <3>2, ExploredStays
  <2> QED BY <2>1, <2>2
<1>8. \A n \in DOMAIN stack' : Explored(n)'
  BY <1>1, <1>7
<1> QED BY <1>2, <1>3, <1>4, <1>5, <1>6, <1>8 DEF SearchInv, CycleIsReal

\* The search stops at a cycle.
LEMMA CycleStep == ASSUME IInv, DecisionsKept, FindCycle PROVE SearchInv'
<1>1. PICK p \in Repos : Provided(p) /\ IsOpen(p) /\ RememberProvider(p)
  BY DEF FindCycle
<1>2. UNCHANGED <<stack, visiting, resolved, repo_cache>> /\ phase' = "failed"
  BY DEF FindCycle, Raise
<1>3. DepsFirst'
  BY <1>2, DepsFirstStays
<1>4. ResolvedOnce'
  BY <1>2 DEF IInv, SearchInv, ResolvedOnce
<1>5. StackIsPath'
  <2>1. stack' \in Seq(Frame) /\ Len(stack') = Len(stack)
    BY <1>2 DEF IInv, TypeOK
  <2> QED BY <1>2, <2>1, PathFacts, PathEdgeStays, PathIntro
<1>6. CycleIsReal'
  <2>1. TypeOK /\ AtDependency /\ repo_cache[Current] # NoInfo
    BY <1>1, Loaded DEF IInv, SearchInv, Provided, AtDependency
  <2>2. DepName[Dependency] \in Symbols
    BY <2>1, DependencyType
  <2>3. provider_cache'[DepName[Dependency]] = p
    BY <1>1, <2>1, <2>2, RememberKeeps
  <2>4. Dependency' = Dependency
    BY <1>2 DEF Dependency, CurrentDeps, Current
  <2>5. PICK n \in 1 .. Len(stack) : stack[n].repo = p
    BY <1>1, PathFacts DEF IsOpen
  <2> QED BY <1>2, <2>3, <2>4, <2>5, PathFacts DEF CycleIsReal
<1>7. \A r \in ToSet(resolved)' \cup visiting' : repo_cache'[r] # NoInfo
  BY <1>2 DEF IInv, SearchInv
<1>8. \A n \in DOMAIN stack' : Explored(n)'
  <2>1. Len(stack') >= Len(stack)
    BY <1>2, PathFacts
  <2> QED BY <1>2, <2>1, ExploredStays
<1> QED BY <1>2, <1>3, <1>4, <1>5, <1>6, <1>7, <1>8 DEF SearchInv

\* A call for a repository that is neither in the order nor open.
LEMMA DescendStep == ASSUME IInv, DecisionsKept, Descend PROVE SearchInv'
<1> DEFINE m == Len(stack)
<1>1. PICK p \in Repos : /\ Provided(p)
                         /\ IsNew(p)
                         /\ RememberProvider(p)
                         /\ stack' = Append(Advanced, NewFrame(p))
                         /\ visiting' = visiting \cup {p}
                         /\ Load(p)
  BY DEF Descend
<1>2. UNCHANGED <<phase, error, resolved>>
  BY DEF Descend, reqVars
<1>3. AtDependency /\ WantsAur(Dependency)
  BY <1>1 DEF Provided
<1>4. /\ Advanced \in Seq(Frame) /\ Len(Advanced) = m /\ m \in Nat \ {0}
      /\ \A n \in 1 .. m : /\ Advanced[n].repo = stack[n].repo
                           /\ n # m => Advanced[n] = stack[n]
      /\ Advanced[m].next = Last(stack).next + 1
      /\ Current = stack[m].repo
      /\ Last(stack).next \in Nat \ {0}
  BY <1>3, StackType DEF AtDependency, IInv, Last, Current
<1>5. NewFrame(p) \in Frame /\ NewFrame(p).repo = p /\ NewFrame(p).next = 1
  BY DEF NewFrame, Frame
<1>6. /\ stack' \in Seq(Frame) /\ Len(stack') = m + 1
      /\ stack'[m + 1] = NewFrame(p)
      /\ \A n \in 1 .. m : stack'[n] = Advanced[n]
      /\ DOMAIN stack' = 1 .. (m + 1)
  BY <1>1, <1>4, <1>5
<1>7. PICK c \in Repos : c = Current /\ c \in visiting /\ repo_cache[c] \in Info
  BY <1>3, Loaded DEF AtDependency
<1>8. Dependency \in AurDeps(c) /\ DepName[Dependency] \in Symbols
  <2>1. repo_cache[Current] # NoInfo /\ TypeOK
    BY <1>7 DEF IInv, SearchInv
  <2>2. Dependency \in ToSet(repo_cache[c].deps)
    BY <1>3, <1>4, <1>7 DEF Dependency, CurrentDeps, AtDependency, ToSet, Info
  <2> QED BY <1>3, <2>1, <2>2, DependencyType DEF AurDeps, WantsAur
<1>9. provider_cache'[DepName[Dependency]] = p
  BY <1>1, <1>8, RememberKeeps DEF IInv
<1>10. DepsFirst'
  BY <1>2, DepsFirstStays
<1>11. ResolvedOnce'
  BY <1>1, <1>2 DEF IInv, SearchInv, ResolvedOnce, IsNew
<1>12. error' = "none"
  BY <1>2, <1>3, NoErrorYet DEF AtDependency
<1>13. \A r \in ToSet(resolved)' \cup visiting' : repo_cache'[r] # NoInfo
  BY <1>1, <1>2, LoadType, CachedStays DEF IInv
<1>14. StackIsPath'
  <2>1. p \in Edges(c)'
    <3>1. AurDeps(c)' = AurDeps(c)
      BY <1>7, LoadedStays DEF IInv
    <3>2. PICK d \in AurDeps(c) : d = Dependency
      BY <1>8
    <3>3. provider_cache'[DepName[d]] = p
      BY <1>9, <3>2
    <3> QED BY <3>1, <3>2, <3>3 DEF Edges
  <2>2. \A r : r \in visiting' <=> \E n \in 1 .. (m + 1) : stack'[n].repo = r
    <3>0. \A n \in 1 .. m : stack'[n].repo = stack[n].repo
      BY <1>4, <1>6
    <3>1. \A r : r \in visiting <=> \E n \in 1 .. m : stack'[n].repo = r
      BY <3>0, PathFacts
    <3>2. \A n \in 1 .. (m + 1) : n \in 1 .. m \/ n = m + 1
      BY <1>4
    <3>3. m + 1 \in 1 .. (m + 1) /\ \A n \in 1 .. m : n \in 1 .. (m + 1)
      BY <1>4
    <3> QED BY <1>1, <1>5, <1>6, <3>1, <3>2, <3>3
  <2>3. \A i, j \in 1 .. (m + 1) : stack'[i].repo = stack'[j].repo => i = j
    <3>1. \A i, j \in 1 .. m : stack'[i].repo = stack'[j].repo => i = j
      BY <1>4, <1>6, PathFacts
    <3>2. \A i \in 1 .. m : stack'[i].repo # p
      BY <1>1, <1>4, <1>6, PathFacts DEF IsNew
    <3>3. \A n \in 1 .. (m + 1) : n \in 1 .. m \/ n = m + 1
      BY <1>4
    <3> QED BY <1>5, <1>6, <3>1, <3>2, <3>3
  <2>4. \A n \in 1 .. (m + 1) : n > 1 => \E r, q :
            r = stack'[n].repo /\ q = stack'[n - 1].repo /\ r \in Edges(q)'
    <3> SUFFICES ASSUME NEW n \in 1 .. (m + 1), n > 1
                 PROVE  \E r, q : r = stack'[n].repo /\ q = stack'[n - 1].repo /\ r \in Edges(q)'
      OBVIOUS
    <3>1. CASE n = m + 1
      BY <1>4, <1>5, <1>6, <1>7, <2>1, <3>1
    <3>2. CASE n # m + 1
      <4>1. n \in 1 .. m /\ n - 1 \in 1 .. m
        BY <1>4, <3>2
      <4>2. stack'[n].repo = stack[n].repo /\ stack'[n - 1].repo = stack[n - 1].repo
        BY <1>4, <1>6, <4>1
      <4> QED BY <4>1, <4>2, PathEdgeStays
    <3> QED BY <3>1, <3>2
  <2> QED BY <1>6, <2>2, <2>3, <2>4, PathIntro
<1>15. ASSUME NEW n \in 1 .. (m + 1) PROVE Explored(n)'
  <2>1. CASE n = m + 1
    <3>1. stack'[n].next = 1
      BY <1>5, <1>6, <2>1
    <3>2. 1 .. (stack'[n].next - 1) = {}
      BY <3>1
    <3> QED BY <3>2 DEF Explored
  <2>2. CASE n = m
    <3>1. /\ stack'[n].repo = Current /\ stack'[n].next = Last(stack).next + 1
          /\ n < Len(stack') /\ provider_cache'[DepName[Dependency]] = stack'[n + 1].repo
      BY <1>4, <1>5, <1>6, <1>9, <2>2
    <3> QED BY <1>2, <1>3, <2>2, <3>1, TopAdvances
  <2>3. CASE n \in 1 .. m /\ n # m
    <3>1. n + 1 \in 1 .. m /\ Len(stack') >= Len(stack) /\ n \in DOMAIN stack
      BY <1>4, <1>6, <2>3, PathFacts
    <3>2. stack'[n] = stack[n] /\ stack'[n + 1].repo = stack[n + 1].repo
      BY <1>4, <1>6, <2>3, <3>1
    <3> QED BY <1>2, <3>1, <3>2, ExploredStays
  <2> QED BY <1>4, <2>1, <2>2, <2>3
<1> QED BY <1>6, <1>10, <1>11, <1>12, <1>13, <1>14, <1>15 DEF SearchInv, CycleIsReal

\* When the innermost call returns, its dependencies are in the order.
LEMMA ReturnEdges == ASSUME IInv, Return PROVE Edges(Current) \subseteq ToSet(resolved)
<1> DEFINE m == Len(stack)
<1>1. PICK c \in Repos : c = Current /\ repo_cache[c] \in Info
  BY Loaded DEF Return
<1>2. stack # <<>> /\ Last(stack).next > Len(repo_cache[c].deps)
  BY <1>1 DEF Return, CurrentDeps
<1>3. /\ m \in Nat \ {0} /\ c = stack[m].repo /\ Last(stack) = stack[m]
      /\ DOMAIN stack = 1 .. m
      /\ stack[m].next \in Nat \ {0}
  BY <1>1, <1>2, StackType DEF IInv, TypeOK, Last, Current
<1> SUFFICES ASSUME NEW d \in AurDeps(c)
             PROVE  provider_cache[DepName[d]] \in ToSet(resolved)
  BY <1>1 DEF Edges
<1>4. PICK i \in 1 .. Len(repo_cache[c].deps) : repo_cache[c].deps[i] = d
  BY <1>1 DEF AurDeps, ToSet, Info
<1>5. i \in 1 .. (stack[m].next - 1) /\ ~(m < Len(stack))
  <2>1. Len(repo_cache[c].deps) \in Nat
    BY <1>1 DEF Info
  <2>2. stack[m].next > Len(repo_cache[c].deps) /\ stack[m].next \in Nat /\ m \in Nat
    BY <1>2, <1>3
  <2> QED BY <2>1, <2>2
<1>6. Explored(m)
  BY <1>3 DEF IInv, SearchInv
<1> QED BY <1>3, <1>4, <1>5, <1>6 DEF Explored

\* The return keeps SearchInv: the order grows by the repository it is for.
LEMMA ReturnStep == ASSUME IInv, DecisionsKept, Return PROVE SearchInv'
<1> DEFINE m == Len(stack)
           k == Len(resolved)
<1>1. PICK c \in Repos : c = Current /\ c \in visiting /\ repo_cache[c] \in Info
  BY Loaded DEF Return
<1>2. /\ resolved' = Append(resolved, c)
      /\ visiting' = visiting \ {c}
      /\ stack' = Front(stack)
      /\ UNCHANGED <<phase, error, repo_cache, provider_cache>>
      /\ phase = "resolve" /\ stack # <<>>
      /\ Last(stack).next > Len(repo_cache[c].deps)
  BY <1>1 DEF Return, Ordered, reqVars, CurrentDeps
<1>3. /\ m \in Nat \ {0} /\ c = stack[m].repo /\ Last(stack) = stack[m]
      /\ stack' \in Seq(Frame) /\ Len(stack') = m - 1
      /\ \A n \in 1 .. (m - 1) : stack'[n] = stack[n]
      /\ DOMAIN stack' = 1 .. (m - 1) /\ DOMAIN stack = 1 .. m
      /\ stack[m].next \in Nat \ {0}
  BY <1>1, <1>2, StackType DEF IInv, TypeOK, Last, Current
<1>4. /\ resolved \in Seq(Repos) /\ k \in Nat
      /\ DOMAIN resolved = 1 .. k
      /\ DOMAIN resolved' = 1 .. (k + 1)
      /\ \A i \in 1 .. k : resolved'[i] = resolved[i]
      /\ resolved'[k + 1] = c
  BY <1>2 DEF IInv, TypeOK
<1>5. ToSet(resolved') = ToSet(resolved) \cup {c}
  BY <1>2, <1>4, ToSetAppend
<1>6. \A r : /\ AurDeps(r)' = AurDeps(r)
             /\ Edges(r)' = Edges(r)
  BY <1>2 DEF AurDeps, Edges
<1>7. Edges(c) \subseteq ToSet(resolved)
  BY <1>1, ReturnEdges
<1>8. DepsFirst'
  <2> SUFFICES ASSUME NEW i \in 1 .. (k + 1), NEW p \in Edges(resolved'[i])
               PROVE  \E j \in 1 .. (i - 1) : resolved'[j] = p
    BY <1>4, <1>6 DEF DepsFirst
  <2>1. CASE i = k + 1
    <3>1. PICK j \in 1 .. k : resolved[j] = p
      BY <1>4, <1>7, <2>1 DEF ToSet
    <3>2. j \in 1 .. (i - 1) /\ resolved'[j] = p
      BY <1>4, <2>1, <3>1
    <3> QED BY <3>2
  <2>2. CASE i \in 1 .. k
    <3>1. DepsFirst /\ i \in DOMAIN resolved /\ p \in Edges(resolved[i])
      BY <1>4, <2>2 DEF IInv, SearchInv
    <3>2. PICK j \in 1 .. (i - 1) : resolved[j] = p
      BY <3>1 DEF DepsFirst
    <3>3. j \in 1 .. k
      BY <1>4, <2>2
    <3> QED BY <1>4, <3>2, <3>3
  <2> QED BY <1>4, <2>1, <2>2
<1>9. ResolvedOnce'
  <2>1. ResolvedOnce
    BY DEF IInv, SearchInv
  <2>2. c \notin ToSet(resolved)
    BY <1>1, <2>1 DEF ResolvedOnce
  <2>3. \A i \in 1 .. k : resolved[i] # c
    BY <1>4, <2>2 DEF ToSet
  <2>4. \A i, j \in 1 .. k : resolved[i] = resolved[j] => i = j
    BY <1>4, <2>1 DEF ResolvedOnce, IsInjective
  <2>5. \A i \in 1 .. (k + 1) : i \in 1 .. k \/ i = k + 1
    BY <1>4
  <2>6. \A i, j \in 1 .. (k + 1) : resolved'[i] = resolved'[j] => i = j
    BY <1>4, <2>3, <2>4, <2>5
  <2>7. ToSet(resolved') \cap visiting' = {}
    BY <1>2, <1>5, <2>1 DEF ResolvedOnce
  <2> QED BY <1>4, <2>6, <2>7 DEF ResolvedOnce, IsInjective
<1>10. StackIsPath'
  <2>1. \A n \in 1 .. (m - 1) : n \in 1 .. m /\ n # m /\ stack'[n].repo = stack[n].repo
    BY <1>3
  <2>2. \A r : r \in visiting' <=> \E n \in 1 .. (m - 1) : stack'[n].repo = r
    <3>1. ASSUME NEW r \in visiting' PROVE \E n \in 1 .. (m - 1) : stack'[n].repo = r
      <4>1. PICK n \in 1 .. m : stack[n].repo = r
        BY <1>2, <3>1, PathFacts
      <4>2. n # m
        BY <1>2, <1>3, <3>1, <4>1
      <4>3. n \in 1 .. (m - 1)
        BY <1>3, <4>2
      <4> QED BY <2>1, <4>1, <4>3
    <3>2. ASSUME NEW n \in 1 .. (m - 1) PROVE stack'[n].repo \in visiting'
      <4>1. stack[n].repo \in visiting /\ m \in 1 .. m
        BY <1>3, <2>1, PathFacts
      <4>2. stack[n].repo # c
        BY <1>3, <2>1, <4>1, PathFacts
      <4> QED BY <1>2, <2>1, <4>1, <4>2
    <3> QED BY <3>1, <3>2
  <2>3. \A i, j \in 1 .. (m - 1) : stack'[i].repo = stack'[j].repo => i = j
    BY <2>1, PathFacts
  <2>4. ASSUME NEW n \in 1 .. (m - 1), n > 1
        PROVE  \E p, q : p = stack'[n].repo /\ q = stack'[n - 1].repo /\ p \in Edges(q)'
    <3>1. n - 1 \in 1 .. (m - 1)
      BY <1>3, <2>4
    <3> QED BY <2>1, <2>4, <3>1, PathEdgeStays
  <2> QED BY <1>3, <2>2, <2>3, <2>4, PathIntro
<1>11. error' = "none"
  BY <1>2, NoErrorYet
<1>12. \A r \in ToSet(resolved)' \cup visiting' : repo_cache'[r] # NoInfo
  BY <1>1, <1>2, <1>5 DEF IInv, SearchInv
<1>13. ASSUME NEW n \in 1 .. (m - 1) PROVE Explored(n)'
  <2>1. PICK r : r = stack[n].repo
    OBVIOUS
  <2>2. stack'[n] = stack[n] /\ Explored(n)
    BY <1>3 DEF IInv, SearchInv
  <2> SUFFICES ASSUME NEW i \in 1 .. (stack[n].next - 1),
                      NEW d, d = repo_cache[r].deps[i], d \in AurDeps(r)
               PROVE  \/ provider_cache[DepName[d]] \in ToSet(resolved')
                      \/ /\ n < Len(stack')
                         /\ i = stack[n].next - 1
                         /\ provider_cache[DepName[d]] = stack'[n + 1].repo
    BY <1>2, <1>6, <2>1, <2>2 DEF Explored
  <2>3. CASE provider_cache[DepName[d]] \in ToSet(resolved)
    BY <1>5, <2>3
  <2>4. CASE /\ n < Len(stack)
             /\ i = stack[n].next - 1
             /\ provider_cache[DepName[d]] = stack[n + 1].repo
    <3>1. CASE n = m - 1
      <4>1. n + 1 = m
        BY <1>3, <3>1
      <4>2. stack[n + 1].repo = c
        BY <1>3, <4>1
      <4> QED BY <1>5, <2>4, <4>2
    <3>2. CASE n # m - 1
      <4>1. n + 1 \in 1 .. (m - 1) /\ n < m - 1
        BY <1>3, <3>2
      <4> QED BY <1>3, <2>4, <4>1
    <3> QED BY <3>1, <3>2
  <2> QED BY <2>1, <2>2, <2>3, <2>4 DEF Explored
<1> QED BY <1>3, <1>8, <1>9, <1>10, <1>11, <1>12, <1>13 DEF SearchInv, CycleIsReal

\* main() begins with the next requested repository.
LEMMA TopStep == ASSUME IInv, DecisionsKept, ResolveTop PROVE SearchInv'
<1>1. PICK r \in Repos : r = top_level_repos[top + 1]
  BY DEF ResolveTop, IInv, TypeOK
<1>2. /\ phase = "resolve" /\ stack = <<>> /\ visiting = {}
      /\ UNCHANGED <<phase, error>>
  <2>1. phase = "resolve" /\ stack = <<>> /\ UNCHANGED <<phase, error>>
    BY DEF ResolveTop
  <2>2. ~ \E n \in 1 .. Len(stack) : TRUE
    BY <2>1
  <2> QED BY <2>1, <2>2, PathFacts
<1>3. CASE UNCHANGED dfsVars
  BY <1>2, <1>3, NoErrorYet, QuietStep
<1>4. CASE /\ r \notin ToSet(resolved)
           /\ stack' = <<NewFrame(r)>>
           /\ visiting' = {r}
           /\ Load(r)
           /\ UNCHANGED resolved
  <2>1. /\ stack' \in Seq(Frame) /\ Len(stack') = 1
        /\ stack'[1].repo = r /\ stack'[1].next = 1
    BY <1>4 DEF NewFrame, Frame
  <2>2. DepsFirst'
    BY <1>4, DepsFirstStays
  <2>3. ResolvedOnce'
    BY <1>4 DEF IInv, SearchInv, ResolvedOnce
  <2>4. StackIsPath'
    <3>1. \A n \in 1 .. Len(stack') : n = 1
      BY <2>1
    <3>2. 1 \in 1 .. Len(stack')
      BY <2>1
    <3>3. \A n \in 1 .. Len(stack') : ~(n > 1)
      BY <3>1
    <3> QED BY <1>4, <2>1, <3>1, <3>2, <3>3, PathIntro
  <2>5. error' = "none"
    BY <1>2, NoErrorYet
  <2>6. \A q \in ToSet(resolved)' \cup visiting' : repo_cache'[q] # NoInfo
    BY <1>4, LoadType, CachedStays DEF IInv
  <2>7. ASSUME NEW n \in DOMAIN stack' PROVE Explored(n)'
    <3>1. stack'[n].next = 1
      BY <2>1
    <3>2. 1 .. (stack'[n].next - 1) = {}
      BY <3>1
    <3> QED BY <3>2 DEF Explored
  <2> QED BY <2>2, <2>3, <2>4, <2>5, <2>6, <2>7 DEF SearchInv, CycleIsReal
<1> QED BY <1>1, <1>3, <1>4 DEF ResolveTop

\* The build loop finds every repository of the order in the cache.
LEMMA BuildStep == ASSUME IInv, DecisionsKept, BuildNext PROVE SearchInv'
<1>1. /\ UNCHANGED <<phase, error, stack, visiting, resolved, provider_cache>>
      /\ phase = "build"
  BY DEF BuildNext, reqVars
<1>2. DepsFirst'
  BY <1>1, DepsFirstStays
<1>3. ResolvedOnce'
  BY <1>1 DEF IInv, SearchInv, ResolvedOnce
<1>4. StackIsPath'
  <2>1. stack' \in Seq(Frame) /\ Len(stack') = Len(stack)
    BY <1>1 DEF IInv, TypeOK
  <2> QED BY <1>1, <2>1, PathFacts, PathEdgeStays, PathIntro
<1>5. error' = "none"
  BY <1>1, NoErrorYet
<1>6. \A r \in ToSet(resolved)' \cup visiting' : repo_cache'[r] # NoInfo
  BY <1>1, CachedStays
<1>7. \A n \in DOMAIN stack' : Explored(n)'
  <2>1. Len(stack') >= Len(stack)
    BY <1>1, PathFacts
  <2> QED BY <1>1, <2>1, ExploredStays
<1> QED BY <1>2, <1>3, <1>4, <1>5, <1>6, <1>7 DEF SearchInv, CycleIsReal

LEMMA SearchInit == Init => SearchInv
<1> SUFFICES ASSUME Init PROVE SearchInv
  OBVIOUS
<1>1. stack = <<>> /\ resolved = <<>> /\ visiting = {} /\ error = "none"
  BY DEF Init
<1>2. DOMAIN stack = {} /\ DOMAIN resolved = {}
  BY <1>1
<1>3. ToSet(stack) = {} /\ ToSet(resolved) = {}
  BY <1>2 DEF ToSet
<1> QED BY <1>1, <1>2, <1>3
       DEF SearchInv, DepsFirst, ResolvedOnce, IsInjective, StackIsPath, CycleIsReal

LEMMA SearchStep == IInv /\ [Next]_vars => SearchInv'
<1> SUFFICES ASSUME IInv, [Next]_vars PROVE SearchInv'
  OBVIOUS
<1>1. TypeOK /\ DecisionsKept
  BY DecisionsStep DEF IInv
<1>2. CASE ReadRequest \/ BeginResolve \/ FinishResolve \/ InstallOfficial
           \/ Finish \/ NoProvider \/ StageError
  <2>1. phase # "failed" /\ UNCHANGED dfsVars
    BY <1>2 DEF ReadRequest, BeginResolve, FinishResolve, InstallOfficial,
                Finish, NoProvider, StageError, Provided, AtDependency
  <2>2. error = "none"
    BY <2>1, NoErrorYet
  <2>3. \/ error' = error
        \/ error' # "cycle" /\ phase' = "failed"
    BY <1>2 DEF ReadRequest, BeginResolve, FinishResolve, InstallOfficial,
                Finish, NoProvider, StageError, Raise
  <2> QED BY <2>1, <2>2, <2>3, QuietStep
<1>3. CASE SkipSatisfied
  <2>1. Dependency \notin AurDeps(Current)
    BY <1>3 DEF SkipSatisfied, AurDeps
  <2> QED BY <1>1, <1>3, <2>1, AdvanceStep DEF SkipSatisfied, reqVars
<1>4. CASE NeedOfficial
  <2>1. Dependency \notin AurDeps(Current)
    BY <1>4 DEF NeedOfficial, WantsOfficial, AurDeps
  <2> QED BY <1>1, <1>4, <2>1, AdvanceStep DEF NeedOfficial, reqVars
<1>5. CASE ReuseResolved
  <2>1. PICK p \in Repos : Provided(p) /\ p \in ToSet(resolved) /\ RememberProvider(p)
    BY <1>5 DEF ReuseResolved
  <2>2. AtDependency /\ repo_cache[Current] # NoInfo
    BY <2>1, Loaded DEF Provided, AtDependency, IInv, SearchInv
  <2>3. provider_cache'[DepName[Dependency]] = p
    BY <1>1, <2>1, <2>2, DependencyType, RememberKeeps
  <2> QED BY <1>1, <1>5, <2>1, <2>2, <2>3, AdvanceStep DEF ReuseResolved, reqVars
<1>6. CASE FindCycle
  BY <1>1, <1>6, CycleStep
<1>7. CASE Descend
  BY <1>1, <1>7, DescendStep
<1>8. CASE Return
  BY <1>1, <1>8, ReturnStep
<1>9. CASE ResolveTop
  BY <1>1, <1>9, TopStep
<1>10. CASE BuildNext
  BY <1>1, <1>10, BuildStep
<1>11. CASE UNCHANGED vars
  BY <1>11, QuietStep DEF vars, reqVars, IInv, SearchInv
<1> QED BY <1>2, <1>3, <1>4, <1>5, <1>6, <1>7, <1>8, <1>9, <1>10, <1>11 DEF Next, Step

-----------------------------------------------------------------------------
(***************************************************************************)
(* The theorems.                                                           *)
(***************************************************************************)

\* SearchInv holds throughout, for every dependency graph.
THEOREM SearchCorrect == Spec => []SearchInv
<1>1. Init => IInv
  BY TypeInit, SearchInit DEF IInv
<1>2. IInv /\ [Next]_vars => IInv'
  BY TypeStep, SearchStep DEF IInv
<1>3. IInv => SearchInv
  BY DEF IInv
<1> QED BY <1>1, <1>2, <1>3, PTL DEF Spec

\* The order in which the stage builds has every repository after all the
\* providers chosen for it (resolve_repo(), lines 289-309).
THEOREM OrderIsBuildOrder == Spec => []DepsFirst
<1>1. SearchInv => DepsFirst
  BY DEF SearchInv
<1> QED BY <1>1, SearchCorrect, PTL

\* No repository is in the order twice, or in the order and open.
THEOREM NoneTwice == Spec => []ResolvedOnce
<1>1. SearchInv => ResolvedOnce
  BY DEF SearchInv
<1> QED BY <1>1, SearchCorrect, PTL

\* The Python stack is a path of distinct repositories of the graph, so the
\* recursion is never deeper than there are repositories.
THEOREM RecursionIsPath == Spec => []StackIsPath
<1>1. SearchInv => StackIsPath
  BY DEF SearchInv
<1> QED BY <1>1, SearchCorrect, PTL

\* A cycle that is reported (line 293) is one.
THEOREM CyclesAreReal == Spec => []CycleIsReal
<1>1. SearchInv => CycleIsReal
  BY DEF SearchInv
<1> QED BY <1>1, SearchCorrect, PTL

-----------------------------------------------------------------------------
(***************************************************************************)
(* Part 3.  The stage: SearchInv with what main() has done by then.        *)
(***************************************************************************)
\* How far main() has got, and what it has done by then.
Progress ==
    /\ phase = "read" => resolved = <<>> /\ stack = <<>> /\ top = 0
    /\ phase \in {"read", "resolve", "official"} => built = 0
    /\ installed = {resolved[i] : i \in 1 .. built}
    /\ phase = "resolve" =>
           \A i \in 1 .. top : top_level_repos[i] \in ToSet(resolved) \cup visiting
    /\ phase \in {"official", "build", "done"} =>
           ToSet(top_level_repos) \subseteq ToSet(resolved)
    /\ phase = "done" => built = Len(resolved)
    /\ phase \in {"build", "done"} => official_installed = official_needed

\* Every official package that has been met is on the list: those of the
\* repositories in the order, and those the open calls have gone past.
OfficialKnown ==
    /\ \A r \in ToSet(resolved) : \A d \in ToSet(repo_cache[r].deps) :
           WantsOfficial(d) => DepName[d] \in official_needed
    /\ \A n \in DOMAIN stack : \A i \in 1 .. (stack[n].next - 1) :
           WantsOfficial(repo_cache[stack[n].repo].deps[i]) =>
               DepName[repo_cache[stack[n].repo].deps[i]] \in official_needed

StageInv == IInv /\ Progress /\ OfficialKnown

-----------------------------------------------------------------------------
(***************************************************************************)
(* Progress is inductive.                                                  *)
(***************************************************************************)
LEMMA ProgressInit == Init => Progress
<1> SUFFICES ASSUME Init PROVE Progress
  OBVIOUS
<1>1. /\ phase = "read" /\ resolved = <<>> /\ stack = <<>> /\ top = 0
      /\ built = 0 /\ installed = {}
  BY DEF Init
<1>2. 1 .. built = {}
  BY <1>1
<1> QED BY <1>1, <1>2 DEF Progress

\* Steps that change neither the order nor what is installed.
LEMMA ProgressQuiet ==
    ASSUME IInv, Progress,
           UNCHANGED <<resolved, stack, top, top_level_repos, visiting, buildVars>>,
           \/ phase' = "failed"
           \/ phase' = phase /\ phase = "resolve"
    PROVE  Progress'
BY DEF Progress, buildVars

\* While the search runs, visiting grows and nothing is built.
LEMMA ProgressSearch ==
    ASSUME Progress, phase = "resolve",
           UNCHANGED <<phase, top, top_level_repos, built, installed>>,
           ToSet(resolved) \cup visiting \subseteq (ToSet(resolved))' \cup visiting'
    PROVE  Progress'
<1>1. built = 0
  BY DEF Progress
<1>2. 1 .. built = {} /\ 1 .. built' = {}
  BY <1>1
<1>3. installed = {} /\ installed' = {}
  BY <1>2 DEF Progress
<1> QED BY <1>1, <1>2, <1>3 DEF Progress

LEMMA ProgressTop == ASSUME IInv, Progress, ResolveTop PROVE Progress'
<1>1. /\ phase = "resolve" /\ stack = <<>> /\ top' = top + 1 /\ top \in Nat
      /\ UNCHANGED <<phase, resolved, top_level_repos, built, installed>>
  BY DEF ResolveTop, reqVars, dfsVars, buildVars, IInv, TypeOK
<1>2. visiting = {}
  <2>1. ~ \E n \in 1 .. Len(stack) : TRUE
    BY <1>1
  <2> QED BY <2>1, PathFacts
<1>3. ASSUME NEW i \in 1 .. top'
      PROVE  top_level_repos[i] \in ToSet(resolved) \cup visiting'
  <2>1. CASE i = top + 1
    BY <2>1 DEF ResolveTop, dfsVars
  <2>2. CASE i # top + 1
    <3>1. i \in 1 .. top
      BY <1>1, <2>2
    <3> QED BY <1>1, <1>2, <3>1 DEF Progress
  <2> QED BY <2>1, <2>2
<1> QED BY <1>1, <1>3 DEF Progress

LEMMA ProgressReturn == ASSUME IInv, Progress, Return PROVE Progress'
<1>1. PICK c \in Repos : c = Current
  BY StackType DEF Return, IInv
<1>2. /\ resolved' = Append(resolved, c) /\ visiting' = visiting \ {c}
      /\ phase = "resolve"
      /\ UNCHANGED <<phase, top, top_level_repos, built, installed>>
  BY <1>1 DEF Return, Ordered, reqVars, buildVars
<1>3. ToSet(resolved') = ToSet(resolved) \cup {c}
  BY <1>1, <1>2, ToSetAppend DEF IInv, TypeOK
<1> QED BY <1>2, <1>3, ProgressSearch

LEMMA ProgressBuild == ASSUME IInv, Progress, BuildNext PROVE Progress'
<1>1. /\ phase = "build" /\ built < Len(resolved) /\ built' = built + 1
      /\ installed' = installed \cup {resolved[built + 1]}
      /\ UNCHANGED <<phase, resolved, top_level_repos, official_needed,
                     official_installed>>
      /\ built \in Nat
  BY DEF BuildNext, NextToBuild, reqVars, IInv, TypeOK
<1>2. installed = {resolved[i] : i \in 1 .. built}
  BY DEF Progress
<1>3. 1 .. built' = (1 .. built) \cup {built + 1}
  BY <1>1
<1>4. installed' = {resolved[i] : i \in 1 .. built'}
  BY <1>1, <1>2, <1>3
<1> QED BY <1>1, <1>4 DEF Progress

LEMMA ProgressStep == ASSUME IInv, Progress, [Next]_vars PROVE Progress'
<1>1. CASE ReadRequest
  <2>1. /\ phase = "read"
        /\ UNCHANGED <<top, dfsVars, buildVars>>
        /\ phase' \in {"read", "failed"}
    BY <1>1 DEF ReadRequest, Raise
  <2> QED BY <2>1 DEF Progress, dfsVars, buildVars
<1>2. CASE BeginResolve
  <2>1. 1 .. top' = {}
    BY <1>2 DEF BeginResolve, Progress
  <2> QED BY <1>2, <2>1 DEF BeginResolve, Progress, dfsVars, buildVars
<1>3. CASE ResolveTop
  BY <1>3, ProgressTop
<1>4. CASE SkipSatisfied
  BY <1>4, ProgressSearch DEF SkipSatisfied, AtDependency, reqVars, buildVars
<1>5. CASE NeedOfficial
  BY <1>5, ProgressSearch DEF NeedOfficial, AtDependency, reqVars, buildVars
<1>6. CASE NoProvider
  BY <1>6, ProgressQuiet DEF NoProvider, Raise, dfsVars
<1>7. CASE ReuseResolved
  <2>1. AtDependency
    BY <1>7 DEF ReuseResolved, Provided
  <2> QED BY <1>7, <2>1, ProgressSearch DEF ReuseResolved, AtDependency, reqVars, buildVars
<1>8. CASE FindCycle
  BY <1>8, ProgressQuiet DEF FindCycle, Raise
<1>9. CASE Descend
  <2>1. AtDependency /\ visiting \subseteq visiting'
    BY <1>9 DEF Descend, Provided
  <2> QED BY <1>9, <2>1, ProgressSearch DEF Descend, AtDependency, reqVars, buildVars
<1>10. CASE Return
  BY <1>10, ProgressReturn
<1>11. CASE FinishResolve
  <2>1. /\ phase = "resolve" /\ stack = <<>> /\ top = Len(top_level_repos)
        /\ phase' = "official"
        /\ UNCHANGED <<top_level_repos, top, dfsVars, buildVars>>
    BY <1>11 DEF FinishResolve, AllBegun
  <2>2. visiting = {}
    <3>1. ~ \E n \in 1 .. Len(stack) : TRUE
      BY <2>1
    <3> QED BY <3>1, PathFacts
  <2>3. DOMAIN top_level_repos = 1 .. top
    BY <2>1 DEF IInv, TypeOK
  <2>4. ToSet(top_level_repos) \subseteq ToSet(resolved)
    BY <2>1, <2>2, <2>3 DEF Progress, ToSet
  <2> QED BY <2>1, <2>4 DEF Progress, dfsVars, buildVars
<1>12. CASE InstallOfficial
  BY <1>12 DEF InstallOfficial, Progress, dfsVars
<1>13. CASE BuildNext
  BY <1>13, ProgressBuild
<1>14. CASE Finish
  BY <1>14 DEF Finish, Progress, dfsVars, buildVars
<1>15. CASE StageError
  BY <1>15, ProgressQuiet DEF StageError, Raise, dfsVars
<1>16. CASE UNCHANGED vars
  BY <1>16 DEF Progress, vars, reqVars, dfsVars, buildVars
<1> QED BY <1>1, <1>2, <1>3, <1>4, <1>5, <1>6, <1>7, <1>8, <1>9, <1>10, <1>11,
           <1>12, <1>13, <1>14, <1>15, <1>16 DEF Next, Step

-----------------------------------------------------------------------------
(***************************************************************************)
(* OfficialKnown is inductive.                                             *)
(***************************************************************************)

\* The list of official packages only grows, so what was known still is.
LEMMA OfficialStays ==
    ASSUME IInv, OfficialKnown, DecisionsKept, official_needed \subseteq official_needed'
    PROVE  /\ \A r \in ToSet(resolved) : \A d \in ToSet(repo_cache'[r].deps) :
                  WantsOfficial(d) => DepName[d] \in official_needed'
           /\ \A n \in 1 .. Len(stack) :
                  /\ repo_cache'[stack[n].repo] = repo_cache[stack[n].repo]
                  /\ \A i \in 1 .. (stack[n].next - 1) :
                         LET d == repo_cache'[stack[n].repo].deps[i]
                         IN  WantsOfficial(d) => DepName[d] \in official_needed'
<1>1. \A r \in ToSet(resolved) \cup visiting : repo_cache'[r] = repo_cache[r]
  BY Loaded DEF DecisionsKept, IInv, SearchInv
<1>2. \A n \in 1 .. Len(stack) : n \in DOMAIN stack /\ stack[n].repo \in visiting
  BY PathFacts
<1>3. \A n \in 1 .. Len(stack) : repo_cache'[stack[n].repo] = repo_cache[stack[n].repo]
  BY <1>1, <1>2
<1> QED BY <1>1, <1>2, <1>3 DEF OfficialKnown

\* Steps that leave the search alone.
LEMMA OfficialQuiet ==
    ASSUME IInv, OfficialKnown, DecisionsKept,
           UNCHANGED <<stack, resolved, official_needed>>
    PROVE  OfficialKnown'
<1>1. DOMAIN stack = 1 .. Len(stack)
  BY PathFacts
<1> QED BY <1>1, OfficialStays DEF OfficialKnown

\* The innermost call is done with a dependency.
LEMMA OfficialAdvance ==
    ASSUME IInv, OfficialKnown, DecisionsKept, AtDependency,
           stack' = Advanced, UNCHANGED <<resolved, repo_cache>>,
           official_needed \subseteq official_needed',
           WantsOfficial(Dependency) => DepName[Dependency] \in official_needed'
    PROVE  OfficialKnown'
<1> DEFINE m == Len(stack)
<1>1. /\ m \in Nat \ {0} /\ Last(stack) = stack[m] /\ Current = stack[m].repo
      /\ DOMAIN stack' = 1 .. m
      /\ \A n \in 1 .. m : /\ stack'[n].repo = stack[n].repo
                           /\ n # m => stack'[n] = stack[n]
      /\ stack'[m].next = stack[m].next + 1
      /\ stack[m].next \in Nat \ {0}
  BY StackType DEF AtDependency, IInv, Last, Current
<1>2. ASSUME NEW n \in 1 .. m, NEW i \in 1 .. (stack'[n].next - 1),
             NEW d, d = repo_cache[stack[n].repo].deps[i], WantsOfficial(d)
      PROVE  DepName[d] \in official_needed'
  <2>1. CASE n = m /\ i = stack[m].next
    <3>1. d = Dependency
      BY <1>1, <1>2, <2>1 DEF Dependency, CurrentDeps
    <3> QED BY <1>2, <3>1
  <2>2. CASE ~(n = m /\ i = stack[m].next)
    <3>1. i \in 1 .. (stack[n].next - 1)
      <4>1. CASE n = m
        <5>1. i \in 1 .. stack[m].next
          BY <1>1, <1>2, <4>1
        <5> QED BY <1>1, <2>2, <4>1, <5>1
      <4>2. CASE n # m
        BY <1>1, <1>2, <4>2
      <4> QED BY <4>1, <4>2
    <3> QED BY <1>2, <3>1, OfficialStays
  <2> QED BY <2>1, <2>2
<1>3. \A n \in DOMAIN stack' : \A i \in 1 .. (stack'[n].next - 1) :
          WantsOfficial(repo_cache'[stack'[n].repo].deps[i]) =>
              DepName[repo_cache'[stack'[n].repo].deps[i]] \in official_needed'
  BY <1>1, <1>2
<1> QED BY <1>3, OfficialStays DEF OfficialKnown

LEMMA OfficialDescend ==
    ASSUME IInv, OfficialKnown, DecisionsKept, Descend PROVE OfficialKnown'
<1> DEFINE m == Len(stack)
<1>1. PICK p \in Repos : Provided(p) /\ stack' = Append(Advanced, NewFrame(p))
  BY DEF Descend
<1>2. /\ AtDependency /\ ~WantsOfficial(Dependency)
      /\ UNCHANGED <<resolved, official_needed>>
  BY <1>1 DEF Descend, Provided, WantsAur, WantsOfficial
<1>3. /\ Advanced \in Seq(Frame) /\ Len(Advanced) = m /\ m \in Nat \ {0}
      /\ \A n \in 1 .. m : /\ Advanced[n].repo = stack[n].repo
                           /\ n # m => Advanced[n] = stack[n]
      /\ Advanced[m].next = stack[m].next + 1
      /\ stack[m].next \in Nat \ {0}
      /\ Last(stack) = stack[m] /\ Current = stack[m].repo
  BY <1>2, StackType DEF AtDependency, IInv, Last, Current
<1>4. NewFrame(p) \in Frame /\ NewFrame(p).next = 1
  BY DEF NewFrame, Frame
<1>5. /\ DOMAIN stack' = 1 .. (m + 1)
      /\ \A n \in 1 .. m : stack'[n] = Advanced[n]
      /\ stack'[m + 1] = NewFrame(p)
  BY <1>1, <1>3, <1>4
<1>6. repo_cache'[stack[m].repo] = repo_cache[stack[m].repo]
  BY <1>2, <1>3, OfficialStays
<1>7. ASSUME NEW n \in 1 .. (m + 1), NEW i \in 1 .. (stack'[n].next - 1),
             NEW d, d = repo_cache'[stack'[n].repo].deps[i], WantsOfficial(d)
      PROVE  DepName[d] \in official_needed
  <2>1. n # m + 1
    <3>1. 1 .. (NewFrame(p).next - 1) = {}
      BY <1>4
    <3> QED BY <1>5, <1>7, <3>1
  <2>2. n \in 1 .. m /\ stack'[n] = Advanced[n] /\ stack'[n].repo = stack[n].repo
    BY <1>3, <1>5, <2>1
  <2>3. CASE n = m /\ i = stack[m].next
    <3>1. d = Dependency
      BY <1>3, <1>6, <1>7, <2>2, <2>3 DEF Dependency, CurrentDeps
    <3> QED BY <1>2, <1>7, <3>1
  <2>4. CASE ~(n = m /\ i = stack[m].next)
    <3>1. i \in 1 .. (stack[n].next - 1)
      <4>1. CASE n = m
        <5>1. i \in 1 .. stack[m].next
          BY <1>3, <1>7, <2>2, <4>1
        <5> QED BY <1>3, <2>4, <4>1, <5>1
      <4>2. CASE n # m
        BY <1>3, <1>7, <2>2, <4>2
      <4> QED BY <4>1, <4>2
    <3> QED BY <1>2, <1>7, <2>2, <3>1, OfficialStays
  <2> QED BY <2>3, <2>4
<1>8. \A n \in DOMAIN stack' : \A i \in 1 .. (stack'[n].next - 1) :
          WantsOfficial(repo_cache'[stack'[n].repo].deps[i]) =>
              DepName[repo_cache'[stack'[n].repo].deps[i]] \in official_needed'
  BY <1>2, <1>5, <1>7
<1> QED BY <1>2, <1>8, OfficialStays DEF OfficialKnown

LEMMA OfficialReturn ==
    ASSUME IInv, OfficialKnown, DecisionsKept, Return PROVE OfficialKnown'
<1> DEFINE m == Len(stack)
<1>1. PICK c \in Repos : c = Current /\ repo_cache[c] \in Info
  BY Loaded DEF Return
<1>2. /\ stack # <<>> /\ stack' = Front(stack) /\ resolved' = Append(resolved, c)
      /\ UNCHANGED <<repo_cache, official_needed>>
      /\ Last(stack).next > Len(repo_cache[c].deps)
  BY <1>1 DEF Return, Ordered, CurrentDeps
<1>3. /\ m \in Nat \ {0} /\ Last(stack) = stack[m] /\ c = stack[m].repo
      /\ DOMAIN stack' = 1 .. (m - 1)
      /\ \A n \in 1 .. (m - 1) : n \in 1 .. m /\ stack'[n] = stack[n]
      /\ stack[m].next \in Nat \ {0}
  <2>1. m \in Nat \ {0} /\ Last(stack) \in Frame /\ Last(stack).next \in Nat \ {0}
    BY <1>2, StackType DEF IInv
  <2>2. Last(stack) = stack[m]
    BY DEF Last
  <2>3. /\ stack' \in Seq(Frame) /\ Len(stack') = m - 1
        /\ \A n \in 1 .. (m - 1) : stack'[n] = stack[n]
    BY <1>2, StackType DEF IInv
  <2>4. c = stack[m].repo
    BY <1>1, <2>2 DEF Current
  <2>5. DOMAIN stack' = 1 .. (m - 1) /\ \A n \in 1 .. (m - 1) : n \in 1 .. m
    BY <2>1, <2>3
  <2> QED BY <2>1, <2>2, <2>3, <2>4, <2>5
<1>4. ToSet(resolved') = ToSet(resolved) \cup {c}
  BY <1>1, <1>2, ToSetAppend DEF IInv, TypeOK
<1>5. ASSUME NEW d \in ToSet(repo_cache[c].deps), WantsOfficial(d)
      PROVE  DepName[d] \in official_needed
  <2>1. PICK i \in 1 .. Len(repo_cache[c].deps) : d = repo_cache[c].deps[i]
    BY <1>1 DEF ToSet, Info
  <2>2. Len(repo_cache[c].deps) \in Nat
    BY <1>1 DEF Info
  <2>3. i \in 1 .. (stack[m].next - 1) /\ m \in 1 .. m
    BY <1>2, <1>3, <2>2
  <2> QED BY <1>2, <1>3, <1>5, <2>1, <2>3, OfficialStays
<1>6. \A n \in DOMAIN stack' : \A i \in 1 .. (stack'[n].next - 1) :
          WantsOfficial(repo_cache'[stack'[n].repo].deps[i]) =>
              DepName[repo_cache'[stack'[n].repo].deps[i]] \in official_needed'
  <2> SUFFICES ASSUME NEW n \in 1 .. (m - 1), NEW i \in 1 .. (stack[n].next - 1),
                      WantsOfficial(repo_cache[stack[n].repo].deps[i])
               PROVE  DepName[repo_cache[stack[n].repo].deps[i]] \in official_needed
    BY <1>2, <1>3
  <2>1. n \in 1 .. m
    BY <1>3
  <2> QED BY <1>2, <2>1, OfficialStays
<1>7. \A r \in ToSet(resolved') : \A d \in ToSet(repo_cache'[r].deps) :
          WantsOfficial(d) => DepName[d] \in official_needed'
  BY <1>2, <1>4, <1>5, OfficialStays
<1> QED BY <1>6, <1>7 DEF OfficialKnown

LEMMA OfficialTop ==
    ASSUME IInv, OfficialKnown, DecisionsKept, ResolveTop PROVE OfficialKnown'
<1>1. CASE UNCHANGED dfsVars
  BY <1>1, OfficialQuiet DEF dfsVars
<1>2. CASE /\ stack' = <<NewFrame(top_level_repos[top + 1])>>
           /\ UNCHANGED <<resolved, official_needed>>
  <2>1. DOMAIN stack' = {1} /\ stack'[1].next = 1
    BY <1>2 DEF NewFrame
  <2>2. 1 .. (stack'[1].next - 1) = {}
    BY <2>1
  <2> QED BY <1>2, <2>1, <2>2, OfficialStays DEF OfficialKnown
<1> QED BY <1>1, <1>2 DEF ResolveTop

LEMMA OfficialInit == Init => OfficialKnown
<1> SUFFICES ASSUME Init PROVE OfficialKnown
  OBVIOUS
<1>1. DOMAIN stack = {} /\ ToSet(resolved) = {}
  BY DEF Init, ToSet
<1> QED BY <1>1 DEF OfficialKnown

LEMMA OfficialStep == ASSUME IInv, OfficialKnown, [Next]_vars PROVE OfficialKnown'
<1>1. TypeOK /\ DecisionsKept
  BY DecisionsStep DEF IInv
<1>2. CASE ReadRequest \/ BeginResolve \/ FinishResolve \/ InstallOfficial
           \/ Finish \/ NoProvider \/ StageError
  BY <1>1, <1>2, OfficialQuiet
     DEF ReadRequest, BeginResolve, FinishResolve, InstallOfficial, Finish,
         NoProvider, StageError, dfsVars
<1>3. CASE FindCycle \/ BuildNext
  BY <1>1, <1>3, OfficialQuiet DEF FindCycle, BuildNext
<1>4. CASE SkipSatisfied
  BY <1>1, <1>4, OfficialAdvance DEF SkipSatisfied, WantsOfficial
<1>5. CASE NeedOfficial
  BY <1>1, <1>5, OfficialAdvance DEF NeedOfficial
<1>6. CASE ReuseResolved
  <2>1. AtDependency /\ ~WantsOfficial(Dependency)
    BY <1>6 DEF ReuseResolved, Provided, WantsAur, WantsOfficial
  <2> QED BY <1>1, <1>6, <2>1, OfficialAdvance DEF ReuseResolved
<1>7. CASE Descend
  BY <1>1, <1>7, OfficialDescend
<1>8. CASE Return
  BY <1>1, <1>8, OfficialReturn
<1>9. CASE ResolveTop
  BY <1>1, <1>9, OfficialTop
<1>10. CASE UNCHANGED vars
  BY <1>1, <1>10, OfficialQuiet DEF vars, dfsVars
<1> QED BY <1>2, <1>3, <1>4, <1>5, <1>6, <1>7, <1>8, <1>9, <1>10 DEF Next, Step

\* The three parts together.
LEMMA StageInvariant == Spec => []StageInv
<1>1. Init => StageInv
  BY TypeInit, SearchInit, ProgressInit, OfficialInit DEF StageInv, IInv
<1>2. StageInv /\ [Next]_vars => StageInv'
  BY TypeStep, SearchStep, ProgressStep, OfficialStep DEF StageInv, IInv
<1> QED BY <1>1, <1>2, PTL DEF Spec

\* When makepkg is started for a repository, each of its dependencies is met
\* (the build loop of main(), lines 428-440, trusts the order for this).
THEOREM BuildsAreReady == Spec => []BuildReady
<1>1. ASSUME StageInv PROVE BuildReady
  <2> SUFFICES ASSUME phase = "build", built < Len(resolved),
                      NEW r, r = resolved[built + 1],
                      NEW d \in ToSet(repo_cache[r].deps),
                      d \notin Satisfied
               PROVE  \/ DepName[d] \in official_installed
                      \/ provider_cache[DepName[d]] \in installed
    BY DEF BuildReady
  <2>1. built \in Nat /\ built + 1 \in DOMAIN resolved
    BY <1>1 DEF StageInv, IInv, TypeOK
  <2>2. CASE WantsOfficial(d)
    <3>1. r \in ToSet(resolved)
      BY <2>1 DEF ToSet
    <3> QED BY <1>1, <2>2, <3>1 DEF StageInv, OfficialKnown, Progress
  <2>3. CASE ~WantsOfficial(d)
    <3>1. provider_cache[DepName[d]] \in Edges(r)
      BY <2>3 DEF WantsOfficial, Edges, AurDeps
    <3>2. PICK j \in 1 .. ((built + 1) - 1) : resolved[j] = provider_cache[DepName[d]]
      BY <1>1, <2>1, <3>1 DEF StageInv, IInv, SearchInv, DepsFirst
    <3>3. j \in 1 .. built
      BY <2>1
    <3> QED BY <1>1, <3>2, <3>3 DEF StageInv, Progress
  <2> QED BY <2>2, <2>3
<1> QED BY <1>1, StageInvariant, PTL

-----------------------------------------------------------------------------
(***************************************************************************)
(* The stage implements BuildOrder: every step of the stage is a step of   *)
(* Order or leaves its variables alone.                                    *)
(***************************************************************************)

\* The abstract module's ToSet is the one used here.
LEMMA SameToSet == \A q : Order!ToSet(q) = ToSet(q)
BY DEF Order!ToSet, ToSet

\* What was chosen for the repositories in the order stays.
LEMMA ChosenStays ==
    ASSUME IInv, DecisionsKept, UNCHANGED resolved PROVE Chosen' = Chosen
<1>1. ASSUME NEW r \in ToSet(resolved) PROVE Edges(r)' = Edges(r)
  BY OrderEdges, Loaded, LoadedStays DEF IInv
<1> QED BY <1>1 DEF Chosen

LEMMA StartsAtOrder == Init => Order!Init
<1> SUFFICES ASSUME Init PROVE Order!Init
  OBVIOUS
<1>1. ToSet(top_level_repos) = {} /\ ToSet(resolved) = {}
  BY DEF Init, ToSet
<1>2. Chosen = [r \in Repos |-> {}]
  BY <1>1 DEF Chosen
<1>3. (phase = "done") = FALSE
  BY DEF Init
<1> QED BY <1>1, <1>2, <1>3 DEF Init, Order!Init

\* A step that decides, installs and finishes nothing is a stutter.
LEMMA OrderStutters ==
    ASSUME IInv, DecisionsKept,
           UNCHANGED <<top_level_repos, resolved, installed>>,
           (phase' = "done") = (phase = "done")
    PROVE  UNCHANGED Order!vars
BY ChosenStays DEF Order!vars

\* A requested repository is found: Want.
LEMMA ReadRefines ==
    ASSUME StageInv, DecisionsKept, ReadRequest PROVE Order!Next \/ UNCHANGED Order!vars
<1>1. /\ phase = "read" /\ resolved = <<>> /\ phase' # "done"
      /\ UNCHANGED <<resolved, installed>>
  BY DEF ReadRequest, Raise, StageInv, Progress, dfsVars, buildVars
<1>2. Chosen' = Chosen /\ (phase' = "done") = (phase = "done")
  BY <1>1, ChosenStays DEF StageInv
<1>3. CASE UNCHANGED top_level_repos
  BY <1>1, <1>2, <1>3, OrderStutters DEF StageInv
<1>4. CASE ~ UNCHANGED top_level_repos
  <2> DEFINE line == Requests[Len(top_level_repos) + 1]
  <2>1. PICK w \in Snapshots : /\ w.base[line] # NoRepo
                               /\ top_level_repos' = Append(top_level_repos, w.base[line])
    BY <1>4 DEF ReadRequest
  <2>2. line \in Symbols
    <3>1. Requests \in Seq(Symbols)
      BY ResolveAssumption DEF ResolveAssumption
    <3>2. Len(top_level_repos) \in Nat
      BY DEF StageInv, IInv, TypeOK
    <3>3. Len(top_level_repos) < Len(Requests)
      BY DEF ReadRequest
    <3> QED BY <3>1, <3>2, <3>3
  <2>3. w.base[line] \in Repos
    BY <2>1, <2>2, ResolveAssumption DEF ResolveAssumption, Snapshot
  <2>4. (ToSet(top_level_repos))' = ToSet(top_level_repos) \cup {w.base[line]}
    BY <2>1, <2>3, ToSetAppend DEF StageInv, IInv, TypeOK
  <2>5. Order!Want(w.base[line])
    BY <1>1, <1>2, <2>4 DEF Order!Want
  <2> QED BY <2>3, <2>5 DEF Order!Next
<1> QED BY <1>3, <1>4

\* A call returns: Decide, with the providers chosen for its dependencies.
LEMMA ReturnRefines ==
    ASSUME StageInv, DecisionsKept, Return PROVE Order!Next
<1>1. PICK c \in Repos : /\ c = Current /\ c \in visiting /\ repo_cache[c] \in Info
                         /\ repo_cache[c] # NoInfo
  BY Loaded DEF Return, StageInv, IInv, SearchInv
<1>2. /\ resolved' = Append(resolved, c)
      /\ UNCHANGED <<phase, top_level_repos, installed, repo_cache, provider_cache>>
      /\ phase = "resolve"
  BY <1>1 DEF Return, Ordered, reqVars, buildVars
<1>3. ToSet(resolved') = ToSet(resolved) \cup {c} /\ c \notin ToSet(resolved)
  <2>1. ResolvedOnce
    BY DEF StageInv, IInv, SearchInv
  <2> QED BY <1>1, <1>2, <2>1, ToSetAppend DEF StageInv, IInv, TypeOK, ResolvedOnce
<1>4. installed = {}
  <2>1. 1 .. built = {}
    BY <1>2 DEF StageInv, Progress
  <2> QED BY <2>1 DEF StageInv, Progress
<1>5. \A r : Edges(r)' = Edges(r)
  BY <1>2 DEF Edges, AurDeps
<1>6. Edges(c) \subseteq ToSet(resolved)
  BY <1>1, ReturnEdges DEF StageInv
<1>7. Chosen' = [Chosen EXCEPT ![c] = Edges(c)]
  BY <1>1, <1>3, <1>2, <1>5 DEF Chosen
<1>8. Order!Decide(c)
  BY SameToSet, <1>2, <1>3, <1>4, <1>6, <1>7 DEF Order!Decide
<1> QED BY <1>8 DEF Order!Next

\* A repository is built and installed: Install.
LEMMA BuildRefines ==
    ASSUME StageInv, DecisionsKept, BuildNext PROVE Order!Next
<1>1. /\ phase = "build" /\ built \in Nat /\ built < Len(resolved)
      /\ installed' = installed \cup {NextToBuild}
      /\ UNCHANGED <<phase, top_level_repos, resolved>>
      /\ resolved \in Seq(Repos)
  BY DEF BuildNext, reqVars, StageInv, IInv, TypeOK
<1>2. built + 1 \in DOMAIN resolved /\ \A i \in 1 .. built : i \in DOMAIN resolved
  BY <1>1
<1>3. PICK r \in Repos : r = NextToBuild /\ r \in ToSet(resolved)
  BY <1>1, <1>2 DEF NextToBuild, ToSet
<1>4. r \notin installed
  <2>1. ASSUME NEW i \in 1 .. built PROVE resolved[i] # r
    <3>1. i # built + 1
      BY <1>1
    <3> QED BY <1>2, <1>3, <3>1 DEF NextToBuild, StageInv, IInv, SearchInv,
                                   ResolvedOnce, IsInjective
  <2> QED BY <2>1 DEF StageInv, Progress
<1>5. Chosen[r] \subseteq installed
  <2> SUFFICES ASSUME NEW p \in Edges(r) PROVE p \in installed
    BY <1>3 DEF Chosen
  <2>1. PICK j \in 1 .. ((built + 1) - 1) : resolved[j] = p
    BY <1>2, <1>3 DEF NextToBuild, StageInv, IInv, SearchInv, DepsFirst
  <2>2. j \in 1 .. built
    BY <1>1
  <2> QED BY <2>1, <2>2 DEF StageInv, Progress
<1>6. Chosen' = Chosen
  BY <1>1, ChosenStays DEF StageInv
<1>7. Order!Install(r)
  BY SameToSet, <1>1, <1>3, <1>4, <1>5, <1>6 DEF Order!Install
<1> QED BY <1>7 DEF Order!Next

\* main() ends: Finish.
LEMMA FinishRefines ==
    ASSUME StageInv, DecisionsKept, Finish PROVE Order!Next
<1>1. /\ phase = "build" /\ built = Len(resolved) /\ phase' = "done"
      /\ UNCHANGED <<top_level_repos, resolved, installed>>
      /\ resolved \in Seq(Repos)
  BY DEF Finish, dfsVars, buildVars, StageInv, IInv, TypeOK
<1>2. DOMAIN resolved = 1 .. built
  BY <1>1
<1>3. installed = ToSet(resolved)
  BY <1>2 DEF ToSet, StageInv, Progress
<1>4. ToSet(top_level_repos) \subseteq installed
  BY <1>1, <1>3 DEF StageInv, Progress
<1>5. Chosen' = Chosen /\ (phase' = "done") = TRUE
  BY <1>1, ChosenStays DEF StageInv
<1>6. Order!Finish
  BY SameToSet, <1>1, <1>3, <1>4, <1>5 DEF Order!Finish
<1> QED BY <1>6 DEF Order!Next

LEMMA StepRefines ==
    ASSUME StageInv, [Next]_vars PROVE Order!Next \/ UNCHANGED Order!vars
<1>1. IInv /\ DecisionsKept
  BY DecisionsStep DEF StageInv, IInv
<1>2. CASE ReadRequest
  BY <1>1, <1>2, ReadRefines
<1>3. CASE Return
  BY <1>1, <1>3, ReturnRefines
<1>4. CASE BuildNext
  BY <1>1, <1>4, BuildRefines
<1>5. CASE Finish
  BY <1>1, <1>5, FinishRefines
<1>6. CASE UNCHANGED vars
  BY <1>1, <1>6, OrderStutters DEF vars, reqVars, dfsVars, buildVars
<1>7. CASE BeginResolve \/ FinishResolve \/ InstallOfficial \/ StageError \/ NoProvider
  <2>1. /\ UNCHANGED <<top_level_repos, resolved, installed>>
        /\ phase # "done" /\ phase' # "done"
    BY <1>7 DEF BeginResolve, FinishResolve, InstallOfficial, StageError, NoProvider,
                Raise, Provided, AtDependency, dfsVars, buildVars
  <2> QED BY <1>1, <2>1, OrderStutters
<1>8. CASE ResolveTop \/ SkipSatisfied \/ NeedOfficial \/ ReuseResolved \/ FindCycle
           \/ Descend
  <2>1. /\ UNCHANGED <<top_level_repos, resolved, installed>>
        /\ phase = "resolve" /\ phase' # "done"
    BY <1>8 DEF ResolveTop, SkipSatisfied, NeedOfficial, ReuseResolved, FindCycle,
                Descend, Raise, Provided, AtDependency, reqVars, dfsVars, buildVars
  <2> QED BY <1>1, <2>1, OrderStutters
<1> QED BY <1>2, <1>3, <1>4, <1>5, <1>6, <1>7, <1>8 DEF Next, Step

\* The resolver and the build loop of build-aur.py (main(), lines 416-444)
\* implement BuildOrder, for every AUR and every request.
THEOREM StageRefinesBuildOrder == Spec => ImplementsBuildOrder
<1>1. Init => Order!Init
  BY StartsAtOrder
<1>2. StageInv /\ [Next]_vars => [Order!Next]_(Order!vars)
  BY StepRefines
<1> QED BY <1>1, <1>2, StageInvariant, PTL DEF Spec, ImplementsBuildOrder, Order!Spec

-----------------------------------------------------------------------------
(***************************************************************************)
(* What is chosen for a name provides it.                                  *)
(***************************************************************************)

\* symbol_to_repo, filled by load_repo(), only names repositories whose
\* .SRCINFO has the symbol.
SymbolsOwned ==
    \A s \in Symbols :
        symbol_to_repo[s] # NoRepo =>
            /\ symbol_to_repo[s] \in Repos
            /\ repo_cache[symbol_to_repo[s]] # NoInfo
            /\ s \in repo_cache[symbol_to_repo[s]].symbols

ProvideInv == TypeOK /\ SymbolsOwned /\ ProviderProvides

\* What an answer of the AUR leads to is claimed by a state of its index.
LEMMA AurAnswerClaims ==
    ASSUME SingleHitProvides, NEW s \in Symbols, NEW r \in FromAur(s), r # NoRepo
    PROVE  \E w \in Snapshots : Claims(w, r, s)
<1>1. CASE \E w \in Snapshots : r = w.base[s]
  BY <1>1 DEF Claims
<1>2. CASE \E w \in Snapshots : r \in FromSearch(s, w)
  <2>1. PICK w \in Snapshots : r \in FromSearch(s, w)
    BY <1>2
  <2>2. w.hits[s] \subseteq Symbols
    BY ResolveAssumption DEF ResolveAssumption, Snapshot
  <2>3. CASE Cardinality(w.hits[s]) = 1
    <3>1. PICK p \in w.hits[s] : r = w.base[p]
      BY <2>1, <2>3 DEF FromSearch
    <3> QED BY <2>2, <2>3, <3>1 DEF SingleHitProvides, Claims
  <2>4. CASE Cardinality(w.hits[s]) # 1
    <3>1. PICK seen \in [w.hits[s] -> Snapshots] :
              r \in IF Matches(s, w, seen) = {} THEN {NoRepo}
                    ELSE Preferred(Matches(s, w, seen))
      BY <2>1, <2>4 DEF FromSearch
    <3>2. r \in Matches(s, w, seen)
      BY <3>1, PreferredIsOne
    <3>3. PICK p \in w.hits[s] : /\ r = RecordOf(p, w, seen).base[p]
                                 /\ p = s \/ s \in RecordOf(p, w, seen).provides[p]
      BY <3>2 DEF Matches
    <3>4. RecordOf(p, w, seen) \in Snapshots
      BY DEF RecordOf
    <3> QED BY <2>2, <3>3, <3>4 DEF Claims
  <2> QED BY <2>3, <2>4
<1> QED BY <1>1, <1>2 DEF FromAur

\* What select_provider() returns provides the name it was asked for.
LEMMA SelectedProvides ==
    ASSUME SingleHitProvides, ProvideInv, NEW s \in Symbols,
           NEW r \in SelectProvider(s), r # NoRepo
    PROVE  \/ repo_cache[r] # NoInfo /\ s \in repo_cache[r].symbols
           \/ \E w \in Snapshots : Claims(w, r, s)
<1>1. CASE provider_cache[s] # NoRepo
  <2>1. r = provider_cache[s]
    BY <1>1 DEF SelectProvider
  <2> QED BY <2>1 DEF ProvideInv, ProviderProvides
<1>2. CASE provider_cache[s] = NoRepo /\ symbol_to_repo[s] # NoRepo
  <2>1. r = symbol_to_repo[s]
    BY <1>2 DEF SelectProvider
  <2> QED BY <1>2, <2>1 DEF ProvideInv, SymbolsOwned
<1>3. CASE provider_cache[s] = NoRepo /\ symbol_to_repo[s] = NoRepo
  <2>1. r \in FromAur(s)
    BY <1>3 DEF SelectProvider
  <2> QED BY <2>1, AurAnswerClaims
<1> QED BY <1>1, <1>2, <1>3

\* Loading a repository gives its symbols an owner.
LEMMA LoadOwns ==
    ASSUME ProvideInv, NEW r \in Repos, Load(r) PROVE SymbolsOwned'
<1>1. PICK info \in IF repo_cache[r] = NoInfo THEN Srcinfos[r] ELSE {repo_cache[r]} :
          /\ repo_cache' = [repo_cache EXCEPT ![r] = info]
          /\ symbol_to_repo' =
               [s \in Symbols |->
                   IF s \in info.symbols /\ symbol_to_repo[s] = NoRepo
                   THEN r ELSE symbol_to_repo[s]]
  BY DEF Load
<1>2. repo_cache'[r] = info /\ repo_cache'[r] # NoInfo
      /\ \A q \in Repos : repo_cache[q] # NoInfo => repo_cache'[q] = repo_cache[q]
  BY <1>1, LoadType DEF ProvideInv, TypeOK
<1> SUFFICES ASSUME NEW s \in Symbols, symbol_to_repo'[s] # NoRepo
             PROVE  /\ symbol_to_repo'[s] \in Repos
                    /\ repo_cache'[symbol_to_repo'[s]] # NoInfo
                    /\ s \in repo_cache'[symbol_to_repo'[s]].symbols
  BY DEF SymbolsOwned
<1>3. CASE s \in info.symbols /\ symbol_to_repo[s] = NoRepo
  BY <1>1, <1>2, <1>3
<1>4. CASE ~(s \in info.symbols /\ symbol_to_repo[s] = NoRepo)
  <2>1. symbol_to_repo'[s] = symbol_to_repo[s]
    BY <1>1, <1>4
  <2> QED BY <1>2, <2>1 DEF ProvideInv, SymbolsOwned
<1> QED BY <1>3, <1>4

\* Providers that are remembered go on providing.
LEMMA RememberedProvides ==
    ASSUME SingleHitProvides, ProvideInv, DecisionsKept,
           NEW p \in Repos, Provided(p), RememberProvider(p),
           DepName[Dependency] \in Symbols
    PROVE  ProviderProvides'
<1>1. /\ p \in SelectProvider(DepName[Dependency]) /\ p # NoRepo
      /\ provider_cache' = [provider_cache EXCEPT ![DepName[Dependency]] = p]
      /\ provider_cache \in [Symbols -> Repos \cup {NoRepo}]
  BY ResolveAssumption DEF Provided, RememberProvider, ProvideInv, TypeOK, ResolveAssumption
<1> SUFFICES ASSUME NEW s \in Symbols, provider_cache'[s] # NoRepo
             PROVE  \/ /\ repo_cache'[provider_cache'[s]] # NoInfo
                       /\ s \in repo_cache'[provider_cache'[s]].symbols
                    \/ \E w \in Snapshots : Claims(w, provider_cache'[s], s)
  BY DEF ProviderProvides
<1>2. PICK r \in Repos : r = provider_cache'[s]
  BY <1>1
<1>3. \/ repo_cache[r] # NoInfo /\ s \in repo_cache[r].symbols
      \/ \E w \in Snapshots : Claims(w, r, s)
  <2>1. CASE s = DepName[Dependency]
    <3>1. r = p
      BY <1>1, <1>2, <2>1
    <3> QED BY <1>1, <2>1, <3>1, SelectedProvides
  <2>2. CASE s # DepName[Dependency]
    <3>1. r = provider_cache[s]
      BY <1>1, <1>2, <2>2
    <3> QED BY <1>2, <3>1 DEF ProvideInv, ProviderProvides
  <2> QED BY <2>1, <2>2
<1>4. repo_cache[r] # NoInfo => repo_cache'[r] = repo_cache[r]
  BY DEF DecisionsKept
<1> QED BY <1>2, <1>3, <1>4

LEMMA ProvideStep ==
    ASSUME SingleHitProvides, IInv, ProvideInv, [Next]_vars PROVE ProvideInv'
<1>1. TypeOK' /\ DecisionsKept
  BY TypeStep, DecisionsStep DEF IInv
<1>2. ASSUME UNCHANGED provider_cache PROVE ProviderProvides'
  <2> SUFFICES ASSUME NEW s \in Symbols, provider_cache[s] # NoRepo
               PROVE  \/ /\ repo_cache'[provider_cache[s]] # NoInfo
                         /\ s \in repo_cache'[provider_cache[s]].symbols
                      \/ \E w \in Snapshots : Claims(w, provider_cache[s], s)
    BY <1>2 DEF ProviderProvides
  <2>1. provider_cache[s] \in Repos
    BY DEF ProvideInv, TypeOK
  <2>2. repo_cache[provider_cache[s]] # NoInfo =>
            repo_cache'[provider_cache[s]] = repo_cache[provider_cache[s]]
    BY <1>1, <2>1 DEF DecisionsKept
  <2> QED BY <2>2 DEF ProvideInv, ProviderProvides
<1>3. ASSUME NEW p, Provided(p) PROVE DepName[Dependency] \in Symbols
  <2>1. AtDependency /\ repo_cache[Current] # NoInfo /\ TypeOK
    BY <1>3, Loaded DEF Provided, AtDependency, IInv, SearchInv
  <2> QED BY <2>1, DependencyType
<1>4. ASSUME UNCHANGED <<repo_cache, symbol_to_repo>> PROVE SymbolsOwned'
  BY <1>4 DEF ProvideInv, SymbolsOwned
<1>5. CASE ReuseResolved \/ FindCycle
  <2>1. /\ UNCHANGED <<repo_cache, symbol_to_repo>>
        /\ \E p \in Repos : Provided(p) /\ RememberProvider(p)
    BY <1>5 DEF ReuseResolved, FindCycle
  <2> QED BY <1>1, <1>3, <1>4, <2>1, RememberedProvides DEF ProvideInv
<1>6. CASE Descend
  <2>1. PICK p \in Repos : Provided(p) /\ RememberProvider(p) /\ Load(p)
    BY <1>6 DEF Descend
  <2> QED BY <1>1, <1>3, <2>1, LoadOwns, RememberedProvides DEF ProvideInv
<1>7. CASE ResolveTop \/ BuildNext
  <2>1. UNCHANGED provider_cache
    BY <1>7 DEF ResolveTop, BuildNext, dfsVars
  <2>2. UNCHANGED <<repo_cache, symbol_to_repo>> \/ \E r \in Repos : Load(r)
    <3>1. CASE ResolveTop
      <4>1. top_level_repos[top + 1] \in Repos
        BY <3>1 DEF ResolveTop, ProvideInv, TypeOK
      <4> QED BY <3>1, <4>1 DEF ResolveTop, dfsVars
    <3>2. CASE BuildNext
      <4>1. NextToBuild \in Repos
        BY <3>2 DEF BuildNext, NextToBuild, ProvideInv, TypeOK
      <4> QED BY <3>2, <4>1 DEF BuildNext
    <3> QED BY <1>7, <3>1, <3>2
  <2> QED BY <1>1, <1>2, <1>4, <2>1, <2>2, LoadOwns DEF ProvideInv
<1>8. CASE ReadRequest \/ BeginResolve \/ SkipSatisfied \/ NeedOfficial \/ NoProvider
           \/ Return \/ FinishResolve \/ InstallOfficial \/ Finish \/ StageError
           \/ UNCHANGED vars
  <2>1. UNCHANGED <<provider_cache, repo_cache, symbol_to_repo>>
    BY <1>8 DEF ReadRequest, BeginResolve, SkipSatisfied, NeedOfficial, NoProvider,
                Return, FinishResolve, InstallOfficial, Finish, StageError, vars, dfsVars
  <2> QED BY <1>1, <1>2, <1>4, <2>1 DEF ProvideInv
<1> QED BY <1>5, <1>6, <1>7, <1>8 DEF Next, Step

\* The repository chosen for a name provides it (select_provider(), lines
\* 250-286), when a search with one result is answered with a provider.
THEOREM ProvidersProvide == SingleHitProvides => (Spec => []ProviderProvides)
<1> SUFFICES ASSUME SingleHitProvides PROVE Spec => []ProviderProvides
  OBVIOUS
<1>1. Init => ProvideInv
  BY TypeInit DEF Init, ProvideInv, SymbolsOwned, ProviderProvides
<1>2. StageInv /\ ProvideInv /\ [Next]_vars => ProvideInv'
  BY ProvideStep DEF StageInv
<1>3. ProvideInv => ProviderProvides
  BY DEF ProvideInv
<1> QED BY <1>1, <1>2, <1>3, StageInvariant, PTL DEF Spec
=============================================================================
