----------------------------- MODULE AurResolve -----------------------------
(***************************************************************************)
(* The resolver of the AUR stage, run/scripts/build-aur.py: one run of     *)
(* main() from the request file to the last installed package.             *)
(*                                                                         *)
(* resolve_repo() is a depth-first search over .SRCINFO dependencies; its  *)
(* Python call stack is the variable `stack'.  The AUR is not frozen while *)
(* the stage runs: every RPC request and every clone is answered by some   *)
(* snapshot of it, and two requests may see two different snapshots.       *)
(***************************************************************************)
EXTENDS Naturals, FiniteSets, SequencesExt

CONSTANTS
    Repos,       \* AUR git repositories (package bases)
    NoRepo,      \* None where a repository name is expected
    Symbols,     \* names: packages and what they provide
    Deps,        \* dependency expressions of .SRCINFO files ("foo>=2")
    DepName,     \* dep_name(): the name in an expression
    Requests,    \* the package lines of packages-aur.txt, in order
    Snapshots,   \* the states of the AUR index that may answer a request
    Srcinfos,    \* Srcinfos[r]: what parse_srcinfo() may return for r
    NoInfo,      \* repo_cache has no entry
    Satisfied,   \* expressions `pacman -T' accepts before the stage runs
    Official,    \* names `pacman -Ssq' lists
    GitRepos,    \* repositories whose name ends in "-git"
    Rank         \* the place of a repository name in sorted()

Info == [symbols : SUBSET Symbols, deps : Seq(Deps)]

\* base[p] is the PackageBase of AUR package p (NoRepo: no such package),
\* provides[p] its Provides list, hits[s] the answer of the search by=provides.
Snapshot == [base     : [Symbols -> Repos \cup {NoRepo}],
             provides : [Symbols -> SUBSET Symbols],
             hits     : [Symbols -> SUBSET Symbols]]

ASSUME ResolveAssumption ==
    /\ NoRepo \notin Repos
    /\ NoInfo \notin Info
    /\ DepName \in [Deps -> Symbols]
    /\ Requests \in Seq(Symbols)
    /\ Snapshots \subseteq Snapshot
    /\ Snapshots # {}
    /\ \A w \in Snapshots, s \in Symbols :
           \A p \in w.hits[s] : w.base[p] # NoRepo
    /\ Srcinfos \in [Repos -> (SUBSET Info) \ {{}}]
    /\ Satisfied \subseteq Deps
    /\ Official \subseteq Symbols
    /\ GitRepos \subseteq Repos
    /\ Rank \in [Repos -> Nat]

VARIABLES
    phase,               \* how far main() has got
    error,               \* why it stopped: the kind of exception, or "none"
    top_level_repos,     \* read_requested_repos()
    top,                 \* top-level repositories the resolve loop has begun
    stack,               \* the open resolve_repo() calls, innermost last
    visiting,
    resolved,            \* the build order
    repo_cache,
    provider_cache,
    symbol_to_repo,
    official_needed,
    official_installed,  \* names install_official() installed
    built,               \* entries of `resolved' the build loop has finished
    installed            \* repositories whose artifacts are installed

reqVars   == <<phase, error, top_level_repos, top>>
dfsVars   == <<stack, visiting, resolved, repo_cache, provider_cache,
               symbol_to_repo, official_needed>>
buildVars == <<official_installed, built, installed>>
vars      == <<reqVars, dfsVars, buildVars>>

Phases == {"read", "resolve", "official", "build", "done", "failed"}
Errors == {"none", "unknown request", "cycle", "unresolved", "external"}

\* A resolve_repo() activation: `next' is the dependency its loop takes next.
Frame == [repo : Repos, next : Nat \ {0}]

-----------------------------------------------------------------------------
(***************************************************************************)
(* select_provider(): the caches first, then the AUR.                      *)
(***************************************************************************)

\* Of several matching repositories: the only one not named "-git", else the
\* first by name.
Preferred(S) ==
    IF Cardinality(S \ GitRepos) = 1
    THEN S \ GitRepos
    ELSE {r \in S : \A q \in S : Rank[r] <= Rank[q]}

\* Search results that really provide s.  Each result p is looked up again by
\* aur_info(), seen[p] being the snapshot that answers; a package that has
\* vanished since is taken as the search w described it.
RecordOf(p, w, seen) == IF seen[p].base[p] # NoRepo THEN seen[p] ELSE w

\* (mutant) the results are not filtered
MutMatches(s, w, seen) == {RecordOf(p, w, seen).base[p] : p \in w.hits[s]}

Matches(s, w, seen) ==
    {RecordOf(p, w, seen).base[p] :
        p \in {q \in w.hits[s] :
                  q = s \/ s \in RecordOf(q, w, seen).provides[q]}}

\* What the search by=provides, answered by w, can lead to.  A single result
\* is taken as it is.
FromSearch(s, w) ==
    IF Cardinality(w.hits[s]) = 1
    THEN {w.base[p] : p \in w.hits[s]}
    ELSE UNION {LET found == Matches(s, w, seen)
                IN  IF found = {} THEN {NoRepo} ELSE Preferred(found)
                : seen \in [w.hits[s] -> Snapshots]}

FromAur(s) ==
    {w.base[s] : w \in {v \in Snapshots : v.base[s] # NoRepo}}
    \cup (IF \E w \in Snapshots : w.base[s] = NoRepo
          THEN UNION {FromSearch(s, w) : w \in Snapshots}
          ELSE {})

\* (mutant) provider_cache is not looked at
MutForgetsProvider(s) ==
    IF symbol_to_repo[s] # NoRepo THEN {symbol_to_repo[s]} ELSE FromAur(s)

SelectProvider(s) ==
    CASE provider_cache[s] # NoRepo -> {provider_cache[s]}
      [] provider_cache[s] = NoRepo /\ symbol_to_repo[s] # NoRepo
             -> {symbol_to_repo[s]}
      [] OTHER -> FromAur(s)

-----------------------------------------------------------------------------
TypeOK ==
    /\ phase \in Phases
    /\ error \in Errors
    /\ top_level_repos \in Seq(Repos)
    /\ top \in Nat
    /\ top <= Len(top_level_repos)
    /\ stack \in Seq(Frame)
    /\ visiting \subseteq Repos
    /\ resolved \in Seq(Repos)
    /\ repo_cache \in [Repos -> Info \cup {NoInfo}]
    /\ provider_cache \in [Symbols -> Repos \cup {NoRepo}]
    /\ symbol_to_repo \in [Symbols -> Repos \cup {NoRepo}]
    /\ official_needed \subseteq Official
    /\ official_installed \subseteq Official
    /\ built \in Nat
    /\ built <= Len(resolved)
    /\ installed \subseteq Repos

Init ==
    /\ phase = "read"
    /\ error = "none"
    /\ top_level_repos = <<>>
    /\ top = 0
    /\ stack = <<>>
    /\ visiting = {}
    /\ resolved = <<>>
    /\ repo_cache = [r \in Repos |-> NoInfo]
    /\ provider_cache = [s \in Symbols |-> NoRepo]
    /\ symbol_to_repo = [s \in Symbols |-> NoRepo]
    /\ official_needed = {}
    /\ official_installed = {}
    /\ built = 0
    /\ installed = {}

\* An exception leaves main(); the stack stays as the traceback shows it.
Raise(kind) ==
    /\ phase' = "failed"
    /\ error' = kind

-----------------------------------------------------------------------------
(***************************************************************************)
(* read_requested_repos(): each line is looked up with aur_info().         *)
(***************************************************************************)
ReadRequest ==
    /\ phase = "read"
    /\ Len(top_level_repos) < Len(Requests)
    /\ \E w \in Snapshots :
           LET repo == w.base[Requests[Len(top_level_repos) + 1]]
           IN  \/ /\ repo # NoRepo
                  /\ top_level_repos' = Append(top_level_repos, repo)
                  /\ UNCHANGED <<phase, error>>
               \/ /\ repo = NoRepo
                  /\ Raise("unknown request")
                  /\ UNCHANGED top_level_repos
    /\ UNCHANGED <<top, dfsVars, buildVars>>

BeginResolve ==
    /\ phase = "read"
    /\ Len(top_level_repos) = Len(Requests)
    /\ phase' = "resolve"
    /\ UNCHANGED <<error, top_level_repos, top, dfsVars, buildVars>>

-----------------------------------------------------------------------------
(***************************************************************************)
(* resolve_repo()                                                          *)
(***************************************************************************)

\* load_repo(): a repository already in the cache is not cloned again, and a
\* symbol keeps the first repository that was loaded with it (setdefault).
Load(r) ==
    \E info \in IF repo_cache[r] = NoInfo THEN Srcinfos[r] ELSE {repo_cache[r]} :
        /\ repo_cache' = [repo_cache EXCEPT ![r] = info]
        /\ symbol_to_repo' =
               [s \in Symbols |->
                   IF s \in info.symbols /\ symbol_to_repo[s] = NoRepo
                   THEN r ELSE symbol_to_repo[s]]

Current    == Last(stack).repo
CurrentDeps == repo_cache[Current].deps
Dependency == CurrentDeps[Last(stack).next]
AtDependency ==
    /\ phase = "resolve"
    /\ stack # <<>>
    /\ Last(stack).next <= Len(CurrentDeps)

\* (mutant) the loop takes the same dependency again
MutAdvanced == stack

Advanced == [stack EXCEPT ![Len(stack)].next = @ + 1]

\* (mutant) a loop that starts one entry too early
MutNewFrame(r) == [repo |-> r, next |-> 0]

NewFrame(r) == [repo |-> r, next |-> 1]

\* What the loop does with dependency d: pacman's business (already met, or to
\* be installed), or else the AUR's.
WantsOfficial(d) == d \notin Satisfied /\ DepName[d] \in Official
WantsAur(d)      == d \notin Satisfied /\ DepName[d] \notin Official

\* (mutant) a repository that has been loaded is taken for an open one
MutIsOpen(p) == repo_cache[p] # NoInfo

\* The early return and the cycle check of a call for repository p.
IsNew(p)  == p \notin ToSet(resolved) /\ p \notin visiting
IsOpen(p) == p \notin ToSet(resolved) /\ p \in visiting

\* main() calls resolve_repo(r, resolved, set()) for the next requested
\* repository; an earlier one may already have pulled it in.
ResolveTop ==
    /\ phase = "resolve"
    /\ stack = <<>>
    /\ top < Len(top_level_repos)
    /\ top' = top + 1
    /\ LET r == top_level_repos[top + 1]
       IN  \/ /\ r \in ToSet(resolved)
              /\ UNCHANGED dfsVars
           \/ /\ r \notin ToSet(resolved)
              /\ stack' = <<NewFrame(r)>>
              /\ visiting' = {r}
              /\ Load(r)
              /\ UNCHANGED <<resolved, provider_cache, official_needed>>
    /\ UNCHANGED <<phase, error, top_level_repos, buildVars>>

SkipSatisfied ==
    /\ AtDependency
    /\ Dependency \in Satisfied
    /\ stack' = Advanced
    /\ UNCHANGED <<reqVars, visiting, resolved, repo_cache, provider_cache,
                   symbol_to_repo, official_needed, buildVars>>

NeedOfficial ==
    /\ AtDependency
    /\ WantsOfficial(Dependency)
    /\ official_needed' = official_needed \cup {DepName[Dependency]}
    /\ stack' = Advanced
    /\ UNCHANGED <<reqVars, visiting, resolved, repo_cache, provider_cache,
                   symbol_to_repo, buildVars>>

\* The dependency is left to the AUR, and select_provider() returns p.
Provided(p) ==
    /\ AtDependency
    /\ WantsAur(Dependency)
    /\ p \in SelectProvider(DepName[Dependency])

RememberProvider(p) ==
    provider_cache' = [provider_cache EXCEPT ![DepName[Dependency]] = p]

NoProvider ==
    /\ Provided(NoRepo)
    /\ Raise("unresolved")
    /\ UNCHANGED <<top_level_repos, top, dfsVars, buildVars>>

ReuseResolved ==
    /\ \E p \in Repos :
           /\ Provided(p)
           /\ p \in ToSet(resolved)
           /\ RememberProvider(p)
    /\ stack' = Advanced
    /\ UNCHANGED <<reqVars, visiting, resolved, repo_cache, symbol_to_repo,
                   official_needed, buildVars>>

FindCycle ==
    /\ \E p \in Repos :
           /\ Provided(p)
           /\ IsOpen(p)
           /\ RememberProvider(p)
    /\ Raise("cycle")
    /\ UNCHANGED <<top_level_repos, top, stack, visiting, resolved, repo_cache,
                   symbol_to_repo, official_needed, buildVars>>

Descend ==
    /\ \E p \in Repos :
           /\ Provided(p)
           /\ IsNew(p)
           /\ RememberProvider(p)
           /\ stack' = Append(Advanced, NewFrame(p))
           /\ visiting' = visiting \cup {p}
           /\ Load(p)
    /\ UNCHANGED <<reqVars, resolved, official_needed, buildVars>>

\* (mutant) the order is built from its end
MutOrdered == <<Current>> \o resolved

Ordered == Append(resolved, Current)

Return ==
    /\ phase = "resolve"
    /\ stack # <<>>
    /\ Last(stack).next > Len(CurrentDeps)
    /\ visiting' = visiting \ {Current}
    /\ resolved' = Ordered
    /\ stack' = Front(stack)
    /\ UNCHANGED <<reqVars, repo_cache, provider_cache, symbol_to_repo,
                   official_needed, buildVars>>

-----------------------------------------------------------------------------
(***************************************************************************)
(* The rest of main(): install_official(), then the build loop.            *)
(***************************************************************************)
\* (mutant) the last requested repository is left out
MutAllBegun == top + 1 = Len(top_level_repos)

AllBegun == top = Len(top_level_repos)

FinishResolve ==
    /\ phase = "resolve"
    /\ stack = <<>>
    /\ AllBegun
    /\ phase' = "official"
    /\ UNCHANGED <<error, top_level_repos, top, dfsVars, buildVars>>

InstallOfficial ==
    /\ phase = "official"
    /\ official_installed' = official_needed
    /\ phase' = "build"
    /\ UNCHANGED <<error, top_level_repos, top, dfsVars, built, installed>>

\* (mutant) the order is built from its end
MutNextToBuild == resolved[Len(resolved) - built]

NextToBuild == resolved[built + 1]

\* build_repo() and install_artifacts() for the next entry of the order; the
\* set `seen' of the code is `installed'.
BuildNext ==
    /\ phase = "build"
    /\ built < Len(resolved)
    /\ built' = built + 1
    /\ installed' = installed \cup {NextToBuild}
    /\ Load(NextToBuild)
    /\ UNCHANGED <<reqVars, stack, visiting, resolved, provider_cache,
                   official_needed, official_installed>>

Finish ==
    /\ phase = "build"
    /\ built = Len(resolved)
    /\ phase' = "done"
    /\ UNCHANGED <<error, top_level_repos, top, dfsVars, buildVars>>

\* A command or a request raises: git, pacman, makepkg, or the RPC after its
\* last retry.
StageError ==
    /\ phase \notin {"done", "failed"}
    /\ Raise("external")
    /\ UNCHANGED <<top_level_repos, top, dfsVars, buildVars>>

Step ==
    \/ ReadRequest
    \/ BeginResolve
    \/ ResolveTop
    \/ SkipSatisfied
    \/ NeedOfficial
    \/ NoProvider
    \/ ReuseResolved
    \/ FindCycle
    \/ Descend
    \/ Return
    \/ FinishResolve
    \/ InstallOfficial
    \/ BuildNext
    \/ Finish

Next == Step \/ StageError

\* The stage is one sequential process whose commands all end: WF on its own
\* steps, none on the errors.
Spec == Init /\ [][Next]_vars /\ WF_vars(Step)
-----------------------------------------------------------------------------
(***************************************************************************)
(* Properties.                                                             *)
(***************************************************************************)

\* The dependencies of a loaded repository that are left to the AUR, and the
\* repositories chosen for them.
AurDeps(r) ==
    {d \in ToSet(repo_cache[r].deps) :
        d \notin Satisfied /\ DepName[d] \notin Official}
Edges(r) == {provider_cache[DepName[d]] : d \in AurDeps(r)}

\* The order is a build order: whatever a repository in `resolved' needs from
\* the AUR has a provider, and that provider comes before it.  This is what
\* the recursion of resolve_repo() (lines 289-309) is for.
DepsFirst ==
    \A i \in DOMAIN resolved :
        \A p \in Edges(resolved[i]) : \E j \in 1 .. (i - 1) : resolved[j] = p

\* No repository is built twice, and none in the order is still being
\* resolved: the `seen' set of the build loop (lines 430-434) never skips.
ResolvedOnce ==
    /\ IsInjective(resolved)
    /\ ToSet(resolved) \cap visiting = {}

\* The open calls are a path of the dependency graph without repetition and
\* `visiting' is its set of nodes, so the recursion is never deeper than the
\* number of repositories (Python's recursion limit is not met).
StackIsPath ==
    /\ visiting = {f.repo : f \in ToSet(stack)}
    /\ \A m, n \in DOMAIN stack :
           stack[m].repo = stack[n].repo => m = n
    /\ \A n \in DOMAIN stack :
           n > 1 => stack[n].repo \in Edges(stack[n - 1].repo)

\* "AUR dependency cycle detected" (line 293) is only said of a repository
\* that depends on itself through the open calls.
CycleIsReal ==
    error = "cycle" =>
        \E n \in DOMAIN stack :
            stack[n].repo = provider_cache[DepName[Dependency]]

\* The loop of the call at depth n has dealt with the dependencies before
\* `next': each is pacman's business, or its provider is in the order, or is
\* the call it has just made.
Explored(n) ==
    \A i \in 1 .. (stack[n].next - 1) :
        LET d == repo_cache[stack[n].repo].deps[i]
            p == provider_cache[DepName[d]]
        IN  d \in AurDeps(stack[n].repo) =>
                \/ p \in ToSet(resolved)
                \/ /\ n < Len(stack)
                   /\ i = stack[n].next - 1
                   /\ p = stack[n + 1].repo

\* Why the search is right: what makes the four properties above survive every
\* step of resolve_repo() (lines 289-309), its calls and returns included.
SearchInv ==
    /\ DepsFirst
    /\ ResolvedOnce
    /\ StackIsPath
    /\ CycleIsReal
    /\ error # "none" => phase = "failed"
    /\ \A r \in ToSet(resolved) \cup visiting : repo_cache[r] # NoInfo
    /\ \A n \in DOMAIN stack : Explored(n)

\* When makepkg is started for a repository, each of its dependencies is met:
\* it was from the start, its official package is installed, or the artifacts
\* of its provider are.
BuildReady ==
    phase = "build" /\ built < Len(resolved) =>
        \A d \in ToSet(repo_cache[resolved[built + 1]].deps) :
            \/ d \in Satisfied
            \/ DepName[d] \in official_installed
            \/ provider_cache[DepName[d]] \in installed

\* While the AUR moves under the stage, what it has decided stands: a name
\* keeps its provider and a repository the .SRCINFO it was resolved with, up
\* to and through the build loop.
DecisionsKept ==
    /\ \A s \in Symbols :
           provider_cache[s] # NoRepo => provider_cache'[s] = provider_cache[s]
    /\ \A r \in Repos :
           repo_cache[r] # NoInfo => repo_cache'[r] = repo_cache[r]
DecisionsStand == [][DecisionsKept]_vars

\* The repository chosen for a name provides it: its .SRCINFO says so, or a
\* state of the index did.
Claims(w, r, s) == \E p \in Symbols : w.base[p] = r /\ (p = s \/ s \in w.provides[p])
ProviderProvides ==
    \A s \in Symbols :
        LET r == provider_cache[s]
        IN  \/ r = NoRepo
            \/ repo_cache[r] # NoInfo /\ s \in repo_cache[r].symbols
            \/ \E w \in Snapshots : Claims(w, r, s)

\* What select_provider() takes for granted of the search by=provides: when
\* it has one result, that result provides the name (lines 264-266 take it as
\* it is; several results are looked up and filtered).
SingleHitProvides ==
    \A w \in Snapshots, s \in Symbols :
        Cardinality(w.hits[s]) = 1 =>
            \A p \in w.hits[s] : p = s \/ s \in w.provides[p]

\* The stage implements BuildOrder: the order grows by repositories whose
\* needs it already holds, is then installed needs first, and a stage that
\* succeeds has installed all of it and every requested repository.
Chosen == [r \in Repos |-> IF r \in ToSet(resolved) THEN Edges(r) ELSE {}]
Order  == INSTANCE BuildOrder WITH
              wanted <- ToSet(top_level_repos), order <- resolved,
              needs <- Chosen, finished <- (phase = "done")
ImplementsBuildOrder == Order!Spec

\* Cyclic dependencies, missing ones and failures included, the stage ends.
Termination == <>(phase \in {"done", "failed"})
=============================================================================
