---------------------------- MODULE MCAurResolve ----------------------------
(***************************************************************************)
(* Three repositories: a, b and c (the "-git" one).  b and c provide the   *)
(* virtual name v; glibc and bash are official and bash is installed; an   *)
(* old c is installed, so that "c" is satisfied and "c>=2" is not.  Every  *)
(* choice of .SRCINFO files with up to MaxDepsA, MaxDepsB and MaxDepsC     *)
(* dependencies is tried, so all the graphs on three nodes occur: chains,  *)
(* diamonds, cycles, a package that depends on itself.                     *)
(***************************************************************************)
EXTENDS AurResolve

CONSTANTS MaxDepsA, MaxDepsB, MaxDepsC  \* the longest lists of dependencies

MCRepos   == {"a", "b", "c"}
MCSymbols == {"a", "b", "c", "v", "glibc", "bash"}
MCDeps    == {"a", "b", "c", "c>=2", "v", "glibc", "bash"}
MCRequests == <<"a", "c">>
MCDepName == [d \in MCDeps |-> IF d = "c>=2" THEN "c" ELSE d]

NamesOf(r) == IF r = "b" THEN {"b", "v"} ELSE {r}
Lists(S, n) == {s \in UNION {[1 .. m -> S] : m \in 0 .. n} : IsInjective(s)}
InfosOf(symbols, S, n) == {[symbols |-> symbols, deps |-> l] : l \in Lists(S, n)}

MCSrcinfos ==
    [r \in MCRepos |->
        CASE r = "a" -> InfosOf({"a"}, {"b", "c", "c>=2", "v", "glibc", "bash"}, MaxDepsA)
          [] r = "b" -> InfosOf({"b", "v"}, {"a", "c>=2", "v"}, MaxDepsB)
          [] r = "c" -> InfosOf({"c"}, {"a", "b", "v"}, MaxDepsC)
                        \cup InfosOf({"c", "v"}, {"b"}, MaxDepsC)]

\* The index with packages S; the search for v also returns a, which does not
\* provide it.
IndexOf(S) ==
    [base     |-> [s \in MCSymbols |-> IF s \in S THEN s ELSE NoRepo],
     provides |-> [s \in MCSymbols |-> IF s \in {"b", "c"} THEN {"v"} ELSE {}],
     hits     |-> [s \in MCSymbols |-> S \cap (IF s = "v" THEN {"a", "b", "c"}
                                                          ELSE {s})]]

\* Packages b and a come and go while the stage runs.
MCSnapshots == {IndexOf({"a", "b", "c"}), IndexOf({"c"})}

\* A search of this index that has one result is answered with a provider, so
\* the hypothesis of ProvidersProvide holds here.
ASSUME MCSearchAnswers == SingleHitProvides

MCRank == [r \in MCRepos |-> CASE r = "a" -> 1 [] r = "b" -> 2 [] r = "c" -> 3]
=============================================================================
