----------------------------- MODULE BuildOrder -----------------------------
(***************************************************************************)
(* What the AUR stage promises of what it builds and of the order it       *)
(* builds in, whatever way it finds it: repositories are put in an order,  *)
(* each after all it needs, and only then installed, each after all it     *)
(* needs; the stage is finished when the whole order is installed and      *)
(* everything that was wanted with it.                                     *)
(***************************************************************************)
EXTENDS SequencesExt

CONSTANT Repos

VARIABLES
    wanted,     \* the repositories that were asked for
    order,      \* the repositories decided on, in build order
    needs,      \* what each of them needs
    installed,
    finished    \* the stage has reported success

vars == <<wanted, order, needs, installed, finished>>

Init ==
    /\ wanted = {}
    /\ order = <<>>
    /\ needs = [r \in Repos |-> {}]
    /\ installed = {}
    /\ finished = FALSE

Want(r) ==
    /\ order = <<>>
    /\ wanted' = wanted \cup {r}
    /\ UNCHANGED <<order, needs, installed, finished>>

Decide(r) ==
    /\ installed = {}
    /\ r \notin ToSet(order)
    /\ order' = Append(order, r)
    /\ \E N \in SUBSET ToSet(order) : needs' = [needs EXCEPT ![r] = N]
    /\ UNCHANGED <<wanted, installed, finished>>

Install(r) ==
    /\ r \in ToSet(order) \ installed
    /\ needs[r] \subseteq installed
    /\ installed' = installed \cup {r}
    /\ UNCHANGED <<wanted, order, needs, finished>>

Finish ==
    /\ wanted \subseteq installed
    /\ installed = ToSet(order)
    /\ finished' = TRUE
    /\ UNCHANGED <<wanted, order, needs, installed>>

Next == Finish \/ \E r \in Repos : Want(r) \/ Decide(r) \/ Install(r)

Spec == Init /\ [][Next]_vars
=============================================================================
