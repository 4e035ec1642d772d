----------------------------- MODULE LineMemory -----------------------------
(***************************************************************************)
(* What a memory promises those that use it: an access that was taken has its    *)
(* effect once, accesses of one class in the order they were taken, and is      *)
(* answered once, after its effect.                                           *)
(***************************************************************************)
EXTENDS Naturals, Sequences

CONSTANT Accesses \* records with a field class: the order within a class is kept

VARIABLES
    taken,    \* the accesses in the order they were taken
    done,     \* those that had their effect, as positions in taken
    answered  \* those that were answered

vars == <<taken, done, answered>>

Init == taken = <<>> /\ done = {} /\ answered = {}

Take(a) ==
    /\ taken' = Append(taken, a)
    /\ UNCHANGED <<done, answered>>

\* Any number at a time, each after those before it in its class.
Effect(S) ==
    /\ \A i \in S, j \in DOMAIN taken :
          j < i /\ taken[j].class = taken[i].class => j \in done \union S
    /\ done' = done \union S
    /\ UNCHANGED <<taken, answered>>

Answer(S) ==
    /\ answered' = answered \union S
    /\ UNCHANGED <<taken, done>>

Next ==
    \/ \E a \in Accesses : Take(a)
    \/ \E S \in SUBSET (DOMAIN taken \ done) : S # {} /\ Effect(S)
    \/ \E S \in SUBSET (done \ answered) : S # {} /\ Answer(S)

Spec == Init /\ [][Next]_vars

\* No access has its effect before one of its class that was taken before.
EffectsInOrder ==
    \A i \in done, j \in DOMAIN taken :
        j < i /\ taken[j].class = taken[i].class => j \in done

\* What is answered had its effect, and that was taken.
AnsweredAfterEffect == answered \subseteq done /\ done \subseteq DOMAIN taken
=============================================================================
