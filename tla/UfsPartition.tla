---------------------------- MODULE UfsPartition ----------------------------
(***************************************************************************)
(* What the union-find-set type promises: a set of disjoint classes that   *)
(* cover the elements.  UNION makes one class of all the classes its       *)
(* arguments meet, SPLIT takes its argument out of the classes it meets.   *)
(*                                                                         *)
(* A union whose two arguments begin in one class does nothing.  While     *)
(* every argument lies within one class, which is what a client's own      *)
(* command must fulfil, there is nothing to do then; for an argument that  *)
(* has been divided since, it means that its other classes stay apart.     *)
(***************************************************************************)
CONSTANT Elem

VARIABLE classes

\* No class is empty, and every element is in exactly one.
IsPartition(P) ==
    /\ P \subseteq SUBSET Elem
    /\ {} \notin P
    /\ UNION P = Elem
    /\ \A C, D \in P : C # D => C \cap D = {}

Init == IsPartition(classes)

Meeting(X) == {C \in classes : C \cap X # {}}

\* The classes that X meets become one.
Merged(X) == (classes \ Meeting(X)) \cup {UNION Meeting(X)}

\* The classes are divided into what is in X and what is not.
Divided(X) == ({C \ X : C \in classes} \cup {C \cap X : C \in classes}) \ {{}}

Together(a, b) == a # b /\ \E C \in classes : a \in C /\ b \in C

\* The classes after a union of two lists that begin with a and with b, and
\* that name the elements of X between them.
AfterUnion(a, b, X) == IF Together(a, b) THEN classes ELSE Merged(X)

Union(a, b, X) == classes' = AfterUnion(a, b, X)

Split(X) == classes' = Divided(X)

Next == \E X \in (SUBSET Elem) \ {{}} : Split(X) \/ \E a, b \in X : Union(a, b, X)

Spec == Init /\ [][Next]_classes
=============================================================================
