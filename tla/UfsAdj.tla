------------------------------- MODULE UfsAdj -------------------------------
(***************************************************************************)
(* The cudGraph with every adjacency list read as a set.  unionProc looks  *)
(* at the edge between the first elements of its arguments and, if there   *)
(* is none, links the neighbourhoods of the arguments with one another     *)
(* (createLinks, pair by pair); splitProc removes the edges that leave its *)
(* argument (removeAdjEdge, element by element).  The arguments are any    *)
(* elements: those of a remote command are not checked against this graph. *)
(*                                                                         *)
(* Whether two elements are in the same class is decided by ONE edge       *)
(* (existEdge, isConnected), and a class is read off ONE adjacency list    *)
(* (updateVerticeUfs, findCommand): the code is right only while the graph *)
(* is a disjoint union of cliques.                                         *)
(***************************************************************************)
CONSTANT Elem

VARIABLE adj

\* uinit puts every element in one class and links the elements of a class.
Init == \E class \in [Elem -> Elem] :
            adj = [x \in Elem |-> {y \in Elem \ {x} : class[y] = class[x]}]

\* The elements of X and their neighbours.
Near(X) == X \cup UNION {adj[x] : x \in X}

\* Mutants of UnionProc: an element may be linked with itself; the edge between
\* the first elements is not looked at; the neighbours are not linked.
UnionProcLoop(a, b, X) ==
    [x \in Elem |-> IF x \in Near(X) THEN adj[x] \cup Near(X) ELSE adj[x]]

UnionProcAlways(a, b, X) ==
    [x \in Elem |-> IF x \in Near(X) THEN adj[x] \cup (Near(X) \ {x}) ELSE adj[x]]

UnionProcArgs(a, b, X) ==
    IF b \in adj[a] THEN adj
    ELSE [x \in Elem |-> IF x \in X THEN adj[x] \cup (X \ {x}) ELSE adj[x]]

\* unionProc with two lists that begin with a and with b, and that name the
\* elements of X between them.  Nothing is done when a and b are linked (for
\* two single names there is no such test, and nothing left to link); else
\* everything near the arguments is linked pair by pair.
UnionProc(a, b, X) ==
    IF b \in adj[a] THEN adj
    ELSE [x \in Elem |-> IF x \in Near(X) THEN adj[x] \cup (Near(X) \ {x}) ELSE adj[x]]

\* Mutants of SplitProc: the edges from the other elements are left; the
\* elements of X are separated from one another as well.
SplitProcOneWay(X) ==
    [x \in Elem |-> IF x \in X THEN adj[x] \cap X ELSE adj[x]]

SplitProcEach(X) ==
    [x \in Elem |-> IF x \in X THEN {} ELSE adj[x] \ X]

\* splitProc with the list X: no edge between X and the other elements is left.
SplitProc(X) ==
    [x \in Elem |-> IF x \in X THEN adj[x] \cap X ELSE adj[x] \ X]

\* isConnected: the elements of a list are linked with one another.
Connected(X) == \A x, y \in X : x # y => y \in adj[x]

Union(a, b, X) == adj' = UnionProc(a, b, X)

Split(X) == adj' = SplitProc(X)

Next == \E X \in (SUBSET Elem) \ {{}} : Split(X) \/ \E a, b \in X : Union(a, b, X)

Spec == Init /\ [][Next]_adj

-----------------------------------------------------------------------------
\* Every list is a list of other elements (createEdge returns when v1 == v2).
TypeOK == adj \in [Elem -> SUBSET Elem] /\ \A x \in Elem : x \notin adj[x]

\* The graph is a disjoint union of cliques: edges go both ways, and two
\* neighbours of an element are neighbours of one another.  It is what lets
\* existEdge, isConnected and updateVerticeUfs look at one edge or
\* one list instead of searching the graph.
Cliques ==
    /\ \A x, y \in Elem : y \in adj[x] => x \in adj[y]
    /\ \A x, y, z \in Elem : y \in adj[x] /\ z \in adj[y] /\ x # z => z \in adj[x]

\* The classes that are read off the lists of a graph g: every element and its
\* adjacency list.
ClassesOf(g) == {g[x] \cup {x} : x \in Elem}

Partition == INSTANCE UfsPartition WITH classes <- ClassesOf(adj)

\* Read as classes, the graph does what UNION and SPLIT promise.
ImplementsPartition == Partition!Spec

\* In every state, the classes after a union or a split of given elements
\* (unionProc, splitProc) are the ones UfsPartition gives for these elements:
\* the right classes are merged or divided, and nothing is done exactly when
\* nothing is promised, also for arguments that no longer lie in one class.
CommandsOnClasses ==
    \A X \in (SUBSET Elem) \ {{}} :
        /\ ClassesOf(SplitProc(X)) = Partition!Divided(X)
        /\ \A a, b \in X : ClassesOf(UnionProc(a, b, X)) = Partition!AfterUnion(a, b, X)

\* The union of two lists that checkUnionArgv accepts merges all the classes
\* they meet: the test of unionProc, which looks at the first elements only,
\* hides nothing from a command that was checked against this graph.
CheckedUnions ==
    \A X, Y \in SUBSET Elem : Connected(X) /\ Connected(Y) =>
        \A a \in X, b \in Y : ClassesOf(UnionProc(a, b, X \cup Y)) = Partition!Merged(X \cup Y)
=============================================================================
