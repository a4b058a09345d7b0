---------------------------- MODULE UfsAdjProofs ----------------------------
(***************************************************************************)
(* Proofs about UfsAdj, for every set of elements: the graph stays a       *)
(* disjoint union of cliques, and it implements UfsPartition.              *)
(***************************************************************************)
EXTENDS UfsAdj, TLAPS

\* The class that updateVerticeUfs and findCommand read off one list.
Class(x) == adj[x] \cup {x}

\* The inductive invariant: no conjunct of it is inductive alone, as Union
\* closes Near(X), which is a union of cliques only if the graph is one.
IInv == TypeOK /\ Cliques

-----------------------------------------------------------------------------
\* uinitCommand starts with cliques.
LEMMA InitIInv == Init => IInv
<1> SUFFICES ASSUME Init PROVE IInv
  OBVIOUS
<1>1. PICK class \in [Elem -> Elem] :
         adj = [x \in Elem |-> {y \in Elem \ {x} : class[y] = class[x]}]
  BY DEF Init
<1>2. TypeOK
  BY <1>1 DEF TypeOK
<1>3. Cliques
  BY <1>1 DEF Cliques
<1> QED
  BY <1>2, <1>3 DEF IInv

\* In a union of cliques the elements near X are closed: whatever is linked
\* with one of them is one of them.
LEMMA NearClosed ==
    ASSUME IInv, NEW X \in SUBSET Elem
    PROVE  /\ Near(X) \subseteq Elem
           /\ \A x \in Near(X) : adj[x] \subseteq Near(X)
           /\ \A x \in Elem \ Near(X) : adj[x] \cap Near(X) = {}
           /\ \A x \in Elem : x \in Near(X) <=> Class(x) \cap X # {}
<1>1. Near(X) \subseteq Elem
  BY DEF IInv, TypeOK, Near
<1>2. \A x \in Near(X) : adj[x] \subseteq Near(X)
  <2> SUFFICES ASSUME NEW x \in Near(X), NEW y \in adj[x]
               PROVE  y \in Near(X)
    OBVIOUS
  <2>1. CASE x \in X
    BY <2>1 DEF Near
  <2>2. CASE x \notin X
    <3>1. PICK z \in X : x \in adj[z]
      BY <2>2 DEF Near
    <3>2. y = z \/ y \in adj[z]
      BY <3>1, <1>1 DEF IInv, TypeOK, Cliques
    <3> QED
      BY <3>1, <3>2 DEF Near
  <2> QED
    BY <2>1, <2>2
<1>3. \A x \in Elem \ Near(X) : adj[x] \cap Near(X) = {}
  BY <1>1, <1>2 DEF IInv, TypeOK, Cliques
<1>4. \A x \in Elem : x \in Near(X) <=> Class(x) \cap X # {}
  <2> SUFFICES ASSUME NEW x \in Elem
               PROVE  x \in Near(X) <=> \E z \in X : z \in Class(x)
    OBVIOUS
  <2>1. \A z \in X : z \in Class(x) <=> x \in Class(z)
    BY DEF IInv, TypeOK, Cliques, Class
  <2>2. x \in Near(X) <=> \E z \in X : x \in Class(z)
    BY DEF Near, Class
  <2> QED
    BY <2>1, <2>2
<1> QED
  BY <1>1, <1>2, <1>3, <1>4

\* In a union of cliques two different elements are linked exactly when they
\* are in one class.
LEMMA LinkedTogether ==
    ASSUME IInv, NEW a \in Elem, NEW b \in Elem
    PROVE  b \in adj[a] <=> Partition!Together(a, b)
<1>1. b \in adj[a] => a # b /\ a \in Class(a) /\ b \in Class(a)
  BY DEF IInv, TypeOK, Class
<1>2. \A x \in Elem : a \in Class(x) /\ b \in Class(x) /\ a # b => b \in adj[a]
  BY DEF IInv, TypeOK, Cliques, Class
<1> QED
  BY <1>1, <1>2 DEF Partition!Together, ClassesOf, Class

\* unionProc keeps the cliques.
LEMMA UnionIInv ==
    ASSUME IInv, NEW X \in SUBSET Elem, NEW a \in X, NEW b \in X, Union(a, b, X)
    PROVE  IInv'
<1>1. CASE b \in adj[a]
  BY <1>1 DEF Union, UnionProc, IInv, TypeOK, Cliques
<1>2. CASE b \notin adj[a]
  <2>1. \A x \in Near(X) : adj'[x] = Near(X) \ {x}
    BY <1>2, NearClosed DEF Union, UnionProc, IInv, TypeOK
  <2>2. \A x \in Elem \ Near(X) : adj'[x] = adj[x]
    BY <1>2 DEF Union, UnionProc
  <2>3. TypeOK'
    BY <1>2, NearClosed DEF Union, UnionProc, IInv, TypeOK
  <2>4. Cliques'
    BY <2>1, <2>2, NearClosed DEF IInv, Cliques
  <2> QED
    BY <2>3, <2>4 DEF IInv
<1> QED
  BY <1>1, <1>2

\* splitProc keeps the cliques.
LEMMA SplitIInv == ASSUME IInv, NEW X \in SUBSET Elem, Split(X) PROVE IInv'
<1>1. TypeOK'
  BY DEF Split, SplitProc, IInv, TypeOK
<1>2. Cliques'
  BY DEF Split, SplitProc, IInv, TypeOK, Cliques
<1> QED
  BY <1>1, <1>2 DEF IInv

LEMMA NextIInv == IInv /\ [Next]_adj => IInv'
<1> SUFFICES ASSUME IInv, [Next]_adj PROVE IInv'
  OBVIOUS
<1>1. CASE Next
  BY <1>1, UnionIInv, SplitIInv DEF Next
<1>2. CASE UNCHANGED adj
  BY <1>2 DEF IInv, TypeOK, Cliques
<1> QED
  BY <1>1, <1>2

-----------------------------------------------------------------------------
\* Whatever unions and splits are executed, on whatever elements, every
\* adjacency list is a list of other elements (createEdge, removeAdjEdge).
THEOREM TypeCorrect == Spec => []TypeOK
<1>1. IInv => TypeOK
  BY DEF IInv
<1> QED
  BY InitIInv, NextIInv, <1>1, PTL DEF Spec

\* Whatever unions and splits are executed, on whatever elements, the graph is
\* a disjoint union of cliques: existEdge and isConnected may decide on one
\* edge, updateVerticeUfs and findCommand may read one list.
THEOREM CliquesInvariant == Spec => []Cliques
<1>1. IInv => Cliques
  BY DEF IInv
<1> QED
  BY InitIInv, NextIInv, <1>1, PTL DEF Spec

-----------------------------------------------------------------------------
(***************************************************************************)
(* The classes after a command, and the refinement.                        *)
(***************************************************************************)
\* In a union of cliques the classes partition the elements.
LEMMA ClassesPartition == IInv => Partition!IsPartition(ClassesOf(adj))
<1> SUFFICES ASSUME IInv PROVE Partition!IsPartition(ClassesOf(adj))
  OBVIOUS
<1>1. ClassesOf(adj) = {Class(x) : x \in Elem}
  BY DEF ClassesOf, Class
<1>2. \A x \in Elem : Class(x) \subseteq Elem /\ x \in Class(x)
  BY DEF IInv, TypeOK, Class
<1>3. \A x, y, z \in Elem : z \in Class(x) /\ z \in Class(y) => Class(x) \subseteq Class(y)
  BY DEF IInv, TypeOK, Cliques, Class
<1>4. \A C, D \in ClassesOf(adj) : C # D => C \cap D = {}
  <2> SUFFICES ASSUME NEW x \in Elem, NEW y \in Elem, NEW z \in Class(x), z \in Class(y)
               PROVE  Class(x) = Class(y)
    BY <1>1
  <2> QED
    BY <1>2, <1>3
<1>5. UNION ClassesOf(adj) = Elem
  BY <1>1, <1>2
<1>6. {} \notin ClassesOf(adj) /\ ClassesOf(adj) \subseteq SUBSET Elem
  BY <1>1, <1>2
<1> QED
  BY <1>4, <1>5, <1>6 DEF Partition!IsPartition

\* Linking everything near X merges the classes that X meets.
LEMMA MergedClasses ==
    ASSUME IInv, NEW X \in SUBSET Elem, NEW a \in X, NEW b \in X, b \notin adj[a]
    PROVE  ClassesOf(UnionProc(a, b, X)) = Partition!Merged(X)
<1> DEFINE Apart == {Class(x) : x \in Elem \ Near(X)}
           g     == UnionProc(a, b, X)
<1>1. ClassesOf(adj) = {Class(x) : x \in Elem}
  BY DEF ClassesOf, Class
<1>2. Partition!Meeting(X) = {Class(x) : x \in Near(X)}
  BY <1>1, NearClosed DEF Partition!Meeting
<1>3. UNION Partition!Meeting(X) = Near(X)
  BY <1>2, NearClosed DEF Class
<1>4. ClassesOf(adj) \ Partition!Meeting(X) = Apart
  BY <1>1, NearClosed DEF Partition!Meeting
<1>5. ClassesOf(g) = Apart \cup {Near(X)}
  <2>1. \A x \in Elem : g[x] = IF x \in Near(X) THEN adj[x] \cup (Near(X) \ {x}) ELSE adj[x]
    BY DEF UnionProc
  <2>2. ClassesOf(g) = {g[x] \cup {x} : x \in Elem}
    BY DEF ClassesOf
  <2> HIDE DEF g
  <2>3. \A x \in Near(X) : g[x] \cup {x} = Near(X)
    <3>1. Near(X) \subseteq Elem /\ \A x \in Near(X) : adj[x] \subseteq Near(X)
      BY NearClosed
    <3> QED
      BY <2>1, <3>1
  <2>4. \A x \in Elem \ Near(X) : g[x] \cup {x} = Class(x)
    BY <2>1 DEF Class
  <2>5. a \in Near(X) /\ Near(X) \subseteq Elem
    BY NearClosed DEF Near
  <2>6. ClassesOf(g) \subseteq Apart \cup {Near(X)}
    BY <2>2, <2>3, <2>4
  <2>7. Near(X) \in ClassesOf(g)
    BY <2>2, <2>3, <2>5
  <2>8. Apart \subseteq ClassesOf(g)
    BY <2>2, <2>4
  <2> QED
    BY <2>6, <2>7, <2>8
<1> QED
  BY <1>3, <1>4, <1>5 DEF Partition!Merged

\* unionProc does to the classes what UfsPartition says for its arguments.
LEMMA UnionClasses ==
    ASSUME IInv, NEW X \in SUBSET Elem, NEW a \in X, NEW b \in X
    PROVE  ClassesOf(UnionProc(a, b, X)) = Partition!AfterUnion(a, b, X)
<1>1. CASE b \in adj[a]
  BY <1>1, LinkedTogether DEF UnionProc, Partition!AfterUnion
<1>2. CASE b \notin adj[a]
  BY <1>2, LinkedTogether, MergedClasses DEF Partition!AfterUnion
<1> QED
  BY <1>1, <1>2

\* splitProc does to the classes what UfsPartition says for its argument.
LEMMA SplitClasses ==
    ASSUME IInv, NEW X \in SUBSET Elem
    PROVE  ClassesOf(SplitProc(X)) = Partition!Divided(X)
<1> DEFINE New(x) == SplitProc(X)[x] \cup {x}
<1>1. ClassesOf(adj) = {Class(x) : x \in Elem}
  BY DEF ClassesOf, Class
<1>2. ClassesOf(SplitProc(X)) = {New(x) : x \in Elem}
  BY DEF ClassesOf
<1>3. \A x \in X : New(x) = Class(x) \cap X
  BY DEF SplitProc, Class
<1>4. \A x \in Elem \ X : New(x) = Class(x) \ X
  BY DEF SplitProc, Class
<1>5. \A x, y \in Elem : y \in Class(x) => Class(y) = Class(x)
  BY DEF IInv, TypeOK, Cliques, Class
<1>6. \A x \in Elem : x \in Class(x) /\ Class(x) \subseteq Elem
  BY DEF IInv, TypeOK, Class
<1> HIDE DEF New
<1> DEFINE Parts == ({C \ X : C \in ClassesOf(adj)} \cup {C \cap X : C \in ClassesOf(adj)}) \ {{}}
<1>7. ClassesOf(SplitProc(X)) \subseteq Parts
  BY <1>1, <1>2, <1>3, <1>4, <1>6
<1>8. Parts \subseteq ClassesOf(SplitProc(X))
  <2> SUFFICES ASSUME NEW P \in Parts PROVE P \in ClassesOf(SplitProc(X))
    OBVIOUS
  <2>1. PICK x \in Elem : P = Class(x) \ X \/ P = Class(x) \cap X
    BY <1>1
  <2>2. PICK y \in P : TRUE
    OBVIOUS
  <2>3. y \in Elem /\ Class(y) = Class(x)
    BY <2>1, <2>2, <1>5, <1>6
  <2>4. P = New(y)
    BY <2>1, <2>2, <2>3, <1>3, <1>4
  <2> QED
    BY <2>3, <2>4, <1>2
<1> QED
  BY <1>7, <1>8 DEF Partition!Divided

LEMMA InvCommands == IInv => CommandsOnClasses
  BY UnionClasses, SplitClasses DEF CommandsOnClasses

\* In every reachable graph, unionProc and splitProc change the classes as
\* UfsPartition says for the elements they are given, stale arguments included.
THEOREM EveryCommand == Spec => []CommandsOnClasses
  BY InitIInv, NextIInv, InvCommands, PTL DEF Spec

\* Whatever unions and splits are executed, on whatever elements, the classes
\* read off the adjacency lists are a behaviour of UfsPartition.
THEOREM Refinement == Spec => ImplementsPartition
<1>1. Init => Partition!Init
  BY InitIInv, ClassesPartition DEF Partition!Init
<1>2. IInv /\ [Next]_adj => [Partition!Next]_(ClassesOf(adj))
  <2> SUFFICES ASSUME IInv, [Next]_adj PROVE [Partition!Next]_(ClassesOf(adj))
    OBVIOUS
  <2>1. \A g : adj' = g => ClassesOf(adj)' = ClassesOf(g)
    BY DEF ClassesOf
  <2>2. ASSUME NEW X \in (SUBSET Elem) \ {{}}, Split(X)
        PROVE  Partition!Split(X)
    BY <2>1, <2>2, SplitClasses DEF Split, Partition!Split
  <2>3. ASSUME NEW X \in (SUBSET Elem) \ {{}}, NEW a \in X, NEW b \in X, Union(a, b, X)
        PROVE  Partition!Union(a, b, X)
    BY <2>1, <2>3, UnionClasses DEF Union, Partition!Union
  <2>4. CASE Next
    BY <2>2, <2>3, <2>4 DEF Next, Partition!Next
  <2>5. CASE UNCHANGED adj
    BY <2>5 DEF ClassesOf
  <2> QED
    BY <2>4, <2>5
<1> QED
  BY InitIInv, NextIInv, <1>1, <1>2, PTL DEF Spec, ImplementsPartition, Partition!Spec

-----------------------------------------------------------------------------
\* A list that lies in one class meets only that class.
LEMMA ConnectedMeetsOne ==
    ASSUME IInv, NEW X \in SUBSET Elem, Connected(X), NEW a \in X
    PROVE  \A x \in Elem : Class(x) \cap X # {} => Class(x) = Class(a)
<1>1. \A x, y \in Elem : y \in Class(x) => Class(y) = Class(x)
  BY DEF IInv, TypeOK, Cliques, Class
<1>2. \A z \in X : z \in Class(a)
  BY DEF Connected, Class
<1> QED
  BY <1>1, <1>2

\* Whatever was executed before, an accepted union merges all the classes its
\* arguments meet.
THEOREM AcceptedUnion == Spec => []CheckedUnions
<1>1. IInv => CheckedUnions
  <2> SUFFICES ASSUME IInv, NEW X \in SUBSET Elem, NEW Y \in SUBSET Elem,
                      Connected(X), Connected(Y), NEW a \in X, NEW b \in Y
               PROVE  ClassesOf(UnionProc(a, b, X \cup Y)) = Partition!Merged(X \cup Y)
    BY DEF CheckedUnions
  <2>1. CASE b \notin adj[a]
    BY <2>1, MergedClasses
  <2>2. CASE b \in adj[a]
    <3>1. Class(a) = Class(b)
      BY <2>2 DEF IInv, TypeOK, Cliques, Class
    <3>2. \A x \in Elem : Class(x) \cap (X \cup Y) # {} => Class(x) = Class(a)
      BY <3>1, ConnectedMeetsOne
    <3>3. ClassesOf(adj) = {Class(x) : x \in Elem}
      BY DEF ClassesOf, Class
    <3>4. a \in Class(a)
      BY DEF Class
    <3>5. Partition!Meeting(X \cup Y) = {Class(a)}
      BY <3>2, <3>3, <3>4 DEF Partition!Meeting
    <3>6. Class(a) \in ClassesOf(adj) /\ UNION {Class(a)} = Class(a)
      BY <3>3
    <3>7. Partition!Merged(X \cup Y) = ClassesOf(adj)
      BY <3>5, <3>6 DEF Partition!Merged
    <3> QED
      BY <2>2, <3>7 DEF UnionProc
  <2> QED
    BY <2>1, <2>2
<1> QED
  BY InitIInv, NextIInv, <1>1, PTL DEF Spec
=============================================================================
