SPECIFICATION Spec
CONSTANT Elem = {e1, e2, e3, e4, e5, e6}
INVARIANT TypeOK
INVARIANT Cliques
INVARIANT CommandsOnClasses
INVARIANT CheckedUnions
PROPERTY ImplementsPartition
