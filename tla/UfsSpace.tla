------------------------------ MODULE UfsSpace ------------------------------
(***************************************************************************)
(* The 2D state space of one client and one key (list of vertice), as a    *)
(* sequence of vertices; a pointer to a vertex is its position, the root   *)
(* is 1.  A vertex holds its content and at most two edges: ledge, an      *)
(* operation of the client, and redge, an operation of another client.     *)
(* The context of a vertex, "init,1_1,2_1", is the set of the identifiers  *)
(* on any path to it; the identifier "1_3" is the pair <<client 1, 3>>.    *)
(***************************************************************************)
EXTENDS UfsOps

CONSTANTS
    Radix       \* the base itos writes operation numbers in (10 in the code)

NoEdge == [op |-> SplitOp(<<STAR>>), oid |-> <<>>, adjv |-> 0]

Edge(op, oid, v) == [op |-> op, oid |-> oid, adjv |-> v]

Vertice(content) == [content |-> content, ledge |-> NoEdge, redge |-> NoEdge]

HasEdge(e) == e.adjv # 0

(***************************************************************************)
(* Identifiers as text.                                                    *)
(***************************************************************************)
\* itos: the number of digits of n > 0.
Digits(n) == CHOOSE d \in 1 .. n : Radix ^ (d - 1) <= n /\ n < Radix ^ d

\* The digits of m begin the digits of n.
DigitsPrefix(m, n) == \E k \in 0 .. n : n \div Radix ^ k = m

\* sdslen of a context, up to the part that depends on the port alone.
CtxLen(ctx) == MapThenSumSet(LAMBDA oid : 3 + Digits(oid[2]), ctx)

\* findOid looks for ",oid" in the text of the context: an identifier that
\* begins another one is found as well.
FindOid(ctx, oid) ==
    \E o \in ctx : o[1] = oid[1] /\ DigitsPrefix(oid[2], o[2])

(***************************************************************************)
(* Walks.                                                                  *)
(***************************************************************************)
\* The edge locateLVertice and calculateOids follow: ledge first.
FirstEdge(v) == IF HasEdge(v.ledge) THEN v.ledge ELSE v.redge

\* Mutant of LocateLVertice: only ledges are followed.
LocateLVerticeLedge(space) ==
    LET walk[v \in 1 .. Len(space)] ==
            IF HasEdge(space[v].ledge) THEN walk[space[v].ledge.adjv] ELSE v
    IN  walk[1]

\* locateLVertice: the vertex without edges that the walk from v ends in.
LocateLVertice(space) ==
    LET walk[v \in 1 .. Len(space)] ==
            LET e == FirstEdge(space[v]) IN IF HasEdge(e) THEN walk[e.adjv] ELSE v
    IN  walk[1]

\* calculateOids: the identifiers on the same walk.
CalculateOids(space) ==
    LET walk[v \in 1 .. Len(space)] ==
            LET e == FirstEdge(space[v])
            IN  IF HasEdge(e) THEN {e.oid} \cup walk[e.adjv] ELSE {}
    IN  walk[1]

\* locateRVertice: from the root along the edges found in the context until
\* the two texts are equally long; 0 (NULL) when they then differ, or when
\* there is no edge to follow.
LocateRVertice(space, ctx) ==
    LET oids == {space[v].ledge.oid : v \in 1 .. Len(space)}
                    \cup {space[v].redge.oid : v \in 1 .. Len(space)}
        found(e) == HasEdge(e) /\ FindOid(ctx, e.oid)
        walk[v \in 1 .. Len(space), t \in SUBSET oids] ==
            LET l == space[v].ledge
                r == space[v].redge
            IN  IF CtxLen(t) = CtxLen(ctx) THEN IF t = ctx THEN v ELSE 0
                ELSE IF found(l) THEN walk[l.adjv, t \cup {l.oid}]
                ELSE IF found(r) THEN walk[r.adjv, t \cup {r.oid}]
                ELSE 0
    IN  walk[1, {}]

(***************************************************************************)
(* The transformation of a new edge along a chain of edges: controlAlg's   *)
(* loop.  At the client the new edge is a redge and the chain is made of   *)
(* ledges, at the server the other way round.                              *)
(***************************************************************************)
\* The square of the edges along and new of u: p is where new leads, ops are
\* the two operations transformed against one another.
Square(space, u, p, along, new, ops) ==
    LET ua == space[u][along].adjv
        pa == Len(space) + 1
    IN  [space |-> Append([space EXCEPT
                              ![p][along] = Edge(ops[1], space[u][along].oid, pa),
                              ![ua][new]  = Edge(ops[2], space[u][new].oid, pa)],
                          Vertice(FromState(space[ua].content, ops[2]))),
         u    |-> ua,
         p    |-> pa]

\* One round of the loop, at the vertex st.u, whose edges along and new are set.
TransformStep(st, along, new) ==
    LET v == st.space[st.u]
    IN  Square(st.space, st.u, st.p, along, new,
               OtUfs(v.content, v[along].op, v[new].op))

\* The identifiers on the chain of edges that starts at u.
Chain(space, u, along) ==
    LET chain[v \in 1 .. Len(space)] ==
            LET e == space[v][along]
            IN  IF HasEdge(e) THEN <<e.oid>> \o chain[e.adjv] ELSE <<>>
    IN  chain[u]

\* The new edge op is put at u and carried to the end of the chain.
Transform(space, u, op, oid, along, new) ==
    LET v == Len(space) + 1
    IN  FoldLeft(LAMBDA st, o : TransformStep(st, along, new),
                 [space |-> Append([space EXCEPT ![u][new] = Edge(op, oid, v)],
                                   Vertice(FromState(space[u].content, op))),
                  u |-> u,
                  p |-> v],
                 Chain(space, u, along))

\* An operation at the last vertex, by the edge side.
AppendLast(space, side, op, oid, content) ==
    Append([space EXCEPT ![LocateLVertice(space)][side] = Edge(op, oid, Len(space) + 1)],
           Vertice(content))
=============================================================================
