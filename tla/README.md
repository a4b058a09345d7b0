# Verification of UfsRedis

UfsRedis is Redis 4.0 with a new data type, the union-find set, and with a
replication that lets slaves write. This directory holds TLA+ modules that model
the new type and the protocol that keeps its replicas equal, the TLC runs that
check them, and TLAPS proofs.

## The system

A *union-find set* is a partition of a fixed set of named elements.
`uinit key a,b/c` creates one, `union x y key` merges the classes of its
arguments, `split x key` takes its argument out of its class; an argument is one
name or a comma separated list. `find` and `umembers` read.

A *Client* (a Redis slave) executes the commands of its own users at once and
sends them to the *Server* (the master). Concurrent commands are reconciled by
operational transformation in the style of Jupiter: each Client keeps one *2D
state space* per key, the Server keeps one per Client and key.

| part | source | state | operations |
|---|---|---|---|
| graph | `ufs.c` | `cudGraph`: elements `dlist`, one adjacency list each | `createEdge`, `createLinks`, `removeAdjEdge`, `unionProc`, `splitProc`, `updateVerticeUfs`, `checkArgv` |
| transformation | `ot.c` | none | `otUfs`, `cpltClass`, `sdsDel`, `firstOfsdsDel`, `findstr` |
| 2D state space | `ot.c` | vertices with a content (text of the classes), an edge `ledge` (an operation of this Client) and an edge `redge` (one of the others) | `locateLVertice`, `locateRVertice`, `calculateOids`, `createOpEdge` |
| control algorithm | `ufs.c` | `op_num`, the spaces, the graph | `controlAlg`: local, remote and server processing |
| key life cycle | `ufs.c` | `server.ufslist`, `cspacelist`, `sspacelist` | `uinitCommand` |
| queries | `ufs.c` | none | `findCommand`, `umembersCommand`, `quickSort` |
| propagation | `server.c` | none | `call`, `propagate`, `propagateToMaster`, `propagateExSlave` |
| replication links | `replication.c` | output buffers, backlog, offsets, cached master | `replicationFeedSlaves`, `replicationFeedExSlave`, `replicationFeedMaster`, PSYNC |
| output to slaves | `networking.c` | the flag `CLIENT_UNDER_FEED` | `prepareClientToWrite`, changed to refuse a slave that is not being fed (line 158); `prepareServerToWrite` (line 188) was added and is called nowhere |
| the rest of Redis | `db.c`, `rdb.c`, `aof.c`, ... | that of Redis 4.0 | they do not touch the new type |

A command is executed as a whole between two turns of the event loop, so one
command is one step of the models (except in `UfsLinks`, which looks inside one
function).

## Modules

| module | models | in terms of |
|---|---|---|
| `UfsOps` | the pure operations of `ufs.c` and `ot.c` | sequences of names; no variables |
| `UfsLinks` | the loops of `createLinks`, step by step | adjacency lists, the cursors `p` and `q` |
| `UfsGraph` | one server's graph under local (checked) and remote (unchecked) commands | `graph`, `up` |
| `UfsAdj` | the same with lists read as sets | `adj` |
| `UfsPartition` | what UNION and SPLIT promise: the abstract specification | `classes` |
| `UfsSpace` | 2D state spaces | sequences of vertices; no variables |
| `UfsControl` | Clients, Server and links running `controlAlg` on one key | `graph`, `cspace`, `sspace`, `op_num`, `toServer`, `toClient` |
| `UfsAdjProofs` | proofs about `UfsAdj` | |
| `MC...` | the finite instances | |

The three levels of the graph are tied together command by command, through
`INSTANCE ... WITH` mappings. `CommandsAsSets` compares what a command with given
arguments makes of the lists of `UfsGraph` with what the operation of `UfsAdj`
with the same arguments makes of the sets; `CommandsOnClasses` does the same
between `UfsAdj` and `UfsPartition`. Both are invariants over all commands, not
properties of steps: a step that changes nothing is compared as well, so a command
that is skipped where it should not be, or executed on other elements than its
own, violates them. `ImplementsPartition` is the refinement of the specifications.

### How the data are represented

* A name is a model value, and `NameLen` gives its number of characters, which
  the code compares in `cpltClass` and `updateVerticeUfsFromState`. A list is a
  sequence of names; `"*"`, which `otUfs` writes for "nothing left to unite", is
  `<<STAR>>`.
* A content `a,b/c` is a sequence of lists. The order is kept: `cpltClass` takes
  its representative from it, and Client and Server write it in different orders.
* A content that the code would compute by reading `elements[-1]` is `Garbage`,
  which is no partition of the elements.
* An identifier `1_3` is the pair of a client and a number. A context
  `init,1_1,2_1` is a set of them. The text matters in two places and is modelled
  there: `findOid` finds an identifier also as a prefix of a longer one, and
  `locateRVertice` stops when two texts are equally long. `Radix` is the base
  that `itos` writes in; the runs use 2 so that 1 is a prefix of 2 (`10`).
* A pointer to a vertex is its position in the list of its space, NULL is 0.

### UfsGraph, UfsAdj and UfsPartition

`unionProc` looks at one edge, the one between the first elements of its two
arguments, and with a list among them does nothing when it is there (`ufs.c:462`,
`474`, `488`). A union at the set level therefore has the first elements `a` and
`b` as parameters beside the set `X` of all the elements named. While each argument
lies in one class, which `checkArgv` demands of a local command, the test changes
nothing (`CheckedUnions`, `AcceptedCommands`). A remote command is not checked:
with an argument `a,b` that has been split since, `union a,b c` does nothing when
`a` and `c` are together, and leaves `b` apart. `UfsPartition` states this as part
of what a union does.

| action of `UfsGraph` | code | what it does |
|---|---|---|
| `LocalCommand(op)` | `controlAlg`, normal client | `checkArgv` accepts `op`, which is executed; a rejected command changes nothing |
| `LocalUndefined(op)` | `checkArgv` | a list begins with a name that is no element: `isConnected` is asked before `existElements`, so `existEdge` reads `dlist[-1]`; the server goes down or rejects the command |
| `RemoteCommand(op)` | `controlAlg`, client is the master | `op` is executed without a check |

An unknown name further down a list has no edge from the first one, so
`isConnected` rejects the list. A server that has gone down stays down, so deadlock
is not checked in the run.

### UfsControl

| action | code | what it does |
|---|---|---|
| `LocalProcessing(c, op)` | `controlAlg`, slave, normal client | `checkArgv`; new identifier; `ledge` at the last vertex; execution on the graph; content from the graph; `call` sends `op`, identifier and context to the master unless the slave is read only |
| `ServerProcessing(c)` | `controlAlg`, master | finds the vertex of the context in the space of `c`, puts a `ledge` there and transforms it along the chain of `redge`s; appends the result to the space of every other Client and sends it to them with the longer context |
| `RemoteProcessing(c)` | `controlAlg`, slave, client is the master | the same with `redge` and `ledge` exchanged; the last transformed operation is executed on the graph; `call` sends nothing on |

The Server executes nothing on a graph, so it has no graph variable. A link is a
FIFO queue in each direction: the replication connection while it is up. The
initial states are those after `uinit` has reached every process, which is how the
repository's own driver (`MyTest/exe.c`) starts. If a context has no vertex the
code follows a NULL pointer; there the action is disabled, and `CommandPlaced`
says that it does not happen.

Fairness: each event loop takes commands off its links as long as it can place
them (`ServerServes`, `ClientServes`, weakly fair). Only `ServerProcessing` and
`RemoteProcessing` take a command off a link, so this is weak fairness of these
actions, written so that TLC evaluates no transformation under ENABLED. Nothing
is assumed of the users. In `UfsLinks` the loops are weakly fair because a call
runs to its end.

## Runs

| run | instance | checks | shows |
|---|---|---|---|
| `adj` | 6 elements, all partitions, all arguments | `TypeOK`, `Cliques`, `CommandsOnClasses`, `CheckedUnions`, `ImplementsPartition` | the graph stays a union of cliques, and every command does to the classes what its arguments say |
| `links` | 4 elements, all sequences of calls and single splits | `TypeOK`, `LinksComputed`, `CursorsOnLists`, `Returns` | the loops of `createLinks` end, and compute what the operator `CreateLinks` says, order included |
| `graph` | 4 elements, arguments of at most two names, one unknown name | `TypeOK`, `ContentOfGraph`, `CommandsAsSets`, `AcceptedCommands` | a command on the lists is the set level operation with the same arguments, also when they are stale; an accepted command does what it promises; the content written from a graph is right |
| `control_commands` | 2 clients, 1 operation each, 4 elements, every single-name command with `union x x` and `union * x` | `ContentsArePartitions`, `Converged` | every pair of commands is reconciled |
| `control_two_ops` | 2 clients, 2 operations each, 3 elements | `TypeOK`, `CommandPlaced`, `GraphMatchesSpace`, `SameContextSameClasses`, `SpacesGrow` | chains of transformations, contexts with prefixes |
| `control_three_clients` | 3 clients, 1 operation each, 3 elements | `SameContextSameClasses`, `Converged` | an operation transformed against both others at the Server, or against one at the Server and against the third at the Client that issued the third |
| `control_delivery` | 2 clients, 2 operations each, 2 commands | `EventuallyExecuted` | everything executed reaches everyone |
| `control_lists` | a list argument | `Converged` (violated) | finding 1 |
| `control_read_only` | `slave-read-only yes` | `EventuallyExecuted` (violated) | finding 2 |

What the properties say:

* `SameContextSameClasses` is the heart: two vertices that the same operations
  lead to, in any two spaces of any two processes, have the same classes, whatever
  the order of the operations and whatever representatives were chosen on the way.
* `GraphMatchesSpace`: a Client keeps its set twice, as a graph that operations
  edit and as a text that `updateVerticeUfsFromState` rewrites; they agree. With
  the previous property it gives `Converged`: with nothing on the links all the
  Clients have the same set.
* `CommandsAsSets`, `CommandsOnClasses`: in every reachable graph, for every
  command, the effect is that of the next level for the same arguments.
* `AcceptedCommands`, `CheckedUnions`: a union that `checkArgv` accepts merges all
  the classes its arguments meet, although `unionProc` tests one edge; an accepted
  split leaves its argument as a class.
* `CommandPlaced`: the vertex of the next command exists and its edge is free.
* `SpacesGrow`: edges are assigned without a test, and none is overwritten.
* `ContentsArePartitions`: every content lists every element once. The code
  relies on it: `len_ufs`, the length of the first content, is used for all.

Bounds. Two operations per client make chains of two transformations in either
direction; three clients make the Server transform against two others. With one
operation each, an operation transformed against both others at the Server is not
transformed again at a Client. Three
elements let a class have a rest of one or two elements when one is split off, and
a second class to unite with; four are used where every command is tried. The
runs with several operations have one union for each pair of three elements and
one split for each element, and clients are symmetric; the delivery run, which
checks a temporal property and uses no symmetry, has one union and one split. The protocol runs stop when every client has used its operations, so
deadlock is not checked there.

Every property of a passing run has a mutant, a plausible error in the code that
TLC finds with it; the mutants stand before the definitions they replace.

### Findings

1. *Lists diverge* (`control_lists`). `otUfs` compares a single name with the
   whole argument of a concurrent split as strings (`ot.c:546`). From `a,b,d/c`,
   `union a c` and `split a,b` are left as they are; in one order the result is
   `a,b,c/d`, in the other `a,b/c,d`. The repository's README documents both
   commands with `member(s)` and promises eventual consistency (line 290). Its
   generators only produce single names, for which the runs above find no
   divergence.
2. *The shipped configuration sends nothing* (`control_read_only`). `call` reaches
   `propagateToMaster` only when `repl_slave_ro` is 0, but `redis.conf:317` and
   the default say yes. `union` and `split` are not write commands, so a read only
   Client accepts and executes them, for itself alone. The deployment steps of the
   repository's README do not mention the option.

## Proofs

`UfsAdjProofs`, for every set of elements (`Elem` has no assumption, it may be
infinite):

* `TypeCorrect`: `Spec => []TypeOK`;
* `CliquesInvariant`: `Spec => []Cliques`;
* `EveryCommand`: `Spec => []CommandsOnClasses`, every command, with any arguments,
  does to the classes what `UfsPartition` says for these arguments;
* `AcceptedUnion`: `Spec => []CheckedUnions`, a union of lists that `isConnected`
  accepts merges all the classes they meet;
* `Refinement`: `Spec => Partition!Spec`.

The inductive invariant is `IInv == TypeOK /\ Cliques`. Transitivity of the edges
is needed for a union to keep it: lemma `NearClosed` says that the elements near
the arguments are closed under edges, so linking them pair by pair makes one
clique and touches no other. Symmetry is needed for a split. `IInv` implies
`CommandsOnClasses`: `LinkedTogether` turns the test of one edge into the question
whether two elements are in one class, `MergedClasses` and `SplitClasses` compute
the classes afterwards. For the refinement, `ClassesPartition` gives the initial
states and the same lemmas the steps. `AcceptedUnion` adds that a list within one
class meets only that class (`ConnectedMeetsOne`).

Only model-checked: everything about `UfsLinks`, `UfsGraph` and `UfsControl`,
and all liveness (out of the prover's reach under fairness). What the recursive
walks and folds compute for every input is out of reach as well, as it needs
induction over data.

## Not modelled

* Loss of the link, reconnection, PSYNC, backlog and offsets (planned).
* Several keys: they share `op_num` and nothing else.
* `find`, `umembers` (planned).
* Attaching slaves, late, repeated and concurrent `uinit`, commands of normal
  users at the Server (planned).
* The OT_SPLIT half of `otUfs`: both callers pass OT_UNION.
* `union` and `split` with too few or too many arguments: their arity in the
  command table is -1, so the command table rejects no count.
* What happens after a read of `dlist[-1]`, other than that the server rejects the
  command or goes down.
* `CLIENT_UNDER_FEED`: both feeds set it before they skip a slave, which then keeps
  it until it is fed.
* The option `ufsfile` of `config.c`: it is accepted and ignored, its code is
  commented out.
* Memory management, logging, replies, AOF, and the unchanged rest of Redis.

## Plan

1. `UfsLifecycle`: `uinit` at any process, at any time, slaves attaching; what the
   README says of an existing key; commands at the Server. Runs with two processes
   and one key.
2. `UfsQueries`: `quickSort` as a step machine against a reference, the replies of
   `find` and `umembers`, the key with a single element.
3. `UfsReplication`: output buffers, the two feeds, offsets, backlog, PSYNC, cached
   master; an abstract ordered broadcast that `UfsControl`'s links implement, and
   that the replication implements while the link is up.
4. An abstract specification of the protocol (every operation once at every
   client, own operations in order), with `UfsControl` shown to implement it.
5. Proofs: the transformation property of a union and a split at the level of
   partitions, for any choice of representatives; the order of identifiers on the
   links; the composition of the refinements of the graph.
