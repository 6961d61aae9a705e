# TreeP: a verification development

TreeP is a small programming language: a compiler (`src/compiler`) translates
`.trp` sources to C, and a runtime (`src/trp`, `src/trpthread` and a library of
bindings) executes them. This directory holds TLA+ models of the parts of the
runtime whose correctness is hard to test, the TLC configurations that check
them on small instances, and theorems about them checked by TLAPS.

## 1. The system

| Component | State | Operations | Interacts with |
|---|---|---|---|
| Threads and mailboxes, `src/trpthread/trpthread.c` | per thread: `mutex`, `cond`, `stato`, `msgq`, `mitt`, `msg`, `msg_mitt`; the queue of threads `_trp_thread_q` with its mutex, `_trp_thread_max` | thread-create, send, sendnb, sendbuf, receive, receivenb, thread-case, termination, register / unregister of foreign threads, join, list, max | every program with more than one thread; the collector; the SDL and HTTP bindings register their callback threads |
| AVL trees, sets, associative arrays, `src/trp/avl_tree.c`, `trp_t_set.c`, `trp_t_assoc.c` | a balanced tree ordered by `trp_less` / `trp_equal`; child and parent pointers, balance factors; the length | insert, remove, lookup, cat, intersection, difference; assoc-set, -inc, -clr | relations |
| Arrays and sorts, `src/trp/trp_t_array.c` | a block, its length and increment | insert, remove, set, sub, three sorts | children of trees; thread-case sorts its alternatives with it |
| Queues, stacks, lists, `src/trp/trp_t_queue.c`, ... | chained cells, first, last and a length | put, get, swap; push, pop; cons, cat, reverse, sub | mailboxes, environment stack, for loops |
| Directed graphs, `src/trp/trp_t_dgraph.c` | nodes, links both ways, counters | node, set-name, link, link-acyclic, detach, searches | library nets (`common-dgraph.tin`), `trpvid` |
| Trees, `src/trp/trp_t_tree.c` | value, parent, array of children | tree, insert, detach, replace, swap, walks | arrays |
| Fibonacci heaps, `src/trp/trp_t_fibo.c` | circular lists of roots and children, marks, degrees, minimum | insert, extract, decrease, set-key, delete, merge | Dijkstra in `common-dgraph.tin` |
| Environment stack, alternatives, for loops, `src/trp/trp_support.c` | per thread: one flat stack of saved variables; per loop: what is left to visit | push, pop, drop; init, next, break | code the compiler emits for `alt`, `opt`, `opt*`, `for` |
| Dates, `src/trp/trp_t_date.c` | immutable | to days and back, difference, increment, timezone | numbers |
| Numbers, strings, raw, files | immutable or buffered data | conversions and arithmetic | GMP, cord, C library |
| Relations and functions, `src/trp/trp_relations.c`, `trp_functions.c` | none | dispatch on the type of the first argument | all types |
| Compiler, `src/compiler` | symbol tables | translation | the runtime through the code it emits |
| Bindings (`trpsdl`, `trpmicrohttpd`, `trpgtk`, ...) | handles | thin calls | C libraries; some call back from foreign threads |
| Chess, `src/trpchess/trpchess.c` | the board square by square, side to move, castling rights, square in passing, clocks; counts of men and squares of kings; three cached answers; for the length of a call, the same position as four bitboards | next, pass, clone, two stored forms; legal moves, check, mates, kinds of moves, notation, search of a mate | lists (of moves), raws |
| Video, codecs, image code, vendored parsers | domain data | decoding | - |

Two kinds of difficulty are here. The first row has the concurrency: threads
are POSIX threads; they share no protocol object but each other. A message goes
either straight into the destination (when it sleeps and waits for this sender)
or into its mailbox; a sender may suspend until its message is taken; a
receiver names the senders it waits for; a terminating thread must wake whoever
waits for it and must not strand a message that comes too late. `stato` is read
and written partly with and partly without the mutex of its thread, signals are
sent after the mutex is released, and the waits are not in loops. The
containers below it are sequential, but they are pointer structures with
invariants spread over several fields (a parent, a degree and a mark; a link at
both its ends and in three counters; a balance factor and two heights; a stack
and what the generated code believes is on it; a chess board, its counts and its
bitboards), which long sequences of legal
calls must keep.

What makes each component correct:

* threads and mailboxes: no message lost, duplicated or overtaken; no wakeup
  lost or given to the wrong wait; results of calls that tell the truth; every
  mutex released on every path; whoever depends on a thread that terminates
  returns; the queue of threads exact;
* trees and AVL trees: parents and children agree, no cycle, order and balance
  kept by every rotation; sets and associative arrays are sets and maps;
* arrays, queues, stacks, lists: they are sequences; a block is as large as it
  must be, no cell has two owners, sorts sort;
* heaps: the minimum is the minimum, no node is lost, degrees match the
  structure and marks keep the trees large enough for the table of degrees;
* graphs: both ends of a link agree, counters and names are exact, the searches
  find what they claim, link_acyclic never lets a cycle in;
* environment stack: an alternative that fails leaves every variable as it was,
  and the stack holds what the open alternatives saved;
* for loops: they visit what their bounds name and end;
* dates: the arithmetic is that of the calendar;
* chess: the object changes as the laws of chess allow and in no other way, the
  moves it offers are the legal ones, and what it keeps beside the board agrees
  with the board.

## 2. Plan

Modules in the order of their importance.

| | Modules | State |
|---|---|---|
| 1 | `TrpThread`: the protocol of `trpthread.c` step by step | done |
| 2 | `TrpMailbox`, what it promises; `TrpThreadRefinement`: 1 implements it | done |
| 3 | `TrpThreadWake`, `TrpThreadProofs`, `TrpThreadWakeProofs`, `TrpThreadMailProofs`: theorems about 1 and 2 | every safety property of the runs proved, the refinement among them |
| 4 | `TrpFibo`, `TrpPriorityQueue`, `TrpFiboRefinement`: Fibonacci heaps and what they promise | done |
| 5 | `TrpDgraph`, `TrpDgraphSearch`, `TrpGraphProofs`: directed graphs, their searches, theorems | every property proved |
| 6 | `TrpTree`, `TrpContainerProofs`: trees, their walks, theorems | every property proved |
| 7 | `TrpAvl`, `TrpSet`, `TrpMap`: balanced trees, sets and associative arrays over them, what these promise | done |
| 8 | `TrpArray`, `TrpArraySorts`, `TrpContainerProofs`; `TrpLinked`, `TrpSequences`, `TrpLinkedProofs`: arrays and sorts; queues, stacks, lists, what they promise, theorems | every property proved but that of the sorts, the refinement of chains among them |
| 9 | `TrpEnv`, `TrpFor`, `TrpControlProofs`: alternatives and loops, with the code the compiler generates for them, theorems | every property proved |
| 10 | `TrpDate`, `TrpDateProofs`: calendar arithmetic, theorems | its property proved |
| 11 | `TrpChessBoard`, `TrpChess`, `TrpChessLaws`, `TrpChessRules`: the chess object, its bitboards, the laws it keeps to | done |
| 12 | several threads over one set of globals (`TrpEnv`), arrays of several dimensions, the comparison of a sort with side effects | left |

Threads, heaps, sets and maps, sequences and chess are each joined to their abstract
specification by a refinement; `TrpSet` works over an instance of `TrpAvl`; `TrpDgraphSearch` extends `TrpDgraph` and `TrpThreadWake` extends
`TrpThread`, so that the searches and the inductive invariant are checked in
the states of the modules they talk about. Modules with theorems reach no
RECURSIVE operator: reachability in `TrpDgraph` is stated with closed sets of
nodes, and the recursions of the searches are recursive functions.

## 3. Modules

### TrpThread

One thread structure per member of `Thread`. The fields `stato`, `msgq`, `mutex`
keep their names; `mitt` is the queue of awaited senders as a set (duplicates
and order make no difference: `trp_thread_exit` removes every occurrence);
`slot` is the pair `msg`, `msg_mitt`. `registry`, `len` and `max` are
`_trp_thread_q`, its length and `_trp_thread_max`. `pc` says where each thread
is; a step is the code between two points at which another thread can
interfere (the module's head says how the steps are cut). `accepted` and
`received` are history: how many messages of `s` thread `d` has accepted, and
the number of the last one it received. A message is its sender and that
number.

Correspondence: `Create` ... `CreateMax`, `StartRoutine`, `Register` are
`trp_thread_create`, `trp_thread_start_routine` and
`trp_thread_register_my_thread`; `SendCall` ... `SendRet` are
`trp_thread_send` with its three callers; `ReceiveCall`, `CaseCall` and `Recv*`
are `trp_thread_receive` and `trp_thread_case`, whose critical sections are the
same code written twice (a receive is a case of one alternative, receivenb adds
a default); `Exit*` are `trp_thread_exit`. The alternatives of a case are taken
as already sorted by priority.

Left out: a send to oneself and a receive with nobody to wait for, which return
before they touch shared state; thread-join, thread-stopped, thread-cur,
thread-max and thread-self, which only read; `trp_thread_init` and
`trp_thread_quit`. What thread-list shows enters as the threads a program can
name (`Known`): those that are registered, running or not yet. Where creations
may fail the program leaves alone a thread that only thread-list has shown it, as
`CreateUndo` frees it (see the hazards).

Relaxed memory: `stato` is the only field read without the lock its writers
hold. A store to it that other threads see late is the same as the store itself
done later, as no later access of the storing thread can be seen before the
lock operation that follows.

`MCTrpThread` gives the constants their values: the symmetry of the created
threads and the argument lists of thread-case.

### TrpMailbox and TrpThreadRefinement

`TrpMailbox` has one box per thread and no state, mutex or condition variable.
The refinement maps a message handed over directly to the head of the box, the
alternatives of a waiting receive to `want`, a sleeping sender to `waits` and
`stato` after the wait to `result`.

### TrpThreadWake and the proofs

`TrpThreadWake` defines the invariant of the protocol, `ProtocolInv`, in four
parts: `WakeInv` (a signal finds its wait), `RestInv` (a wait gets its signal),
`MailInv` (the way of a message) and `TellInv` (what a suspended sender is told);
`MCTrpThreadWake` joins it and the refinement to the constants of the runs. `TrpThreadProofs`,
`TrpThreadWakeProofs` and `TrpThreadMailProofs` hold the theorems, section 6.

### TrpFibo

Memory is a record of nodes and heaps; the operators `InsertLow`, `Link`,
`Settle`, `Consolidate`, `Promote`, `ExtractMin`, `Cut`, `CascadingCut`,
`Decrease`, `Joined` are the functions that change pointers, in the order the
code assigns them where the order matters (`PutRight` on a list of one). The
actions are fibo-insert, fibo-extract, fibo-decrease-key, fibo-delete,
fibo-set-key and fibo-merge. `overrun` records that consolidate used its table
of degrees beyond its end; what is read there is taken to be NULL, the mildest
of the outcomes the build can have.

What varies is the program. `Ops` are the operations it uses. A node out of
every heap may be given a key: the right use is "detached"; with "trusting" the
program also gives a key to a node that is in a heap but no longer says so. A
`Monotone` program never uses a key below the last one extracted, as the
Dijkstra of `src/common/common-dgraph.tin`. Keys are naturals and -1, the NULL
key that delete and set-key pass.

### TrpPriorityQueue and TrpFiboRefinement

A heap is a set of nodes with keys; extraction returns a node whose key is
least. The refinement maps a heap to the nodes its lists lead to.

### TrpDgraph, TrpDgraphSearch

A node's two balanced trees of links are sets of the nodes at the other end,
with the lengths the code keeps beside them; a graph has its nodes, the counters
of nodes and links and the table of names. One action per call that changes a
graph: node, set-name, link, link-acyclic, detach-link, detach-node. A detached
node may serve again, as its memory does. `CanReach` says what the search of
`trp_dgraph_can_reach_low` computes; `TrpDgraphSearch` has that search and the
others (successors, predecessors, connected, tree, acyclic) as the code makes
them, visit by visit, in the order of addresses, and compares them with what
they are for. A recursion over nodes with a loop over the links of each is one
function, of what the loop has left to do and what has been visited; one such
function, `Search`, serves the searches that only differ in the direction and in
what they count (`AddressAssumption`: nodes are numbers, their addresses).

### TrpTree

Nodes with a parent and a sequence of children; the array that holds them is
`With` and `Without`, its overlapping moves. One action per call that changes a
tree. A call that is refused changes nothing, except the constructor: the
children it attached before the one it refuses keep their new parent, a node
the program never gets. `Above` (a node is on the way up) is stated with sets
closed upward, so that theorems can be proved about it; the walks are recursive
functions, the count of nodes with one more for the loop over the children
(`Counted`). `MemoryAssumption`: there are finitely many nodes.

### TrpAvl, TrpSet, TrpMap

`TrpAvl` is `avl_tree.c` as operators on a record of child, parent and balance
fields: `Rotate` and `DoubleRotate`, the two loops that rebalance after an
insertion (`Grown`) and a removal (`Shrunk`), the exchange with the successor.
`TrpSet` makes of them the calls of `trp_t_set.c` and `trp_t_assoc.c`. The
comparison is what `trp_equal` and `trp_less` make of two elements: `Rank` gives
an element the length or number that `trp_less` looks at. `TrpMap` knows sets
and functions only; the refinement maps a tree to its members.

### TrpArray, TrpArraySorts, TrpLinked, TrpSequences and their proofs

An array has its block beside its length and increment; `ArrayMax` counts modulo
`Word`, as the code does in 32 bits. `TrpArraySorts` translates the three sorts loop
by loop; they are evaluated in every state, under every order of the values, ties
included, and under two comparisons that are no order. The call that sorts
(`ArraySort`) does what each of them is checked to do, so that `TrpArray` reaches no
RECURSIVE operator. `TrpLinked` has one memory of cells for queues, stacks
and lists: a freed cell may be handed out again at once, and lists share tails.
`Chain` follows the pointers from a cell; it is a recursive function on naturals, so
that theorems can be proved about it.

### TrpEnv, TrpFor, TrpControlProofs

The control of these two is in the code that `src/compiler/test.tin` generates,
`trp_support.c` has the operations on the stack and on the state of a loop.
`TrpEnv` has frames of nets (`Call`, `Return`, `FailNet`), alternatives in them
(`Enter`, `Succeed`, `Backtrack`), globals, parameters by value and by
reference, the latter naming variables of outer frames, two of them possibly the
same. `seen`, the variables at the entry of an alternative, is history.
`TrpFor` has the five kinds of loops (`step`, `char`, `queue`, `stack`, `cord`);
`visited` and `due` are history.

### TrpDate

The conversions `Gma2Abs` and `Abs2Gma` with the ten days that are missing, and
what is built from them. A date may be incomplete (day or month 0). The
reference is a calendar that knows the lengths of months and which day follows
which. `Hours`, `Minutes` and `Seconds` shrink the day. `origin`, `elapsed` and
`shown` are history: the date that was made, what was added to it, and what
calendar and clock show for it in the easternmost of the zones, so that whoever
changes zone is not compared with another day.

### TrpChessBoard, TrpChess, TrpChessLaws, TrpChessRules

`TrpChessBoard` has the code on bitboards: a bitboard is the set of its squares,
a mask shifted to a square is a `Ray`, and `GenRook`, `GenBishop`, `Illegal`,
`GenerateQuiets`, `GenerateCapture2`, `MakeMove` (`trp_chess_make_move`), `InCheck`
and `SearchMate` are the functions of those names. The pawns of the side to move
go up the board: `ChangeSide` turns it over. Castling rights are the corners of
the rooks, so that the rolling of four bits is the turning over of a set of
squares. The order in which moves are generated is not kept; the search may
therefore return another of two moves that mate equally fast. `SearchMate` counts
the positions it looks at and can be interrupted at any of them (`stop`); the code
asks the caller's function at every 131072nd only. Its answer stays, so that an
interruption is a count of positions from which on the search ends. An
interrupted level returns at its next reply, as in the code: a move that mates at
once is still found.

`TrpChess` is the object, with the numbers the code gives men and squares.
`NextLow` makes a move on it, `OldToNew` is `trp_tmp_old_to_new`; `Unknown` is an
answer that is not cached. Its actions are asking, cloning, a move, a passed
turn, and the way through either stored form. A program starts from a position
(`trp_chess_fen_st` with the text left out, its refusal included) and makes a
bounded number of moves.

`TrpChessLaws` states the game from squares, lines and men, with no bitboard and
no derived field, and `TrpChessRules` is the specification the object refines:
a step is a legal move, a passed turn out of check, or the loss of the clocks in
the short stored form.

`MCTrpPositions` has the positions, `MCTrpChess` the one of run `chess_corner`.

### MCTrpSequential

Instances of the modules about objects of one thread in one specification.
They share no variable: a behaviour chooses its kind at the start. Modules with
theorems are extended, so that their properties are checked as they are proved; the
others are instances.

## 4. Runs

| Run | Question | Distinct states |
|---|---|---|
| `mail` | three threads, three calls of any kind, thread-case with two alternatives among them, creations and terminations: the whole protocol of messages and its inductive invariant | 816 000 |
| `life` | failing creations, a foreign thread, terminations, thread-case with a default, waits that return without a signal: what holds even then | 473 000 |
| `live` | progress under weak fairness; the refinement of `TrpMailbox` | 131 000 |
| `fibo` | two heaps, all operations, and cuts in the trees of one extraction from up to nine nodes: well-formed pointers, sizes of trees; the refinement of `TrpPriorityQueue` | 113 000 |
| `sequential` | graphs and their searches, trees, sets, associative arrays, arrays, queues, stacks, lists, alternatives, loops, dates, chess; the refinements of `TrpMap`, `TrpSequences` and `TrpChessRules` | 173 000 |
| `spurious_receive` | violated: a receive fails with its only sender alive | |
| `fibo_stale` | violated: a heap loses a node | |
| `fibo_set_key` | violated: the minimum of a heap is not the least | |
| `fibo_table` | violated: a root of a degree the table has no place for | |
| `dgraph_is_acyclic` | violated: a graph without a cycle is said to have one | |
| `set_order` | violated: an element of a set is not found in it | |
| `chess_corner` | violated: a promotion on a1 is called a capture in passing | |

**Threads.** Three threads are the least at which two senders compete for one
receiver, or a receiver waits for one thread while another terminates, or a
chain of two waits forms. `MaxCalls` bounds the sends and receives all threads
start together: three are enough for two messages of one pair on different paths
and the receive they race for; the properties of `mail`, and the refinement, for
which `live` has two calls and no thread-case, are also proved for any number of
calls and any cases. Terminations and creations are bounded
by the number of threads. Buffer sizes 0 and 1 give a sender that waits and one
that does not on the same mailbox. The created threads are interchangeable, so
`SYMMETRY` is used where no liveness is checked and `External` is empty.
Deadlock is not checked: a program may end, and two threads may wait for each
other by their own fault.

**Heaps.** Two programs (`MCTrpFibo`). `Queues` uses every operation on two heaps
that share four nodes: enough for a tree of degree 1 beside single roots in the
heap that is merged, cut, deleted from; with four nodes no extracted root has two
children, so the stale parent of section 5 cannot arise, and this program does
not touch a node again whose key fibo-set-key raised. `Cuts` complements it: one
extraction from up to nine nodes builds trees of degree up to 3, and three
decreases are what it takes to cascade, or to make such a tree too small if cuts
did not cascade. It has one extraction because a second one can leave stale
parents behind. The violated runs have the programs `Dijkstra`, `Trusting` and
`Deletions`, each with just the operations its disagreement needs.

**Objects of one thread** (`MCTrpSequential`), by kind:

* graphs: three nodes have links of a node to itself, cycles of two and three, a
  cycle beside a component without one, two paths to one node, and as many links
  as a tree has but a cycle among them. The nodes are not interchangeable, as
  searches go by address.
* trees: four nodes and constructors of two children give chains of four, half
  made nodes, and two trees that could be hung into each other. The theorems do
  not depend on the number.
* AVL trees: the tree of twelve nodes is the smallest in which one removal
  rotates on two levels; elements on both sides of it, inner nodes and leaves,
  are removed and put back in every order. A second program grows a set of up to
  seven from nothing, which meets every single and double rotation. Two
  and three sets, for intersections of up to three, and two associative arrays are
  small: their operations treat members alike.
* arrays: lengths up to five, with increments 1 and 3, so that blocks are full,
  partly used and enlarged; `Word` is 8, above any length plus increment that is
  reached, so that the wrap near 2^32 is not.
* queues, stacks, lists: two queues over three cells, one stack over four, two lists
  over three, so that every call meets cells that were freed before, memory runs out, and
  two lists share a tail. The properties are also proved, for any memory.
* alternatives: frames two deep, two open alternatives, two assignments; a net
  with a parameter by reference and one by value, which may call itself. The
  properties are also proved, for any depth and any nets.
* loops: bounds and steps that are aligned and that are not, empty, of one step,
  negative; containers of up to three items that the body may change.
* chess: seventeen positions, from each of which every move, every passed turn
  and both stored forms are taken for up to two moves: all castlings with each
  kind of obstacle, rooks that take rooks, pawns that pass with and without a pin
  on either line, promotions with and without capture on the corners, discovered
  and double checks, three knights that reach one square, bishops of one shade,
  a clock that passes 255 (a byte in the bitboards), stalemate, threats of mate and
  what only a capture in passing out of turn would make one, and one position that
  is refused. Mates are searched in four of them that have few moves, to depth two
  or three: where different moves mate in two and in three, seen from either side,
  the bound of the search changes in both ways, with the longer mate found first
  and with the shorter one, and where they mate in one, two and three it ends at
  the first. Searches are interrupted at each of the first forty positions or at
  every tenth, down to where a mate in three has been found and that in two has
  not. The two implementations of a move, the
  generator and the laws are compared in each of them.
* dates: every day of the years 0, 1582, 1700 and 2000 at three times of day and
  two zones, then two calls. The day is 12 seconds long. The property is also
  proved, for every year, zone and length of the day.

Deadlock is not checked: programs may stop calling and bounds are used up.

**Fairness.** `FairSpec` is weak fairness of what the runtime does for each
thread (`Runtime(t)`): the operating system runs every thread that can run.
Calls and terminations are the program's and are never obliged. Weak fairness is
enough for `CallsReturn` because the number of calls is bounded; with unbounded
calls a mutex that is not fair could pass a thread over for ever. The other
components are sequential and have no liveness beyond the end of their loops, which TLC
shows by evaluating them.

## 5. What the runs show

Without spurious wakeups the thread protocol is right: none of the hazards
listed for it in `PROJECT.json` bites. Its correctness leans on details that look
like oversights: `stato` may be read without its mutex by a receiver because the
sender's walk through the queue of threads comes after its store; the signal
may be sent after the mutex is released because the receiver's slot stays full
until it wakes. The structure of graphs, trees and AVL trees is right as well,
and so are the searches but one, the sorts, the chains of cells, the restoring
of variables, the loops, the calendar and the bitboards. A tree is never damaged by a
constructor that fails: the lookups marked "non può mai succedere" in
`trp_t_tree.c` do not fail.

Seven disagreements between the code and what the repository says:

* `pthread_cond_wait` may return without a signal. The code waits once and takes
  an empty slot to mean that all the senders have terminated, as the comment at
  `trpthread.c:735` says; run `spurious_receive` shows a live sender. Under
  spurious wakeups `StoppedForGood`, `MailboxClosed` and `SendResultTrue` fall
  too, while order and accounting of messages and mutual exclusion stay
  (run `life`).
* the promotion of children in `trp_fibo_extract` leaves a parent in the sibling
  right of the first child; later cuts go by it and a heap loses a node (run
  `fibo_stale`, with keys as Dijkstra's algorithm uses them).
* `trp_fibo_set_key` raises a key by taking the node out and in again without
  setting its field `fibo`; a second change of the key bypasses the heap (run
  `fibo_set_key`).
* the table of degrees of `trp_fibo_consolidate` has log2(len)+1 places, but a
  heap of 7 nodes can have a root of degree 3 (run `fibo_table`): the entry is
  written outside the table and not looked at when the minimum is chosen.
* `trp_dgraph_is_acyclic` never takes a node off the path again and takes a
  second path to a node for a cycle (run `dgraph_is_acyclic`). It overlooks no
  cycle (`SearchesExact`).
* sets order their elements by `trp_less`, which looks only at the lengths of
  arrays, lists, queues and trees: two different ones of one length come each
  before the other, and `avl_tree.h:107` asks for an order. With three of them a
  rotation hides one (run `set_order`). With elements that are ordered sets and
  associative arrays are right (`ImplementsMap`).
* `trp_chess_move_is_capture_ep` forgets to take the promotion off the second
  number of a move: a black pawn that becomes a knight on a1 has the number 64,
  which is also "no square in passing" (run `chess_corner`). All other answers
  about positions and moves are right (`AnswersExact` excepts just this one), and
  so is the game (`ImplementsChess`).

## 6. Proofs

### Threads

`TrpThreadProofs` proves, for any set of threads, any buffer sizes and any
argument lists of thread-case, with failing creations and spurious wakeups:

* `TypeCorrect`: `Spec => []TypeOK`. One lemma per group of actions. The only
  step that is not immediate is the taking of a message: the scan of the
  mailbox returns a position (`ScanFinds`), which needs a least element of a
  set of positions (`FirstIn`, from the well-foundedness of `<`).
* `MutualExclusion`: `Spec => []LockDiscipline`. `LockDiscipline` is not
  inductive: two creators of the same structure could restart a running
  thread. `CreationOwned` (a structure under creation has one creator and
  nothing runs on it) closes it.

* `RegistryCorrect`: `Spec => []RegistryExact`. That property speaks of the
  moments when the queue is not locked, or when no creation is measuring it, and
  is not inductive. `RegInv` says what holds in between: the length counts the
  threads alive all the time; the queue holds them but for one that is leaving
  it; and each creation that has not compared the length with thread-max yet
  lets the created threads alive be one more. It rests on `LockDiscipline`: two
  threads inside the critical sections of the queue could count from one length.

`TrpThreadWakeProofs` proves, from the assumption that a condition wait returns
only when signalled (`~Spurious`; run `spurious_receive` shows it is needed):

* `WakeProtocol`: `Spec => []WakeInv`. Its parts lean on each other:
  `StatoAgrees` (stato says where a thread is), `SlotAgrees` (the slot is full
  only during a wait, and a wait ends for a reason), `MarksAgree` (a mark in a
  mailbox is a thread suspended there, on one message),
  `SignalsAgree` (a thread about to signal is the only one the wait allows) and
  `AwaitedAgrees` (a sender no longer awaited is terminating), with
  `MailboxClosed` and `NoMissedMessage`. Neither of these two is inductive
  without the others: a signal to a thread that is not waiting would let it run
  on and break them.
* `SignalsMeetWaits`, `NoMessageMissed`, `NothingAfterExit`, `StoppedIsFinal`,
  `ReceiveTellsTruth`: the properties of run `mail` that follow from `WakeInv`.

The same module proves the other direction, from the same assumption:

* `SleepersCorrect`: `Spec => [](TypeOK /\ RegInv /\ SleepInv)`, where `SleepInv` is
  `WakeInv /\ RestInv`. A signal stays on its way until it is sent, and then its
  thread is awake (`KeepsAim`, which needs `SignalsAgree`); so it is enough that whoever takes away the reason of a wait
  is about to signal it. For a receiver the difficult part is `AwaitedComes`, a
  sender that is still awaited has not gone past its receiver: the walk of a
  terminating thread starts from all of the queue of threads (`RegInv`), a
  receiver that is building its queue of senders holds the mutex the visitor
  needs (`LockDiscipline`), and it leaves out who is STOPPED, which is
  everybody whose walk may have begun (`StatoAgrees`). For a suspended sender
  its mark follows the message from the mailbox to the copy a terminating
  destination drains, or is exchanged for a signal.
* `NoWakeupLost`: `Spec => []NobodyForgotten`, from this and `SignalsMeetWaits`.

`TrpThreadMailProofs` proves what becomes of messages:

* `MessagesArrive`: `Spec => []NothingLost`, also with spurious wakeups: a receiver
  that wakes without a message takes nothing and leaves nothing behind. A message
  takes one of two paths, and the later one must not come in first. `PathsAgree`
  closes the gap: a receiver that can be handed a message has no older one of that
  sender in its mailbox, since it has looked through it and kept the mutex until
  it waited (`LockDiscipline`), and afterwards whoever it awaits hands its first
  message over. `NotAhead` says that the numbers still to come are an interval,
  empty when sender and receiver agree. The rest is about the mailbox as a
  sequence: a number put at the end is the greatest (`AppendNumbers`), the first
  message of a sender has the least (`FirstLeast`), and taking it leaves the others
  in order (`RemoveNumbers`).
* `SendTellsTruth`: `Spec => []SendResultTrue`, as long as waits return only when
  signalled. A marked message is the last one its sender got accepted and is still
  to be received (`MarksTold`); whoever takes it, or drops it, has learnt what it is
  about to tell (`ResultsAgree`), and nothing is received from that sender in
  between. That a sender is told once, by one thread, is `SignalsAgree` and
  `MarksAgree`.
* `Protocol`: `Spec => []ProtocolInv`, the four parts together, and with them
  `NamesAgree`: whom a thread names in a call, waits for or has a message of is a
  thread that can be named.

The same module proves that `TrpThread` implements `TrpMailbox`:

* `MailboxesImplemented`: `Spec => ImplementsMailbox`, as long as waits return only
  when signalled, for any buffer sizes that have a largest one. Most steps are
  hidden: they leave what the refinement shows of every thread as it was
  (`ViewStays`, `HiddenStutters`). Each of the others is one action of the
  mailboxes: a creation is a birth at the step from which on the thread can be
  named; putting a message in a slot or a mailbox is the same `Post`, because a
  slot that may be filled has a mailbox without older messages behind it
  (`PathsAgree`); a receiver that wakes takes the head of its box or gives up;
  and whoever signals a suspended sender resolves its send. `MailInv` and `TellInv`
  are what makes these steps allowed, `NamesAgree` what keeps addressees and
  senders among those born.

The assumptions are those the module names: the main thread exists and is not
foreign, NULL is no thread and no message, sizes are naturals, cases are
sequences of alternatives.

### Graphs

`TrpGraphProofs` proves, for any graphs, names and finite set of nodes:

* `DgraphTypes`, `BothEndsKept` (`LinksAgree`, inductive with the types),
  `MembersKept` (`MembersAgree`, in two halves that do not need each other:
  `NodesAgree` and `NamesAgree`).
* `LinksCounted` (`CountersExact`; with the two before it `GraphKept`, of
  `GraphConsistent`): the links of a graph are a finite set of
  pairs; detaching a node removes the pairs that leave it and those that enter
  it, and `LinksAt` counts their union because the pair of a node with itself
  is taken once. It rests on `LinksAgree`.
* `NoCycleMade` (`NoNewCycle`): reaching is being in every closed set. The
  nodes a node reaches are themselves closed (`SpanClosed`); taking links away
  closes more sets (`FewerLinks`); and a new link from n1 to n2, where n2 does
  not reach n1, leaves closed a set that keeps any node off a cycle it was not
  on (`OneMoreLink`).
* `SearchesRight` (`SearchesExact`), from `GraphConsistent` alone: no search changes
  anything. Each proof has three parts. The recursion ends: what is left of it
  (`Left`: first the nodes not visited, then the rest of the loop) gets less with every
  call, so that for each k a function fits the equation wherever less than k is left
  (`SearchGoodNext`, `ClimbGoodNext`, `ExploreGoodNext`, `AcyclicGoodNext`), and
  one fits everywhere (`SearchFits` and the like). What an answer says of a loop that has got some way
  (`SearchSays`, `ExploreSays`) then holds of every loop, for one with the least left
  for which it fails would not fail (`LeastLoop`). And what it says, applied to the whole loop,
  is the property:
  * what was visited is closed and within every closed set, hence it is what the node reaches
    (`SearchAll`, `SearchFinds`); for predecessors the complement of a closed set is closed
    against the links (`ReachIs`), which needs `LinksAgree`; for connection both
    (`ConnectedIs`);
  * in a tree a climb gets a smaller set of nodes above it with each step, so
    that it never meets the limit of `len` steps that guards it (`ClimbToRoot`, `NeverUp`);
    and when the counters fit and the end of the climb reaches every node, the links map onto the
    other nodes, one less than all, so that none is entered twice (`OneLinkLess`);
  * a search that flags no cycle leaves its nodes `Layered`: every part of them has one that no link from the
    part enters, the first that was visited. Their links lead to each other or to nodes done before. A
    cycle through one of them would stay among them, unless it met one done before
    (`LayeredClean`); and whether a node is on a cycle does not depend on the direction
    (`BothDirections`), which is why forward and backward searches may share what is done.

### Trees

`TrpContainerProofs` proves, for any nodes, values and lengths of argument lists:

* `TreeTypeOK`: the types, `TreeTypes`. The lemmas about `With`, `Without` and
  the sequences a constructor takes are stated first.
* `TreeFamilyAgree` (`FamilyAgree`), inductive with the types: each action moves
  one node from one list to another, so that it stays in exactly one.
* `TreeAcyclic` (`Acyclic`): a set of nodes each of whose parents is in the set
  would contain, after a step, either nothing new or the node that was attached;
  as that was a root not above its new parent, the set without what is below it
  already had that property before. With the theorem before it: `TreeShapeKept`,
  of `TreeShape`.
* `TreeOrderKept` (`OrderKept`): no node is twice in a list of children
  (`FamilyAgree`), so that two of them have one order, and the moves of `With` and
  `Without` shift the places of those that stay by a monotone function.
* `TreeWalksExact` (`WalksExact`), a consequence of the same invariant. The answer of
  each walk is given as a function (a node without parent on the way up, the number of nodes
  above and below) that fits the walk's equation; because no set of nodes is closed
  under parents (`Acyclic`), or goes down forever (there are finitely many), no other
  function fits it. For the count the nodes below must fall apart into those below each
  child (`UnderChildren`), which needs both halves of `TreeShape`, and the loop over the
  children is followed from its end (`CountRound`).

### Arrays

The same module proves, for any elements, steps of growth and bounds
(`ArrayAssumption`: steps are positive, and no length and step together exceed a word):

* `CallsKeepElements`: `ArraySpec => CallsExact`, and `ArrayInvariant`: the size of the
  block is the one `trp_array_max` computes from the length of the moment, and all of it
  behind the elements is blank. No call looks the size up, so each relies on the one
  before. `MaxProperties` is the arithmetic of this: rounding up to a multiple is
  monotone, and a length that still fits has the same multiple, so that an insertion
  without a new block leaves the right size behind. With it the new block of every
  call is compared with sequences place by place (`InsertIs`, `RemoveIs`, `SubIs`). That
  the sorts only exchange elements in front is what `SortsExact` checks; here it is the
  definition of `ArraySort`.

### Queues, stacks and lists

`TrpLinkedProofs` proves, for any finite memory, any values and any programs
(`LinkedAssumption`: no cell is NULL, nil or the atom, which differ, and a variable is
a queue, a stack or a list, not two of them):

* `ChainsAreSequences`: `Spec => ImplementsSequences`, and `ChainsStayApart`:
  `Spec => []ChainsApart`, both from the invariant `LinkedInv` (`LinkedCorrect`).
  `ChainsApart` says nothing of memory that only cells lead to, and is not inductive:
  `ChainsEnd` adds that from every variable the pointers lead, in at most as many steps
  as there are cells, to an end; `Owned`, that a cell of a queue or a stack is on no
  other chain; `ListsEnd`, that those of lists end as lists may.
* What a chain is, is a fact about a recursive function, which `ChainIs` gets from the
  existence of a chain: a sequence of cells in which each points to the next. That such
  a sequence meets no cell twice follows from its end being none of its cells, for the
  least place that is met again would have an end behind it that is a cell
  (`LeastPosition`: the well-foundedness of `<` replaces induction).
* Every call is then a change of memory of one of three sorts: the pointers behind some
  cells are kept (`ChainFrame`), the first cell is dropped (`ChainDrop`) or a chain is put
  before another (`ChainJoin`). `DoneKeeps` says that the end of a call, which forgets what
  nothing reaches, changes no chain, and `ChangeKeeps` that what happens to one variable leaves
  the others alone: queues and stacks because nobody shares their cells, lists because their
  cells are never written. One lemma per call supplies what is special in it.

### Alternatives and loops

`TrpControlProofs` proves, for any nets with any globals, parameters and locals,
and any depth of calls (`EnvAssumption`: the program starts with a net without
parameters; names are sequences; a local is no reference):

* `FailureUndone`: `EnvSpec => FailureRestores`, and `StackExact`:
  `EnvSpec => []StackBalanced`, both from one invariant, `EnvInv`. Nothing on the
  stack says where the values of an alternative end; a net pops as many as it can
  see variables, and this is right as long as the stack is laid out in one segment
  per frame, of one part per alternative that the frame has open (`Layout`), each
  part what its alternative has seen (`Segment`). A net saves only what it can see;
  that the other variables of outer frames need no restoring is `UnseenKept`, and it
  rests on `FramesAgree`: what a net sees of an outer frame, that frame sees as well,
  because references are given only to what the caller sees. A variable known
  under two names is saved twice with one value, so that the order of the pops
  does not matter for it (`RestoredIs`); a branch that begins again pushes what
  was just restored (`AgainStep`). A net that fails or returns has no alternative
  open, so that it leaves nothing on the stack (`LeaveStep`). `LayoutBalanced` turns
  the layout into the sum `StackBalanced` speaks of.

and for any items, bounds and steps (`ForAssumption`: bounds are integers,
characters are codes below `Byte`, no record of a loop is `None`):

* `LoopsExact`: `ForSpec => []LoopExact`. The invariant `ForInv` says that a loop
  with n values behind it stands at the n-th of the values that were due when
  it began (`Stands`), and that what it keeps, a target and a step, a copy of a
  queue or a stack, or a position in a string, still leads through the rest of them.
  For numbers and characters the values are a `Progression`: the code stops on
  equality with the target, which comes out right only because the target was
  aligned to the step when the loop began (`NumbersStart`, `CharsStart`), and for
  characters because every value on the way is a code. For containers
  the copy does not see what the body does to the original.

### Dates

`TrpDateProofs` proves, for any years up to `LastYear`, any spans, any zones of which
one is the easternmost, and any length of the day (`DateAssumption`):

* `DatesExact`: `DateSpec => []DateExact`, from the invariant `DateInv`
  (`DateInvariant`). `DateExact` compares two dates after the fact and is not inductive:
  a year beyond `LastYear` is cut, but the calendar goes on. `DateInv` speaks of
  moments instead: `shown` is always `elapsed` seconds after `origin` (`Shown`), and as
  long as its year has 16 bits, `date` stands for the same moment (`Showing`).
* The conversions are treated as formulas. `NewYearIs` turns the counts of multiples
  into quotients, `YearGrows` tells from them how long each year is. `JulianYear` and
  `GregorianYear` show that the estimate of the year and the search upwards from it end
  in the year of the day; from there `ThereAndBack` follows by months: each day there has
  been survives the way to its number and back. `NoDay` is the other half of what
  the constructor relies on: no other day does, and not one of the ten either.
* The calendar agrees with the numbers because the next day has the next number
  (`Tomorrow`); so every number is that of a day (`EveryNumber`, where the least number
  of no day would have one before it), and n days on is n more (`DaysOn`, `AfterIs`; the
  recursion over days is followed as for chains).
* A time of day is a number in mixed radix (`ClockIs`), so that seconds since the
  start determine a date and its clock (`MomentUnique`); with this `IncrIs` says what an
  addition returns, or that it returns none.

### Only model-checked

All liveness (out of TLAPS's reach); the heaps and their refinement and the balanced
trees with what is built on them, recursive over pointers, and the sorts and chess,
which are recursive operators or folds. Induction over data is out of its reach as well, but for
cases like the chains, the days, the walks of trees and the searches of graphs, where one
recursive function is followed along its equation with the well-foundedness of `<`.

## 7. Not modelled

`PROJECT.json` gives the reason for each component. In short:

* vendored and generated code and data, by far most of the lines of the repository: the
  decoder and codecs under `trpvid` and `trpavcodec`, the texts of `trplicense`, the parser of
  style sheets, `trpc.c` (the compiler compiled by itself), the collector's
  glue. They are not this program's logic, and the mapped share of all lines
  stays small for it: it says little about the runtime, whose stateful files are
  nearly all in section 3.
* bindings (`trpgtk`, `trpsdl`, `trpcurl`, `trpmicrohttpd`, ...): thin calls to
  C libraries. Their callbacks enter the model as threads registered from outside.
* immutable data and conversions: numbers over GMP, strings over cords, regular
  expressions, files, printing.
* image and sound code: arithmetic on large domain data, no protocol and no
  invariant over several calls.
* of chess: the text of FENs (a position stands for it) and what only combines
  or counts other answers (perft, moves packed in a raw, is-check and the like);
  turns passed and threats asked for in check, where the king could be taken and
  `LSB` of zero, undefined, decides.

Within the modelled components: payloads of messages, values of graph nodes and
links, objects of heap nodes, printing and encoding; thread-join and the order of thread-list;
arrays of several dimensions; a comparison that changes the array being sorted;
the sharing of globals between threads whose alternatives fail, which the comment
at `trp_support.c:167` warns of; lengths near 2^32.
