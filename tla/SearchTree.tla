----------------------------- MODULE SearchTree -----------------------------
(***************************************************************************)
(* The data of one search: the board as the stones played on it, and the    *)
(* MCTS tree as a pool of nodes in which a node's children are one block of *)
(* slots (crates/mantis-core/src/board, crates/mantis-search/src/mcts).     *)
(* This module has no state; DeployPlayer drives it.                        *)
(*                                                                          *)
(* A board is the sequence of its cells, in the order played.  The net and  *)
(* the solver are functions of the position, as the code's exact caches     *)
(* require, and their values are integers.  Quiescence is part of the net's *)
(* value here.  Which child PUCT prefers is left open: the properties hold  *)
(* for every selection.                                                     *)
(***************************************************************************)
EXTENDS Integers, FiniteSets, Sequences, FiniteSetsExt, SequencesExt

CONSTANTS
    Cells,        \* the cells in play
    Origin,       \* (0, 0)
    Lines,        \* the sets of cells that win when one side holds them all
    Prior,        \* each cell's place in the order of falling prior
    Net(_),       \* position -> the net's value for the side to move
    Verdict(_),   \* position -> the leaf solver's: 1, -1, or 0 when undecided
    MaxChildren   \* MAX_CHILDREN_PER_NODE

ASSUME CellsAssumption ==
    /\ IsFiniteSet(Cells) /\ Origin \in Cells
    /\ Lines \subseteq SUBSET Cells
    /\ Prior \in [Cells -> Nat] /\ \A c, d \in Cells : Prior[c] = Prior[d] => c = d
ASSUME ChildrenAssumption == MaxChildren \in Nat \ {0}

\* What the caches key on and the net and the solver are asked of.
Positions == (SUBSET Cells) \X (SUBSET Cells)
ASSUME ValuesAssumption == \A p \in Positions : Net(p) \in Int /\ Verdict(p) \in {-1, 0, 1}

-----------------------------------------------------------------------------
(***************************************************************************)
(* The board.  The first turn is one stone, every later one two.            *)
(***************************************************************************)

MovesRemaining(b) == IF b = <<>> \/ Len(b) % 2 = 0 THEN 1 ELSE 2

CurrentPlayer(b) == IF ((Len(b) + 1) \div 2) % 2 = 0 THEN "One" ELSE "Two"

StonesOf(b, p) == { b[i] : i \in { k \in DOMAIN b : CurrentPlayer(SubSeq(b, 1, k - 1)) = p } }

\* What the table, the caches and a re-root compare: the stones of each side
\* (the side to move and its stones left follow from their number).
Position(b) == <<StonesOf(b, "One"), StonesOf(b, "Two")>>

LegalMoves(b) == Cells \ ToSet(b)

\* The last stone completes a line of its side.
CheckWin(b) ==
    /\ b # <<>>
    /\ LET p == CurrentPlayer(Front(b))
       IN  \E line \in Lines : Last(b) \in line /\ line \subseteq StonesOf(b, p)

\* The side to move is still the winner while it has its second stone left.
TerminalValueToMove(b) == IF MovesRemaining(b) = 1 THEN 1 ELSE -1

-----------------------------------------------------------------------------
(***************************************************************************)
(* The pool.  Slot 1 is the root; parent 0 and first 0 are u32::MAX.        *)
(***************************************************************************)

Node(parent, cell, mr) ==
    [parent |-> parent, cell |-> cell, n |-> 0, w |-> 0, vl |-> 0, first |-> 0, count |-> 0,
     mr |-> mr, terminal |-> FALSE, tv |-> 0]

Root(b) == Node(0, Origin, MovesRemaining(b))

IsExpanded(node) == node.first # 0

Children(pool, i) == { c \in DOMAIN pool : pool[i].first <= c /\ c < pool[i].first + pool[i].count }

\* The slots from the root down to i; a parent's slot is below its child's.
Path(pool, i) ==
    LET down[k \in 0 .. Len(pool)] == IF k = 0 THEN <<>> ELSE Append(down[pool[k].parent], k)
    IN  down[i]

\* The board `i` stands for under a root at b.
BoardAt(pool, b, i) ==
    LET below == Tail(Path(pool, i))
    IN  b \o [k \in DOMAIN below |-> pool[below[k]].cell]

\* Virtual loss added to every node of a descent.
ApplyVirtualLoss(pool, leaf) ==
    LET path == ToSet(Path(pool, leaf))
    IN  [i \in DOMAIN pool |-> IF i \in path THEN [pool[i] EXCEPT !.vl = @ + 1] ELSE pool[i]]

UndoVirtualLoss(pool, leaf) ==
    LET path == ToSet(Path(pool, leaf))
    IN  [i \in DOMAIN pool |->
            IF i \in path /\ pool[i].vl > 0 THEN [pool[i] EXCEPT !.vl = @ - 1] ELSE pool[i]]

\* A value turns on its way from i to its parent when the parent placed the
\* last stone of its turn.
Turns_OwnStone(pool, i) == pool[i].mr = 1
Turns(pool, i) == pool[i].parent # 0 /\ pool[pool[i].parent].mr = 1

\* A visit, its value and one virtual loss less on every node up to the root.
Backup(pool, leaf, value) ==
    LET path == ToSet(Path(pool, leaf))
        turnsBelow(i) == Cardinality({ j \in path : j > i /\ Turns(pool, j) })
    IN  [i \in DOMAIN pool |->
            IF i \notin path THEN pool[i]
            ELSE [pool[i] EXCEPT !.n = @ + 1,
                                 !.w = @ + (IF turnsBelow(i) % 2 = 0 THEN value ELSE -value),
                                 !.vl = IF @ > 0 THEN @ - 1 ELSE 0]]

MarkTerminal(pool, leaf, tv) ==
    [Backup(pool, leaf, tv) EXCEPT ![leaf].terminal = TRUE, ![leaf].tv = tv]

\* The legal cells of the highest prior, in its order, MaxChildren at most.
PickTopK(b) ==
    LET legal == LegalMoves(b)
        kept == IF Cardinality(legal) <= MaxChildren THEN Cardinality(legal) ELSE MaxChildren
    IN  [k \in 1 .. kept |->
            CHOOSE c \in legal : Cardinality({ d \in legal : Prior[d] < Prior[c] }) = k - 1]

\* The leaf's children take the next free slots, and its value is backed up.
FinishExpansion(pool, leaf, b) ==
    LET cells == PickTopK(b)
        mr == IF pool[leaf].mr = 1 THEN 2 ELSE 1
    IN  [Backup(pool, leaf, Net(Position(b)))
            EXCEPT ![leaf].first = Len(pool) + 1, ![leaf].count = Len(cells)]
        \o [j \in 1 .. Len(cells) |-> Node(leaf, cells[j], mr)]

\* One evaluated leaf, whether the net or the table served it.
ExpandLeaf(pool, leaf, b) ==
    CASE pool[leaf].terminal -> Backup(pool, leaf, pool[leaf].tv)
      [] ~pool[leaf].terminal /\ IsExpanded(pool[leaf]) -> Backup(pool, leaf, Net(Position(b)))
      [] ~pool[leaf].terminal /\ ~IsExpanded(pool[leaf]) /\ CheckWin(b) ->
            MarkTerminal(pool, leaf, TerminalValueToMove(b))
      [] ~pool[leaf].terminal /\ ~IsExpanded(pool[leaf]) /\ ~CheckWin(b) /\ LegalMoves(b) = {} ->
            MarkTerminal(pool, leaf, 0)
      [] OTHER -> FinishExpansion(pool, leaf, b)

-----------------------------------------------------------------------------
(***************************************************************************)
(* Within-turn reuse.                                                       *)
(***************************************************************************)

\* The root's expanded, undecided child that is exactly the board b, when the
\* root was a turn's first stone.
Reaching(pool, root, b) ==
    { i \in Children(pool, 1) :
        /\ MovesRemaining(root) = 2
        /\ IsExpanded(pool[i]) /\ ~pool[i].terminal
        /\ Position(Append(root, pool[i].cell)) = Position(b) }

\* The slots of a node's children, in order.
Block(pool, i) == [k \in 1 .. pool[i].count |-> pool[i].first + k - 1]

\* The slots of `child`'s subtree as the copy visits them: a queue that takes up
\* the children of the slot it is at.
BreadthFirst(pool, child) ==
    LET loop[left \in 0 .. Len(pool)] ==
            [queue \in Seq(DOMAIN pool) |->
                LET at == Len(pool) - left + 1
                IN  IF left = 0 \/ at > Len(queue) THEN queue
                    ELSE loop[left - 1][queue \o Block(pool, queue[at])]]
    IN  loop[Len(pool)][<<child>>]

\* Its subtree copied from slot 1 in that order, the links remapped.
Subtree(pool, child) ==
    LET order == BreadthFirst(pool, child)
        slot(i) == CHOOSE k \in DOMAIN order : order[k] = i
    IN  [k \in DOMAIN order |->
            [pool[order[k]] EXCEPT
                !.parent = IF k = 1 THEN 0 ELSE slot(@),
                !.first = IF @ = 0 THEN 0 ELSE slot(@)]]

=============================================================================
