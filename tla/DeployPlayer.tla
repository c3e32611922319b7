---------------------------- MODULE DeployPlayer ----------------------------
(***************************************************************************)
(* The deploy head: one engine that plays a game, a turn at a time, as a    *)
(* step machine (crates/mantis-player/src/player.rs).  The host begins a    *)
(* turn, pulls (NextBatch) until the turn is done or a batch waits for the  *)
(* net, and pushes the net's outputs (Submit).  It may also drop the turn   *)
(* (Abort), and a refused push drops it too.  Between two calls the engine  *)
(* does nothing; within one it runs alone, a root step or a descent at a    *)
(* time.                                                                    *)
(*                                                                          *)
(* The per-game cache is left open: a call's leaves are all cached, or some *)
(* of them wait for the net.  Clock budgets come to a number of sims within *)
(* the pool's cap.  The defence audit plays some root child, and its stored *)
(* second stone, which no invariant here depends on, is left out; so is the *)
(* restriction of a leaf's children to the blocks of a threat.              *)
(***************************************************************************)
EXTENDS SearchTree

CONSTANTS
    Openings,   \* the positions a game is set up from, as sequences of cells
    GameSims,   \* the sims a game's pool is sized for
    TurnSims,   \* the sims a stone that a turn may ask for
    Proof(_),   \* position -> the solver's winning stones, <<>> when it has none
    LeafBatch,  \* leaf_batch_size
    Margin      \* armed_sims_for's divisor over MaxChildren

ASSUME BudgetsAssumption ==
    /\ GameSims \subseteq Nat \ {0} /\ TurnSims \subseteq Nat \ {0}
    /\ LeafBatch \in Nat \ {0}
\* Room for two stones' sims and a root; the code's 4 leaves more.
ASSUME MarginAssumption == Margin \in Nat /\ Margin >= 3
\* No cell is set up twice.
ASSUME OpeningsAssumption ==
    Openings \subseteq Seq(Cells) /\ \A b \in Openings : Cardinality(ToSet(b)) = Len(b)
\* The solver's winning line plays empty cells, and no cell twice.
ASSUME ProofAssumption ==
    \A p \in Positions :
        /\ Proof(p) \in Seq(Cells \ (p[1] \cup p[2]))
        /\ \A i, j \in DOMAIN Proof(p) : Proof(p)[i] = Proof(p)[j] => i = j

VARIABLES
    armed,   \* is the tactics block on
    board,
    slots,   \* the length of the tree's pool
    tree,    \* [pool, root, table, proof]: the nodes in use, root_board, the
             \* transposition table's positions, next_proof_stone
    turn,    \* the turn in play
    call,    \* the select call and the batch it leaves pending
    engine   \* "running" inside next_batch, "submitting" inside submit, else "host"

vars == <<armed, board, slots, tree, turn, call, engine>>

NoTurn == [phase |-> "none", start |-> <<>>, sims |-> 0, left |-> 0, done |-> 0, inherited |-> 0]

NoCall == [at |-> "none", network |-> 0, descents |-> 0, spent |-> 0, served |-> 0, unserved |-> 0,
           overlap |-> FALSE, pending |-> <<>>]

NoProof == [position |-> <<>>, stone |-> Origin]

-----------------------------------------------------------------------------

\* MCTSTree::new_game: an unexpanded root, no table.  The proof stone stays.
FreshTree(b) == [pool |-> <<Root(b)>>, root |-> b, table |-> {}, proof |-> tree.proof]

Rerooted(b) ==
    LET kept == Reaching(tree.pool, tree.root, b)
    IN  IF kept = {} THEN FreshTree(b)
        ELSE [FreshTree(b) EXCEPT !.pool =
                Subtree(tree.pool, CHOOSE i \in kept : \A j \in kept : i <= j)]

Inherited(t) == t.pool[1].n

\* The sims a pool serves.
ArmedSims(n) == n \div (Margin * MaxChildren)

Init ==
    /\ armed \in BOOLEAN
    /\ board = <<>>
    /\ \E s \in GameSims : slots = Margin * MaxChildren * s
    /\ tree = [pool |-> <<Root(<<>>)>>, root |-> <<>>, table |-> {}, proof |-> NoProof]
    /\ turn = NoTurn /\ call = NoCall /\ engine = "host"

\* The host sets a game up; its pool is sized for the game's clock.
NewGame ==
    /\ engine = "host" /\ turn.phase = "none"
    /\ \E moves \in Openings, s \in GameSims :
        /\ board' = moves
        /\ slots' = Margin * MaxChildren * s
        /\ tree' = [pool |-> <<Root(<<>>)>>, root |-> <<>>, table |-> {}, proof |-> NoProof]
    /\ UNCHANGED <<armed, turn, call, engine>>

\* The other side's stones, all legal or none played.
Play ==
    /\ engine = "host" /\ turn.phase = "none"
    /\ \E a \in LegalMoves(board) :
        \/ board' = Append(board, a)
        \/ \E b \in LegalMoves(board) \ {a} : board' = board \o <<a, b>>
    /\ UNCHANGED <<armed, slots, tree, turn, call, engine>>

\* A budget past the pool is refused.
BeginTurn ==
    /\ engine = "host" /\ turn.phase = "none"
    /\ \E n \in TurnSims :
        /\ n <= ArmedSims(slots)
        /\ turn' = [NoTurn EXCEPT !.phase = "start", !.start = board, !.sims = n,
                                  !.left = MovesRemaining(board)]
    /\ UNCHANGED <<armed, board, slots, tree, call, engine>>
NextBatch ==
    /\ engine = "host" /\ turn.phase # "none" /\ call.at = "none"
    /\ engine' = "running"
    /\ UNCHANGED <<armed, board, slots, tree, turn, call>>

\* The board as before the turn, under a tree reset to it.
RollBack_KeepsTree ==
    /\ board' = turn.start /\ tree' = tree
    /\ turn' = NoTurn /\ call' = NoCall /\ engine' = "host"
    /\ UNCHANGED <<armed, slots>>
RollBack_KeepsBoard ==
    /\ board' = board /\ tree' = FreshTree(turn.start)
    /\ turn' = NoTurn /\ call' = NoCall /\ engine' = "host"
    /\ UNCHANGED <<armed, slots>>
RollBack ==
    /\ board' = turn.start /\ tree' = FreshTree(turn.start)
    /\ turn' = NoTurn /\ call' = NoCall /\ engine' = "host"
    /\ UNCHANGED <<armed, slots>>

-----------------------------------------------------------------------------
(***************************************************************************)
(* A stone.                                                                 *)
(***************************************************************************)

\* The stone is played; a win or the turn's last stone ends the turn.
Place(c) ==
    /\ board' = Append(board, c)
    /\ turn' = [turn EXCEPT
                !.phase = IF CheckWin(board') \/ turn.left = 1 THEN "done" ELSE "start",
                !.left = @ - 1, !.done = 0, !.inherited = 0]

PlaceOrigin ==
    /\ engine = "running" /\ turn.phase = "start" /\ board = <<>>
    /\ Place(Origin)
    /\ UNCHANGED <<armed, slots, tree, call, engine>>

\* root_offence: the stored second stone of a proof of this very position, a
\* new proof's first stone, or nothing (no proof, or a solver out of nodes).
\* Reading the stored stone takes it.
Stored == tree.proof # NoProof /\ tree.proof.position = Position(board)

ProofAfter ==
    LET proof == Proof(Position(board))
    IN  IF ~Stored /\ MovesRemaining(board) = 2 /\ Len(proof) = 2
        THEN [position |-> Position(Append(board, proof[1])), stone |-> proof[2]]
        ELSE NoProof

OffenceStone ==
    /\ engine = "running" /\ turn.phase = "start" /\ call.at = "none" /\ board # <<>>
    /\ armed /\ ~CheckWin(board)
    /\ \/ Stored /\ Place(tree.proof.stone)
       \/ ~Stored /\ Proof(Position(board)) # <<>> /\ Place(Head(Proof(Position(board))))
    /\ tree' = [Rerooted(board) EXCEPT !.proof = ProofAfter]
    /\ UNCHANGED <<armed, slots, call, engine>>

Select(network, descents) ==
    call' = [NoCall EXCEPT !.at = "select", !.network = network, !.descents = descents]

\* The root phase of a searched stone: re-root, then one descent.
RootStep ==
    /\ engine = "running" /\ turn.phase = "start" /\ call.at = "none" /\ board # <<>>
    /\ tree' = [Rerooted(board) EXCEPT !.proof = IF armed THEN NoProof ELSE @]
    /\ turn' = [turn EXCEPT !.phase = "drive", !.done = 0, !.inherited = Inherited(tree')]
    /\ Select(1, 1)
    /\ UNCHANGED <<armed, board, slots, engine>>

-----------------------------------------------------------------------------
(***************************************************************************)
(* A select call, one descent at a time.                                    *)
(***************************************************************************)

Selecting ==
    /\ engine = "running" /\ call.at = "select" /\ ~call.overlap
    /\ call.spent < call.descents /\ Len(call.pending) < call.network

Leaves == { i \in DOMAIN tree.pool : tree.pool[i].terminal \/ ~IsExpanded(tree.pool[i]) }

\* A descent that backs its value up at once counts as inline or table hit.
Inline(pool) ==
    /\ tree' = [tree EXCEPT !.pool = pool]
    /\ call' = [call EXCEPT !.spent = @ + 1, !.unserved = @ + 1]

\* The tactics block decides a leaf other than the root without the net.
Decided(leaf, b) ==
    /\ armed
    /\ \/ tree.pool[leaf].terminal
       \/ CheckWin(b)
       \/ leaf # 1 /\ Verdict(Position(b)) # 0

DecidedLeaf(pool, leaf, b) ==
    IF pool[leaf].terminal THEN Backup(pool, leaf, pool[leaf].tv)
    ELSE MarkTerminal(pool, leaf,
                      IF CheckWin(b) THEN TerminalValueToMove(b) ELSE Verdict(Position(b)))

\* A leaf already pending: the descent is undone and the call ends.
Overlap(leaf) ==
    /\ tree' = [tree EXCEPT !.pool = UndoVirtualLoss(ApplyVirtualLoss(@, leaf), leaf)]
    /\ call' = [call EXCEPT !.overlap = TRUE]

Descend ==
    /\ Selecting
    /\ \E leaf \in Leaves :
        LET b == BoardAt(tree.pool, tree.root, leaf)
            pool == ApplyVirtualLoss(tree.pool, leaf)
        IN  \/ leaf \in ToSet(call.pending) /\ Overlap(leaf)
            \/ /\ leaf \notin ToSet(call.pending) /\ Decided(leaf, b)
               /\ Inline(DecidedLeaf(pool, leaf, b))
            \/ /\ leaf \notin ToSet(call.pending) /\ ~Decided(leaf, b)
               /\ Position(b) \in tree.table
               /\ Inline(ExpandLeaf(pool, leaf, b))
            \/ /\ leaf \notin ToSet(call.pending) /\ ~Decided(leaf, b)
               /\ Position(b) \notin tree.table
               /\ tree' = [tree EXCEPT !.pool = pool]
               /\ call' = [call EXCEPT !.spent = @ + 1, !.pending = Append(@, leaf)]
    /\ UNCHANGED <<armed, board, slots, turn, engine>>

\* The call is over: its leaves are all cached, or the misses wait for the net.
Serve ==
    /\ engine = "running" /\ call.at = "select" /\ ~Selecting
    /\ \/ call' = [call EXCEPT !.at = "expand"] /\ engine' = engine
       \/ /\ call.pending # <<>>
          /\ call' = [call EXCEPT !.at = "out"] /\ engine' = "host"
    /\ UNCHANGED <<armed, board, slots, tree, turn>>

\* The net's outputs for the outstanding batch.
Submit ==
    /\ engine = "host" /\ call.at = "out"
    /\ call' = [call EXCEPT !.at = "expand"] /\ engine' = "submitting"
    /\ UNCHANGED <<armed, board, slots, tree, turn>>

\* The next pending leaf enters the table and is expanded.
ExpandNext ==
    /\ call.at = "expand" /\ call.pending # <<>>
    /\ LET leaf == Head(call.pending)
           b == BoardAt(tree.pool, tree.root, leaf)
       IN  tree' = [tree EXCEPT !.pool = ExpandLeaf(@, leaf, b), !.table = @ \union {Position(b)}]
    /\ call' = [call EXCEPT !.pending = Tail(@), !.served = @ + 1]
    /\ UNCHANGED <<armed, board, slots, turn, engine>>

\* The served leaves and the unserved descents are charged to the stone.
Charge_ServedOnly ==
    /\ call.at = "expand" /\ call.pending = <<>>
    /\ turn' = [turn EXCEPT !.done = @ + call.served]
    /\ call' = NoCall
    /\ engine' = IF engine = "submitting" THEN "host" ELSE engine
    /\ UNCHANGED <<armed, board, slots, tree>>
Charge ==
    /\ call.at = "expand" /\ call.pending = <<>>
    /\ turn' = [turn EXCEPT !.done = @ + call.served + call.unserved]
    /\ call' = NoCall
    /\ engine' = IF engine = "submitting" THEN "host" ELSE engine
    /\ UNCHANGED <<armed, board, slots, tree>>

-----------------------------------------------------------------------------
(***************************************************************************)
(* The drive.                                                               *)
(***************************************************************************)

Visits(c) == tree.pool[c].n

\* The most visited children; which of two equals comes first is the sort's.
Leaders ==
    { c \in Children(tree.pool, 1) : \A d \in Children(tree.pool, 1) : Visits(d) <= Visits(c) }

\* No runner-up can reach the visit leader with `left` descents.
LeaderFixed(left) ==
    \E c \in Leaders : \A d \in Children(tree.pool, 1) \ {c} : Visits(c) - Visits(d) > left

Left == turn.sims - turn.done

\* The searched stone: the most visited child, or the audit's hold.
FinishSearched ==
    /\ engine = "running" /\ turn.phase = "drive" /\ call.at = "none"
    /\ Left <= 0 \/ LeaderFixed(Left)
    /\ Children(tree.pool, 1) # {}
    /\ \E c \in IF armed THEN Children(tree.pool, 1) ELSE Leaders : Place(tree.pool[c].cell)
    /\ UNCHANGED <<armed, slots, tree, call, engine>>

\* A root with no children (a won or full board) leaves no stone to pick.
NoRootChildren_Retries ==
    /\ engine = "running" /\ turn.phase = "drive" /\ call.at = "none"
    /\ Left <= 0 /\ Children(tree.pool, 1) = {}
    /\ UNCHANGED vars
NoRootChildren ==
    /\ engine = "running" /\ turn.phase = "drive" /\ call.at = "none"
    /\ Left <= 0 /\ Children(tree.pool, 1) = {}
    /\ RollBack

Drive ==
    /\ engine = "running" /\ turn.phase = "drive" /\ call.at = "none"
    /\ Left > 0 /\ ~LeaderFixed(Left)
    /\ Select(LeafBatch, Left)
    /\ UNCHANGED <<armed, board, slots, tree, turn, engine>>

\* The finished turn is handed out.
Close ==
    /\ engine = "running" /\ turn.phase = "done"
    /\ turn' = NoTurn /\ engine' = "host"
    /\ UNCHANGED <<armed, board, slots, tree, call>>

\* Outputs of the wrong shape or not finite.
RefuseOutputs == engine = "host" /\ call.at = "out" /\ RollBack

Abort == engine = "host" /\ turn.phase # "none" /\ RollBack

Next ==
    \/ NewGame \/ Play \/ BeginTurn \/ NextBatch
    \/ PlaceOrigin \/ OffenceStone \/ RootStep
    \/ Descend \/ Serve \/ ExpandNext \/ Charge \/ Drive \/ FinishSearched \/ NoRootChildren \/ Close
    \/ Submit \/ RefuseOutputs \/ Abort

Spec == Init /\ [][Next]_vars

Engine ==
    \/ PlaceOrigin \/ OffenceStone \/ RootStep
    \/ Descend \/ Serve \/ ExpandNext \/ Charge \/ Drive \/ FinishSearched \/ NoRootChildren \/ Close

\* The host pulls while a turn is in play and answers every batch it was given,
\* as its worker loop does; next_batch runs until it returns.
FairSpec == Spec /\ WF_vars(Engine) /\ WF_vars(NextBatch) /\ WF_vars(Submit)

-----------------------------------------------------------------------------
(***************************************************************************)
(* Properties.                                                              *)
(***************************************************************************)

TypeOK ==
    /\ armed \in BOOLEAN /\ engine \in {"host", "running", "submitting"}
    /\ board \in Seq(Cells) /\ tree.root \in Seq(Cells)
    /\ turn.phase \in {"none", "start", "drive", "done"}
    /\ call.at \in {"none", "select", "out", "expand"}
    /\ \A k \in DOMAIN call.pending : call.pending[k] \in DOMAIN tree.pool

\* Virtual loss is the pending leaves and nothing else: a node carries one for
\* each leaf below it that still waits, after a table hit, a decided leaf, an
\* overlap, a refused batch, an abort and a re-root alike.  A loss that outlived
\* its leaf would steer every later search away from the line it was on
\* (select_one_leaf, backup, undo_virtual_loss, roll_back).
PenaltyIsPending ==
    \A i \in DOMAIN tree.pool :
        tree.pool[i].vl = Cardinality({ k \in DOMAIN call.pending :
                                            i \in ToSet(Path(tree.pool, call.pending[k])) })

\* The statistics are those of the evaluations made: a node's visits are its
\* own and its children's, and its value is its own and theirs, turned where
\* the side to move on the BOARD differs.  The code turns it on the stored
\* moves_remaining, through a re-root and on a first turn of one stone (backup,
\* finish_expansion, subtree).
TreeAddsUp ==
    \A i \in DOMAIN tree.pool :
        LET node == tree.pool[i]
            below == Children(tree.pool, i)
            mover(j) == CurrentPlayer(BoardAt(tree.pool, tree.root, j))
            seen(c) == IF mover(c) = mover(i) THEN tree.pool[c].w ELSE -tree.pool[c].w
        IN  IF node.terminal THEN below = {} /\ node.n > 0 /\ node.w = node.n * node.tv
            ELSE IF ~IsExpanded(node) THEN node.n = 0 /\ node.w = 0
            ELSE /\ node.n = 1 + MapThenSumSet(Visits, below)
                 /\ node.w = Net(Position(BoardAt(tree.pool, tree.root, i)))
                              + MapThenSumSet(seen, below)

\* The pool is one tree of the position searched: links agree both ways, every
\* descent plays only empty cells (no SelectionDesync), each node's stones left
\* are its board's, and a driven stone is searched from the board it will be
\* played on, whatever was kept from the stone before (child_reaching, subtree).
PoolIsATree ==
    /\ turn.phase = "drive" => tree.root = board
    /\ \A i \in DOMAIN tree.pool :
        LET b == BoardAt(tree.pool, tree.root, i)
        IN  /\ Cardinality(ToSet(b)) = Len(b)
            /\ tree.pool[i].mr = MovesRemaining(b)
            /\ (i = 1) = (tree.pool[i].parent = 0)
            /\ i # 1 => i \in Children(tree.pool, tree.pool[i].parent)
            /\ \A c \in Children(tree.pool, i) : tree.pool[c].parent = i

\* The search's tree, whatever drops, re-roots and aborted turns went before: one
\* tree of the position searched, with the sums of the evaluations made.
TreeIsWhole == PoolIsATree /\ TreeAddsUp

\* What a stone is charged is the visits it added to its root, a pending leaf
\* counting as one, whatever served each descent, and stays in its budget; so
\* what a turn spends, with the subtree its second stone inherits, fits the pool
\* its game was given (armed_sims_for), whose overflow would panic.
DescentsCharged ==
    turn.phase = "drive" =>
        /\ turn.done + call.spent <= turn.sims
        /\ tree.pool[1].n + Len(call.pending) = turn.inherited + turn.done + call.spent
PoolSuffices == Len(tree.pool) <= slots
BudgetHolds == DescentsCharged /\ PoolSuffices

\* A turn ends whole or not at all: the board is as before the turn, or it has
\* all the turn's stones, fewer only when the last one won.
WholeOrNothing ==
    turn.phase # "none" /\ turn'.phase = "none" =>
        \/ board' = turn.start
        \/ /\ IsPrefix(turn.start, board')
           /\ \/ Len(board') = Len(turn.start) + MovesRemaining(turn.start)
              \/ CheckWin(board')
TurnAllOrNothing == [][WholeOrNothing]_vars

\* A turn whose host keeps pulling and answering ends, though some calls queue
\* no leaf at all (every descent decided or found in the table).
TurnEnds == turn.phase # "none" ~> turn.phase = "none"

=============================================================================
