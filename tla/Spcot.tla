-------------------------------- MODULE Spcot --------------------------------
(***************************************************************************)
(* One single-point COT (ferret/spcot_sender.h, spcot_recver.h): the sender*)
(* expands a seed into a GGM tree, layer by layer and in place, and sends  *)
(* the sums of the left and of the right nodes of every layer by OT; the   *)
(* receiver rebuilds all leaves but one from the sums that it has chosen.  *)
(*                                                                         *)
(* A block is symbolic: a pair of sets of atoms, the first for its upper   *)
(* bits and the second for its least bit, where the choice bit of a COT is *)
(* kept.  XOR is symmetric difference.  A node of the sender's tree is one *)
(* atom, a number: 1 for the seed, 2k and 2k + 1 for the children of k.    *)
(* Whatever is expanded from another block is no node.                     *)
(***************************************************************************)
EXTENDS Integers, Sequences, FiniteSetsExt, SequencesExt

CONSTANT Depths    \* bound: the heights of the trees, the root included

ASSUME DepthAssumption == Depths \subseteq {d \in Nat : d >= 3}

VARIABLES depth,   \* depth (tree_height)
          b,       \* the receiver's choice bits
          snd,     \* SPCOT_Sender: see SenderState
          rcv,     \* SPCOT_Recver: see ReceiverState
          wire     \* the pads and the sum on their way

vars == <<depth, b, snd, rcv, wire>>

Levels == depth - 1              \* layers below the root
Level == 0..(Levels - 1)
Leaf == 0..(2^Levels - 1)

(*-------------------------------- blocks --------------------------------*)
Zero == <<{}, {}>>
Atom(k) == <<{k}, {k}>>
Plus(x, y) == <<SymDiff(x[1], y[1]), SymDiff(x[2], y[2])>>

\* The sum of a family of sets holds what an odd number of them holds.
OddOf(f(_), S) == {a \in UNION {f(i) : i \in S} :
                     Cardinality({i \in S : a \in f(i)}) % 2 = 1}
SumOver(t, S) == LET Part(c) == OddOf(LAMBDA i : t[i][c], S)
                 IN  <<Part(1), Part(2)>>

\* The seed, the secret (least bit 1), and what the tree's memory held before
Seed == Atom(1)
One == <<{}, {0}>>
Delta == <<{-1}, One[2]>>
Junk(i) == Atom(-10 - i)

\* x & one: the least bit is cleared.
ClearLSB(x) == <<x[1], {}>>

(*--------------------------- expansion in place -------------------------*)
\* TwoKeyPRP: the left (0) or right (1) child of a node
Child(x, side) ==
    IF \E k \in x[1] : k > 0 /\ x = Atom(k)
    THEN Atom(2 * (CHOOSE k \in x[1] : TRUE) + side)
    ELSE Atom(-2 - side)

(* node_expand_2to4 and node_expand_4to8 on &tree[2i], &tree[i]: they read
   the k parents before they write a child over one. *)
ExpandNodes(t, i, k) ==
    [j \in DOMAIN t |-> IF j \in (2*i)..(2*i + 2*k - 1)
                        THEN Child(t[j \div 2], j % 2) ELSE t[j]]

\* Mutant: the groups of four are expanded from the left.
GroupsFromLeft(sz) == IF sz = 2 THEN <<0>> ELSE [g \in 1..(sz \div 4) |-> 4*g - 4]

\* The starts of the groups that a layer of sz nodes is expanded in
Groups(sz) == IF sz = 2 THEN <<0>> ELSE [g \in 1..(sz \div 4) |-> sz - 4*g]

ExpandLayer(t, sz) ==
    FoldLeft(LAMBDA a, i : ExpandNodes(a, i, IF sz = 2 THEN 2 ELSE 4), t, Groups(sz))

Side(h, side) == {i \in 0..(2^(h + 1) - 1) : i % 2 = side}

(*--------------------------------- sender -------------------------------*)
\* m holds the sums of the left and of the right nodes of each layer
SenderState == [pc |-> "tree", level |-> 0, tree |-> [i \in Leaf |-> Junk(i)],
                m |-> [l \in Level |-> <<Zero, Zero>>], sum |-> Zero, V |-> {}]

\* A side at its last layer goes on to the step pc, else to the next layer.
After(s, pc) == IF s.level + 1 < Levels THEN [s EXCEPT !.level = @ + 1]
                                        ELSE [s EXCEPT !.level = 0, !.pc = pc]

NextLayer == IF snd.level = 0
             THEN [snd.tree EXCEPT ![0] = Child(Seed, 0), ![1] = Child(Seed, 1)]
             ELSE ExpandLayer(snd.tree, 2^snd.level)

Sums(t, h) == <<SumOver(t, Side(h, 0)), SumOver(t, Side(h, 1))>>
Cleared(t) == [i \in Leaf |-> ClearLSB(t[i])]

\* Mutant: the leaves are summed before their least bits are cleared.
MaskedUncleared(t) == Plus(SumOver(t, Leaf), Delta)

\* secret_sum_f2: the secret, masked by the sum of the leaves
Masked(t) == Plus(SumOver(Cleared(t), Leaf), Delta)

SumMsg == <<<<snd.sum>>>>

(* chi[i] comes from a hash of the sum; a product with it is a set of atoms
   that names the sum, the leaf's place and the atom of the leaf. *)
Product(sum, i, x) == {<<sum, i, 1, a>> : a \in x[1]} \cup {<<sum, i, 2, a>> : a \in x[2]}
InnerProduct(sum, t) == OddOf(LAMBDA i : Product(sum, i, t[i]), Leaf)

SenderDoes(pc, s, sent) ==
    snd.pc = pc /\ snd' = s /\ wire' = wire \o sent /\ UNCHANGED <<depth, b, rcv>>

\* One round of ggm_tree_gen
SenderLayer == SenderDoes("tree",
    After([snd EXCEPT !.tree = NextLayer, !.m[snd.level] = Sums(NextLayer, snd.level)], "mask"),
    <<>>)

SenderMask == SenderDoes("mask",
    [snd EXCEPT !.tree = Cleared(@), !.sum = Masked(snd.tree), !.pc = "send"], <<>>)

SenderSend == SenderDoes("send", After(snd, "sum"), <<snd.m[snd.level]>>)
SenderSendSum == SenderDoes("sum", [snd EXCEPT !.pc = "check"], SumMsg)
SenderCheck == SenderDoes("check",
    [snd EXCEPT !.V = InnerProduct(snd.sum, snd.tree), !.pc = "done"], <<>>)

(*-------------------------------- receiver ------------------------------*)
\* m holds the sums it has chosen; toFill is to_fill_idx
ReceiverState == [pc |-> "recv", level |-> 0, tree |-> [i \in Leaf |-> Junk(i)],
                  m |-> [l \in Level |-> Zero], toFill |-> 0, sum |-> Zero, W |-> {}]

\* get_index: a bit that chooses the left sum leaves the right node unknown.
IndexBits[l \in 0..Levels] ==
    IF l = 0 THEN 0 ELSE 2 * IndexBits[l - 1] + (IF b[l - 1] THEN 0 ELSE 1)
GetIndex == IndexBits[Levels]

ReceiverDoes(pc, r) ==
    rcv.pc = pc /\ rcv' = r /\ UNCHANGED <<depth, b, snd, wire>>

ReceiverReads(pc, r) ==
    /\ rcv.pc = pc /\ wire # <<>>
    /\ rcv' = r /\ wire' = Tail(wire)
    /\ UNCHANGED <<depth, b, snd>>

\* OTPre::recv, of whose pads the receiver can open the chosen one
RecvLevel == ReceiverReads("recv",
    After([rcv EXCEPT !.m[rcv.level] = Head(wire)[IF b[rcv.level] THEN 2 ELSE 1]], "sum"))

RecvSum == ReceiverReads("sum", [rcv EXCEPT !.sum = Head(wire)[1], !.pc = "tree"])

(* layer_recover computes the node on the chosen side from the sum of that
   side, and the layer is expanded unless it is the last. *)
Recovered(t, at, side) ==
    LET sum == SumOver(t, Side(rcv.level, side))
        layer == [t EXCEPT ![at + side] = Plus(sum, rcv.m[rcv.level])]
    IN  IF rcv.level + 1 = Levels THEN layer ELSE ExpandLayer(layer, 2^(rcv.level + 1))

\* Mutant: the node that was just recovered is taken for the unknown one.
HoleRecovered(at, side) == at + side

Hole(at, side) == at + 1 - side

\* One round of ggm_tree_reconstruction; the two nodes below the hole are blanked.
ReceiverLayer ==
    LET at == 2 * rcv.toFill
        side == IF b[rcv.level] THEN 1 ELSE 0
        blank == [rcv.tree EXCEPT ![at] = Zero, ![at + 1] = Zero]
    IN  ReceiverDoes("tree",
          After([rcv EXCEPT !.tree = Recovered(blank, at, side), !.toFill = Hole(at, side)],
                "fill"))

\* Mutant: the least bits are cleared after the chosen leaf is filled.
FilledThenCleared(t) ==
    LET known == [t EXCEPT ![GetIndex] = Zero]
    IN  Cleared([known EXCEPT ![GetIndex] = Plus(SumOver(known, Leaf), rcv.sum)])

Filled(t) ==
    LET known == Cleared([t EXCEPT ![GetIndex] = Zero])
    IN  [known EXCEPT ![GetIndex] = Plus(SumOver(known, Leaf), rcv.sum)]

\* The end of SPCOT_Recver::compute
ReceiverFill == ReceiverDoes("fill", [rcv EXCEPT !.tree = Filled(@), !.pc = "check"])

ReceiverCheck == ReceiverDoes("check",
    [rcv EXCEPT !.W = InnerProduct(rcv.sum, rcv.tree), !.pc = "done"])

(*------------------------------ specification ---------------------------*)
Init ==
    /\ depth \in Depths
    /\ b \in [Level -> BOOLEAN]
    /\ snd = SenderState /\ rcv = ReceiverState
    /\ wire = <<>>

Sender == SenderLayer \/ SenderMask \/ SenderSend \/ SenderSendSum \/ SenderCheck
Receiver == RecvLevel \/ RecvSum \/ ReceiverLayer \/ ReceiverFill \/ ReceiverCheck
Next == Sender \/ Receiver
Spec == Init /\ [][Next]_vars
FairSpec == Spec /\ WF_vars(Sender) /\ WF_vars(Receiver)

(*------------------------------- properties -----------------------------*)
\* The i-th node of layer h, by the path that leads to it
Node(h, i) == Atom(2^(h + 1) + i)

(* Every expansion in place leaves the nodes of the next layer in their
   order, none computed from a node that was already overwritten
   (spcot_sender.h:61-86, twokeyprp.h:25-63). *)
LayerInOrder ==
    /\ snd.pc = "tree" /\ snd.level > 0 =>
          \A i \in 0..(2^snd.level - 1) : snd.tree[i] = Node(snd.level - 1, i)
    /\ snd.pc = "mask" => \A i \in Leaf : snd.tree[i] = Node(Levels - 1, i)

(* While the receiver rebuilds the tree it knows every node of the layer
   but the one on the path to its index, and it does not know that one
   (spcot_recver.h:66-95). *)
OneNodeUnknown ==
    /\ rcv.pc = "tree" /\ rcv.level > 0 =>
          \A i \in 0..(2^(rcv.level + 1) - 1) :
              (rcv.tree[i] = Node(rcv.level, i)) <=> (i \div 2 # rcv.toFill)
    /\ rcv.pc = "fill" => rcv.toFill = GetIndex
                       /\ \A i \in Leaf : (rcv.tree[i] = Node(Levels - 1, i)) <=> (i # rcv.toFill)

(* In the end the two trees agree at every leaf but the receiver's index,
   where they differ by the secret; that leaf alone has least bit 1, the
   receiver's choice bit (spcot_recver.h:53-64; README.md:143). *)
SinglePoint ==
    rcv.pc \in {"check", "done"} =>
        \A i \in Leaf : /\ rcv.tree[i] = IF i = GetIndex THEN Plus(snd.tree[i], Delta) ELSE snd.tree[i]
                        /\ rcv.tree[i][2] = IF i = GetIndex THEN One[2] ELSE {}

(* Both sides come to the end, what the receiver reads being what is sent,
   with messages for the consistency check that differ by chi at the index
   times the secret (mpcot_reg.h:169-212 relies on it). *)
ChecksMatch ==
    <>(/\ snd.pc = "done" /\ rcv.pc = "done"
       /\ rcv.W = SymDiff(snd.V, Product(snd.sum, GetIndex, Delta)))
=============================================================================
