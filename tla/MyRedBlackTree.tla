---------------------------- MODULE MyRedBlackTree ----------------------------
(***************************************************************************)
(* The map from session IDs to users in every pipe: a red-black tree with  *)
(* one NIL node for all leaves.                                            *)
(*                                                                         *)
(* Modelled: Insert, Delete and the walks.  The loops of InsertFixup and   *)
(* DeleteFixup are one step for each round, so that what every round keeps *)
(* can be said.  A node is named by its key; its value travels with it and *)
(* is left out.  Each pair of mirrored cases of the code is one definition *)
(* with the side as a parameter.                                           *)
(***************************************************************************)
EXTENDS Integers, Sequences, FiniteSets, SequencesExt

CONSTANT Keys

ASSUME KeysAssumption == Keys \subseteq Nat \ {0} /\ IsFiniteSet(Keys)

NIL   == 0
Nodes == Keys \cup {NIL}
Sides == {"left", "right"}
Other(s) == IF s = "left" THEN "right" ELSE "left"

VARIABLES
  tree,    \* root_, and the fields of the nodes
  size,    \* size_
  doing,   \* which loop is running
  at,      \* the node it is at
  answer,  \* what Insert or Delete returns
  rounds   \* history: how often the loop went round

vars == <<tree, size, doing, at, answer, rounds>>

-----------------------------------------------------------------------------
\* The constructor makes the NIL node; its parent is written by RB_Transplant.
Init ==
  /\ tree = [root   |-> NIL,
             child  |-> [s \in Sides |-> [n \in Nodes |-> NIL]],
             parent |-> [n \in Nodes |-> NIL],
             color  |-> [n \in Nodes |-> "black"]]
  /\ size = 0
  /\ doing = "nothing" /\ at = NIL /\ answer = TRUE /\ rounds = 0

Colored(t, n, c) == [t EXCEPT !.color[n] = c]

\* The side of its parent that n is on; the code asks for the left one first.
SideOf(t, n) == IF n = t.child["left"][t.parent[n]] THEN "left" ELSE "right"

\* m takes the place of n under the parent of n.
Hang(t, n, m) ==
  IF t.parent[n] = NIL
  THEN [t EXCEPT !.root = m]
  ELSE [t EXCEPT !.child[SideOf(t, n)][t.parent[n]] = m]

\* Mutant: the inner subtree does not learn of its new parent.
RotateForgets(t, x, s) ==
  LET y == t.child[Other(s)][x]
      b == t.child[s][y]
  IN  [Hang(t, x, y) EXCEPT !.child[Other(s)][x] = b,
                            !.child[s][y] = x,
                            !.parent = [@ EXCEPT ![y] = t.parent[x], ![x] = y]]

\* LeftRotate and RightRotate: x goes down on side s, its other child comes up.
Rotate(t, x, s) ==
  LET y == t.child[Other(s)][x]
      b == t.child[s][y]
  IN  [Hang(t, x, y) EXCEPT !.child[Other(s)][x] = b,
                            !.child[s][y] = x,
                            !.parent = [n \in Nodes |->
                                CASE n = y -> t.parent[x]
                                  [] n = x -> y
                                  [] n = b /\ b # NIL -> x
                                  [] OTHER -> t.parent[n]]]

\* The node where the search for key k ends, and its last node that is not NIL.
Steps == 0..Cardinality(Keys)
Search(t, k) ==
  LET walk[i \in Steps] ==
        IF i = 0 THEN [at |-> t.root, last |-> NIL]
        ELSE LET w == walk[i - 1]
             IN  IF w.at \in {NIL, k} THEN w
                 ELSE [at   |-> t.child[IF k < w.at THEN "left" ELSE "right"][w.at],
                       last |-> w.at]
  IN  walk[Cardinality(Keys)]

MinValueNode(t, n) ==
  LET walk[i \in Steps] ==
        IF i = 0 THEN n
        ELSE LET m == walk[i - 1]
             IN  IF t.child["left"][m] = NIL THEN m ELSE t.child["left"][m]
  IN  walk[Cardinality(Keys)]

-----------------------------------------------------------------------------
(***************************************************************************)
(* Insert.                                                                 *)
(***************************************************************************)
\* A new node under p, on the side its key says.
Linked(t, k, p) ==
  LET side == IF k < p THEN "left" ELSE "right"
  IN  [t EXCEPT !.child  = [s \in Sides |-> [@[s] EXCEPT ![k] = NIL,
                                                         ![p] = IF s = side THEN k ELSE @]],
                !.parent[k] = p,
                !.color[k]  = "red"]

NewRoot(t, k) ==
  [t EXCEPT !.root = k,
            !.child  = [s \in Sides |-> [@[s] EXCEPT ![k] = NIL]],
            !.parent[k] = NIL,
            !.color[k]  = "black"]

Insert(k) ==
  LET found == Search(tree, k)
  IN  /\ doing = "nothing"
      /\ answer' = (found.at = NIL)
      /\ rounds' = 0
      /\ IF found.at # NIL THEN UNCHANGED <<tree, size, doing, at>>
         ELSE /\ size' = size + 1
              /\ IF tree.root = NIL
                 THEN /\ tree' = NewRoot(tree, k)
                      /\ UNCHANGED <<doing, at>>
                 ELSE /\ tree' = Linked(tree, k, found.last)
                      /\ doing' = "InsertFixup" /\ at' = k

\* A red parent has a parent: it is not the root.
RecolorUncle(t, z) ==
  LET p == t.parent[z]
      g == t.parent[p]
      uncle == t.child[Other(SideOf(t, p))][g]
  IN  Colored(Colored(Colored(t, p, "black"), uncle, "black"), g, "red")

\* A node on the inner side is rotated outwards: its parent takes its part.
RotateOutwards(t, z) ==
  LET p == t.parent[z]
      s == SideOf(t, p)
  IN  IF z = t.child[Other(s)][p]
      THEN [tree |-> Rotate(t, p, s), at |-> p]
      ELSE [tree |-> t, at |-> z]

RotateGrandparent(t, z) ==
  LET p == t.parent[z]
      g == t.parent[p]
  IN  Rotate(Colored(Colored(t, p, "black"), g, "red"), g, Other(SideOf(t, p)))

InsertFixup ==
  LET p == tree.parent[at]
      g == tree.parent[p]
      s == SideOf(tree, p)
  IN  /\ doing = "InsertFixup" /\ tree.color[p] = "red"
      /\ IF tree.color[tree.child[Other(s)][g]] = "red"
         THEN tree' = RecolorUncle(tree, at) /\ at' = g
         ELSE LET turned == RotateOutwards(tree, at)
              IN  tree' = RotateGrandparent(turned.tree, turned.at) /\ at' = turned.at
      /\ rounds' = rounds + 1
      /\ UNCHANGED <<size, doing, answer>>

EndInsertFixup ==
  /\ doing = "InsertFixup" /\ tree.color[tree.parent[at]] = "black"
  /\ tree' = Colored(tree, tree.root, "black")
  /\ doing' = "nothing" /\ at' = NIL /\ rounds' = 0
  /\ UNCHANGED <<size, answer>>

-----------------------------------------------------------------------------
(***************************************************************************)
(* Delete.                                                                 *)
(***************************************************************************)
\* The parent of NIL is written too: DeleteFixup climbs from there.
RB_Transplant(t, n, m) == [Hang(t, n, m) EXCEPT !.parent[m] = t.parent[n]]

\* A node with two children gives its place and color to its successor.
ReplacedBySuccessor(t, d) ==
  LET y == MinValueNode(t, t.child["right"][d])
      x == t.child["right"][y]
      right == t.child["right"][d]
      cut == IF t.parent[y] = d
             THEN [t EXCEPT !.parent[x] = y]
             ELSE [RB_Transplant(t, y, x) EXCEPT !.child["right"][y] = right,
                                                 !.parent[right] = y]
      left == t.child["left"][d]
  IN  [RB_Transplant(cut, d, y) EXCEPT !.child["left"][y] = left,
                                       !.parent[left] = y,
                                       !.color[y] = t.color[d]]

\* The tree without d, the node that moved up, and the color that went.
Unlinked(t, d) ==
  LET only == {s \in Sides : t.child[s][d] = NIL}
      y == MinValueNode(t, t.child["right"][d])
  IN  IF only = {}
      THEN [tree |-> ReplacedBySuccessor(t, d), at |-> t.child["right"][y], color |-> t.color[y]]
      ELSE LET m == t.child[IF "left" \in only THEN "right" ELSE "left"][d]
           IN  [tree |-> RB_Transplant(t, d, m), at |-> m, color |-> t.color[d]]

\* Fields of a node that went back to the pool.
Freed(t, d) ==
  [t EXCEPT !.child  = [s \in Sides |-> [@[s] EXCEPT ![d] = NIL]],
            !.parent[d] = NIL,
            !.color[d]  = "black"]

\* Mutant: the color of the deleted node decides, not that of its successor.
DeleteLooksAtNode(k) ==
  LET u == Unlinked(tree, k)
  IN  /\ doing = "nothing"
      /\ answer' = (Search(tree, k).at = k)
      /\ rounds' = 0
      /\ IF ~answer' THEN UNCHANGED <<tree, size, doing, at>>
         ELSE /\ tree' = Freed(u.tree, k)
              /\ size' = size - 1
              /\ IF tree.color[k] = "black"
                 THEN doing' = "DeleteFixup" /\ at' = u.at
                 ELSE UNCHANGED <<doing, at>>

Delete(k) ==
  LET u == Unlinked(tree, k)
  IN  /\ doing = "nothing"
      /\ answer' = (Search(tree, k).at = k)
      /\ rounds' = 0
      /\ IF ~answer' THEN UNCHANGED <<tree, size, doing, at>>
         ELSE /\ tree' = Freed(u.tree, k)
              /\ size' = size - 1
              /\ IF u.color = "black"
                 THEN doing' = "DeleteFixup" /\ at' = u.at
                 ELSE UNCHANGED <<doing, at>>

\* Case 1: a red sibling is rotated up, and a black one comes in its place.
BlackSibling(t, x) ==
  LET p == t.parent[x]
      s == SideOf(t, x)
      w == t.child[Other(s)][p]
  IN  IF t.color[w] = "red"
      THEN Rotate(Colored(Colored(t, w, "black"), p, "red"), p, s)
      ELSE t

\* Case 3: the outer nephew is made red.
OuterNephewRed(t, x, s) ==
  LET w == t.child[Other(s)][t.parent[x]]
  IN  IF t.color[t.child[Other(s)][w]] = "black"
      THEN Rotate(Colored(Colored(t, t.child[s][w], "black"), w, "red"), w, Other(s))
      ELSE t

\* Case 4.
RotateParent(t, x, s) ==
  LET p == t.parent[x]
      w == t.child[Other(s)][p]
  IN  Rotate(Colored(Colored(Colored(t, w, t.color[p]), p, "black"),
                     t.child[Other(s)][w], "black"), p, s)

DeleteFixup ==
  LET s == SideOf(tree, at)
      t == BlackSibling(tree, at)
      p == t.parent[at]
      w == t.child[Other(s)][p]
      case4 == RotateParent(OuterNephewRed(t, at, s), at, s)
  IN  /\ doing = "DeleteFixup" /\ at # tree.root /\ tree.color[at] = "black"
      /\ IF \A side \in Sides : t.color[t.child[side][w]] = "black"
         THEN tree' = Colored(t, w, "red") /\ at' = p
         ELSE tree' = case4 /\ at' = case4.root
      /\ rounds' = rounds + 1
      /\ UNCHANGED <<size, doing, answer>>

EndDeleteFixup ==
  /\ doing = "DeleteFixup" /\ (at = tree.root \/ tree.color[at] = "red")
  /\ tree' = Colored(tree, at, "black")
  /\ doing' = "nothing" /\ at' = NIL /\ rounds' = 0
  /\ UNCHANGED <<size, answer>>

-----------------------------------------------------------------------------
Next ==
  \/ InsertFixup \/ EndInsertFixup \/ DeleteFixup \/ EndDeleteFixup
  \/ \E k \in Keys : Insert(k) \/ Delete(k)

Spec == Init /\ [][Next]_vars

-----------------------------------------------------------------------------
(***************************************************************************)
(* What the tree has to achieve.                                           *)
(***************************************************************************)
\* InorderTreeWalk from node n, cut off at depth d in case there is a cycle.
RECURSIVE InorderTreeWalk(_, _, _)
InorderTreeWalk(t, n, d) ==
  IF n = NIL \/ d = 0 THEN <<>>
  ELSE InorderTreeWalk(t, t.child["left"][n], d - 1)
         \o <<n>> \o InorderTreeWalk(t, t.child["right"][n], d - 1)

Foreach == InorderTreeWalk(tree, tree.root, Cardinality(Keys))

\* The tree is a set of keys to its pipe, whatever was rotated: Foreach visits the
\* keys in order, Insert and Delete answer as the set would (NetPipe.cpp:130-206).
Set == INSTANCE OrderedSet WITH walk <- Foreach
ImplementsSet == Set!Spec

InTree == ToSet(Foreach)

\* The black nodes on the way down, for both sides the same; -1 if they differ.
RECURSIVE BlackHeight(_, _)
BlackHeight(n, d) ==
  LET l == BlackHeight(tree.child["left"][n], d - 1)
      r == BlackHeight(tree.child["right"][n], d - 1)
  IN  IF n = NIL \/ d = 0 THEN 0
      ELSE IF l # r \/ l = -1 THEN -1
      ELSE l + (IF tree.color[n] = "black" THEN 1 ELSE 0)

\* Both loops end, after as many rounds as the tree has black nodes on a path, and
\* one more: a call takes logarithmic time however the tree came about.
FixupsEnd == 2 ^ rounds <= 2 * (size + 2)

\* Between two calls the tree is red-black, so a search takes at most twice the
\* logarithm of the users; parents know their children, or the next rotation would
\* lose a subtree; size_ counts the keys; and the loop that repairs the tree always
\* ends (MyRedBlackTree.h:378-435, 450-537).
RedBlack ==
  /\ FixupsEnd
  /\ doing = "nothing" =>
    /\ size = Cardinality(InTree)
    /\ \A k \in InTree, s \in Sides :
         tree.child[s][k] # NIL => tree.parent[tree.child[s][k]] = k
    /\ tree.color[tree.root] = "black" /\ tree.color[NIL] = "black"
    /\ \A k \in InTree : tree.color[k] = "red" => tree.color[tree.parent[k]] = "black"
    /\ BlackHeight(tree.root, Cardinality(Keys)) # -1
=============================================================================
