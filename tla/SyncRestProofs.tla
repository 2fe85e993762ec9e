--------------------------- MODULE SyncRestProofs ---------------------------
(***************************************************************************)
(* What holds of one Sync object that allows reorganisations when none of  *)
(* its calls is running: the main chain is the tip's branch, the next      *)
(* pointers lead along it, and the transaction index is of it; and what    *)
(* its steps do meanwhile: they implement ChainIndex.                      *)
(***************************************************************************)
EXTENDS SyncIndex, SyncHeightProofs, FiniteSetTheorems, WellFoundedInduction

-----------------------------------------------------------------------------
(* The tree *)

\* A set of numbers has a least one.
LEMMA LeastNumber ==
    ASSUME NEW S \in SUBSET Nat, S # {}
    PROVE  \E x \in S : \A y \in S : x <= y
<1>. DEFINE R == OpToRel(<, Nat)
<1>1. \A x, y \in Nat : <<y, x>> \in R <=> y < x
  BY DEF OpToRel
<1>2. IsWellFoundedOn(R, Nat)
  BY NatLessThanWellFounded
<1>. HIDE DEF R
<1>3. PICK x \in S : \A y \in S : ~(<<y, x>> \in R)
  BY <1>2, WFMin
<1>4. ASSUME NEW y \in S PROVE x <= y
  <2>1. x \in Nat /\ y \in Nat /\ ~(y < x)
    BY <1>1, <1>3
  <2>. QED BY <2>1
<1>. QED BY <1>4

\* Induction along the branches: a set that holds Genesis and every child of
\* its members holds every block.
LEMMA EveryBlock ==
    ASSUME NEW S, Genesis \in S, \A b \in Block \ {Genesis} : ParentOf[b] \in S => b \in S
    PROVE  \A b \in Block : b \in S
<1>. DEFINE D == {Depth[b] : b \in {c \in Block : c \notin S}}
<1>. SUFFICES ASSUME D # {} PROVE FALSE
  OBVIOUS
<1>1. D \in SUBSET Nat
  BY BlockTree
<1>2. PICK n \in D : \A m \in D : n <= m
  <2>. HIDE DEF D
  <2>. QED BY <1>1, LeastNumber
<1>3. PICK b \in Block : b \notin S /\ Depth[b] = n
  BY <1>2
<1>4. b # Genesis
  BY <1>3
<1>5. ParentOf[b] \in Block /\ ParentOf[b] \notin S
  BY <1>3, <1>4, BlockTree
<1>6. Depth[ParentOf[b]] \in D
  BY <1>5
<1>7. Depth[b] = Depth[ParentOf[b]] + 1 /\ Depth[ParentOf[b]] \in Nat
  BY <1>4, <1>5, BlockTree
<1>8. n <= Depth[ParentOf[b]]
  BY <1>2, <1>6
<1>. QED BY <1>3, <1>7, <1>8

\* Genesis is an ancestor of every block.
LEMMA GenesisBelow == \A b \in Block : Genesis \in Branch[b]
<1>. DEFINE S == {x \in Block : Genesis \in Branch[x]}
<1>1. Genesis \in S
  BY Names, Branches
<1>2. ASSUME NEW b \in Block \ {Genesis}, ParentOf[b] \in S PROVE b \in S
  BY <1>2, Branches
<1>. HIDE DEF S
<1>3. \A b \in Block : b \in S
  BY <1>1, <1>2, EveryBlock
<1>. QED BY <1>3 DEF S

\* An ancestor's branch is part of a block's own.
LEMMA BranchWithin ==
    ASSUME NEW x \in Block, NEW b \in Branch[x]
    PROVE  b \in Block /\ Branch[b] \subseteq Branch[x]
<1>. DEFINE S == {y \in Block : \A a \in Branch[y] : a \in Block /\ Branch[a] \subseteq Branch[y]}
<1>1. Genesis \in S
  BY Names, Branches
<1>2. ASSUME NEW y \in Block \ {Genesis}, ParentOf[y] \in S PROVE y \in S
  <2>1. Branch[y] = Branch[ParentOf[y]] \cup {y}
    BY Branches
  <2>. QED BY <1>2, <2>1
<1>. HIDE DEF S
<1>3. \A y \in Block : y \in S
  BY <1>1, <1>2, EveryBlock
<1>. QED BY <1>3 DEF S

\* Of a branch only its last block has its depth, and none has more.
LEMMA BranchDepth ==
    ASSUME NEW x \in Block, NEW b \in Branch[x]
    PROVE  /\ Depth[b] \in Nat /\ Depth[x] \in Nat
           /\ b # x => Depth[b] < Depth[x]
<1>. DEFINE S == {y \in Block : \A a \in Branch[y] : a = y \/ Depth[a] < Depth[y]}
<1>1. Genesis \in S
  BY Names, Branches
<1>2. ASSUME NEW y \in Block \ {Genesis}, ParentOf[y] \in S PROVE y \in S
  <2>1. Branch[y] = Branch[ParentOf[y]] \cup {y}
    BY Branches
  <2>2. Depth[y] = Depth[ParentOf[y]] + 1 /\ Depth[ParentOf[y]] \in Nat
    BY <1>2, BlockTree
  <2>3. ASSUME NEW a \in Branch[y], a # y PROVE Depth[a] < Depth[y]
    <3>1. a \in Branch[ParentOf[y]] /\ a \in Block
      BY <1>2, <2>1, <2>3, BranchWithin
    <3>2. Depth[a] \in Nat
      BY <3>1, BlockTree
    <3>. QED BY <1>2, <2>2, <3>1, <3>2
  <2>. QED BY <2>3
<1>. HIDE DEF S
<1>3. \A y \in Block : y \in S
  BY <1>1, <1>2, EveryBlock
<1>4. b \in Block
  BY BranchWithin
<1>. QED BY <1>3, <1>4, BlockTree DEF S

\* Of two ancestors of a block one is an ancestor of the other.
LEMMA BranchOrder ==
    ASSUME NEW x \in Block, NEW a \in Branch[x], NEW b \in Branch[x]
    PROVE  a \in Branch[b] \/ b \in Branch[a]
<1>. DEFINE S == {y \in Block : \A c, d \in Branch[y] : c \in Branch[d] \/ d \in Branch[c]}
<1>1. Genesis \in S
  BY Names, Branches
<1>2. ASSUME NEW y \in Block \ {Genesis}, ParentOf[y] \in S PROVE y \in S
  <2>1. Branch[y] = Branch[ParentOf[y]] \cup {y}
    BY Branches
  <2>. QED BY <1>2, <2>1
<1>. HIDE DEF S
<1>3. \A y \in Block : y \in S
  BY <1>1, <1>2, EveryBlock
<1>. QED BY <1>3 DEF S

\* The parent of a block of a branch is on it.
LEMMA ParentWithin ==
    ASSUME NEW x \in Block, NEW b \in Branch[x], b # Genesis
    PROVE  ParentOf[b] \in Branch[x] /\ ParentOf[b] \in Block
<1>1. b \in Block /\ Branch[b] \subseteq Branch[x]
  BY BranchWithin
<1>. QED BY <1>1, ParentFacts

\* ... and every block of it but the last has a child on it.
LEMMA ChildWithin ==
    ASSUME NEW x \in Block, NEW b \in Branch[x], b # x
    PROVE  \E c \in Branch[x] : c \in Block /\ ParentOf[c] = b
<1>. DEFINE S == {y \in Block : \A a \in Branch[y] : a = y \/ \E c \in Branch[y] : ParentOf[c] = a}
<1>1. Genesis \in S
  BY Names, Branches
<1>2. ASSUME NEW y \in Block \ {Genesis}, ParentOf[y] \in S PROVE y \in S
  <2>1. Branch[y] = Branch[ParentOf[y]] \cup {y}
    BY Branches
  <2>. QED BY <1>2, <2>1
<1>. HIDE DEF S
<1>3. \A y \in Block : y \in S
  BY <1>1, <1>2, EveryBlock
<1>. QED BY <1>3, BranchWithin DEF S

\* Only one.
LEMMA OneChildWithin ==
    ASSUME NEW x \in Block, NEW c \in Branch[x], NEW d \in Branch[x],
           ParentOf[c] = ParentOf[d], ParentOf[c] \in Block
    PROVE  c = d
<1>. SUFFICES ASSUME NEW a \in Branch[x], NEW b \in Branch[x], a # b, ParentOf[a] = ParentOf[b],
                     ParentOf[a] \in Block, a \in Branch[b]
              PROVE  FALSE
  BY BranchOrder
<1>1. a \in Block /\ b \in Block /\ a # Genesis /\ b # Genesis
  BY BranchWithin, BlockTree, Names
<1>2. a \in Branch[ParentOf[a]]
  BY <1>1, Branches
<1>3. Depth[a] = Depth[ParentOf[a]] + 1 /\ Depth[ParentOf[a]] \in Nat
  BY <1>1, BlockTree
<1>4. a = ParentOf[a] \/ Depth[a] < Depth[ParentOf[a]]
  BY <1>2, BranchDepth
<1>. QED BY <1>3, <1>4

\* What lies on a branch behind b is there behind b's child.
LEMMA BehindChild ==
    ASSUME NEW x \in Block, NEW c \in Branch[x], ParentOf[c] \in Block, NEW b \in Branch[x],
           ParentOf[c] \in Branch[b], b # ParentOf[c]
    PROVE  c \in Branch[b]
<1>1. b \in Block /\ Branch[b] \subseteq Branch[x]
  BY BranchWithin
<1>2. PICK d \in Branch[b] : ParentOf[d] = ParentOf[c]
  BY <1>1, ChildWithin
<1>3. d = c
  BY <1>1, <1>2, OneChildWithin
<1>. QED BY <1>2, <1>3

\* A child is not on its parent's branch.
LEMMA ChildNotBelow ==
    ASSUME NEW c \in Block, ParentOf[c] \in Block
    PROVE  c \notin Branch[ParentOf[c]]
<1>1. Depth[c] = Depth[ParentOf[c]] + 1 /\ Depth[ParentOf[c]] \in Nat
  BY DepthOfChild
<1>. QED BY <1>1, BranchDepth

-----------------------------------------------------------------------------
(* What is known of a reorganisation at each of its points *)

BranchTo(h) == IF h \in Block THEN Branch[h] ELSE {}

\* The next pointers nx lead along the branch S up to its last block.
Leads(S, last, nx) == \A b \in S \ {last} : nx[b] \in S

\* The blocks on t's branch from z on, and the pointers there.
Above(z, t) == {b \in BranchTo(t.hash) : z \in Branch[b]}
LeadsAbove(z, t, nx) == \A b \in Above(z, t) \ {t.hash} : nx[b] \in BranchTo(t.hash)

\* The pointers on what the branch of np has of its own.
Straight(np, t, nx) == \A b \in Branch[np] \ BranchTo(t.hash) : b # np => nx[b] \in Branch[np]

\* No stored block has b as its parent.
Leaf(b, st) == \A x \in st : ParentOf[x] # b

\* The parent of every block of S has a next pointer.
Linked(S, nx) == \A x \in S : nx[ParentOf[x]] # Null

\* The blocks with several stored children.
Forked(st) == {b \in Block : \E x, y \in st : x # y /\ ParentOf[x] = b /\ ParentOf[y] = b}

\* What HInv says of the stored blocks st, the next pointers nx and a tip t.
WebOK(st, nx, t) ==
    /\ \A b \in st : b \in Block /\ Branch[b] \subseteq st
    /\ \A h \in Hash \ {Null} : nx[h] # Null => nx[h] \in st /\ ParentOf[nx[h]] = h
    /\ t # NoTip => t.hash \in st
    /\ t \in TipVal

LEMMA BranchToBlock ==
    ASSUME NEW b \in Block
    PROVE  BranchTo(b) = Branch[b] /\ b \in BranchTo(b)
  BY ParentFacts DEF BranchTo

LEMMA NextInWeb ==
    ASSUME NEW st, NEW nx, NEW t, WebOK(st, nx, t), NEW b \in Block, nx[b] # Null
    PROVE  nx[b] \in st /\ nx[b] \in Block /\ ParentOf[nx[b]] = b
  BY Names DEF WebOK, Hash

\* On a branch a next pointer that stays on it is the child's.
LEMMA NextIsOn ==
    ASSUME NEW st, NEW nx, NEW t, WebOK(st, nx, t), NEW x \in Block, NEW y \in Branch[x],
           NEW b \in Branch[y], b # y, nx[b] \in Branch[x]
    PROVE  nx[b] \in Branch[y]
<1>1. y \in Block /\ Branch[y] \subseteq Branch[x] /\ b \in Block
  BY BranchWithin
<1>2. PICK d \in Branch[y] : ParentOf[d] = b
  BY <1>1, ChildWithin
<1>3. nx[b] # Null
  BY BranchWithin, Names
<1>4. ParentOf[nx[b]] = b
  BY <1>1, <1>3, NextInWeb
<1>5. d = nx[b]
  BY <1>1, <1>2, <1>4, OneChildWithin
<1>. QED BY <1>2, <1>5

\* Case 1: the new block's parent np is on the main chain below the tip.  What is
\* to leave begins at np's next.
LEMMA OnMain ==
    ASSUME NEW st, NEW nx, NEW t, WebOK(st, nx, t), t.hash \in Block,
           NEW np \in Branch[t.hash], np # t.hash,
           Leads(Branch[t.hash], t.hash, nx)
    PROVE  /\ nx[np] \in Branch[t.hash] \ Branch[np]
           /\ Branch[t.hash] = Branch[np] \cup Above(nx[np], t)
           /\ Leads(Branch[np], np, nx)
           /\ LeadsAbove(nx[np], t, nx)
<1>. DEFINE z == nx[np]
<1>1. BranchTo(t.hash) = Branch[t.hash]
  BY BranchToBlock
<1>2. z \in Branch[t.hash] /\ z \in Block /\ np \in Block
  BY BranchWithin DEF Leads
<1>3. ParentOf[z] = np
  BY <1>2, NextInWeb, Names
<1>. HIDE DEF z
<1>4. z \notin Branch[np]
  BY <1>2, <1>3, ChildNotBelow
<1>5. ASSUME NEW b \in Branch[t.hash], b \notin Branch[np]
      PROVE  z \in Branch[b]
  <2>1. np \in Branch[b] /\ b # np
    BY <1>2, <1>5, BranchOrder, ParentFacts
  <2>. QED BY <1>2, <1>3, <2>1, BehindChild
<1>6. Branch[t.hash] = Branch[np] \cup Above(z, t)
  BY <1>1, <1>5, BranchWithin DEF Above
<1>7. Leads(Branch[np], np, nx)
  <2>. SUFFICES ASSUME NEW b \in Branch[np], b # np
                PROVE  nx[b] \in Branch[np]
    BY DEF Leads
  <2>1. b \in Branch[t.hash] /\ b # t.hash
    <3>1. Branch[np] \subseteq Branch[t.hash]
      BY BranchWithin
    <3>2. Depth[b] < Depth[np] /\ Depth[np] < Depth[t.hash]
      BY <1>2, BranchDepth
    <3>3. Depth[b] \in Nat /\ Depth[np] \in Nat
      BY <1>2, BranchDepth
    <3>. QED BY <3>1, <3>2, <3>3
  <2>2. nx[b] \in Branch[t.hash]
    BY <2>1 DEF Leads
  <2>. QED BY <2>2, NextIsOn
<1>8. LeadsAbove(z, t, nx)
  BY <1>1 DEF LeadsAbove, Above, Leads
<1>. QED BY <1>2, <1>4, <1>6, <1>7, <1>8 DEF z

\* Case 2: as long as blocks with several children are on the main chain, the
\* pointers on the branch to connect lead along it.
LEMMA OffMain ==
    ASSUME NEW st, NEW nx, NEW t, WebOK(st, nx, t), NEW np \in st,
           Linked(st, nx), Forked(st) \subseteq BranchTo(t.hash)
    PROVE  Straight(np, t, nx)
<1>. SUFFICES ASSUME NEW b \in Branch[np], b \notin BranchTo(t.hash), b # np
              PROVE  nx[b] \in Branch[np]
  BY DEF Straight
<1>1. np \in Block /\ Branch[np] \subseteq st /\ b \in Block
  BY BranchWithin DEF WebOK
<1>2. PICK d \in Branch[np] : d \in Block /\ ParentOf[d] = b
  BY <1>1, ChildWithin
<1>3. d \in st
  BY <1>1
<1>4. nx[b] # Null
  BY <1>2, <1>3 DEF Linked
<1>5. nx[b] \in st /\ ParentOf[nx[b]] = b
  BY <1>1, <1>4, NextInWeb
<1>6. d = nx[b]
  BY <1>1, <1>2, <1>3, <1>5 DEF Forked
<1>. QED BY <1>2, <1>6

\* The branches of the tip and of np part at y; setNext(y, last) turns the pointers
\* to np's side, and what is to leave begins at the pointer y had.
LEMMA Turn ==
    ASSUME NEW st, NEW nx, NEW t, WebOK(st, nx, t), t.hash \in Block, nx \in [Hash -> Block \cup {Null}],
           NEW np \in st, NEW last \in Branch[np] \ Branch[t.hash],
           ParentOf[last] \in Branch[t.hash],
           Leaf(t.hash, st), Leads(Branch[t.hash], t.hash, nx), Straight(np, t, nx)
    PROVE  LET y == ParentOf[last]
               z == nx[y]
               nx2 == [nx EXCEPT ![y] = last]
           IN  /\ z \in Branch[t.hash] \ Branch[np]
               /\ Branch[t.hash] \cup Branch[np] = Branch[np] \cup Above(z, t)
               /\ Leads(Branch[np], np, nx2)
               /\ LeadsAbove(z, t, nx2)
<1>. DEFINE y == ParentOf[last]
            z == nx[y]
            nx2 == [nx EXCEPT ![y] = last]
<1>1. /\ BranchTo(t.hash) = Branch[t.hash] /\ t.hash \in Branch[t.hash]
      /\ np \in Block /\ Branch[np] \subseteq st /\ last \in Block /\ last \in st
  BY BranchToBlock, BranchWithin DEF WebOK
<1>2. y \in Block /\ y \in Branch[t.hash] /\ y # t.hash
  BY <1>1, BranchWithin DEF Leaf
<1>3. z \in Branch[t.hash] /\ z \in Block
  BY <1>2, BranchWithin DEF Leads
<1>4. ParentOf[z] = y
  BY <1>2, <1>3, NextInWeb, Names
<1>5. y \in Branch[np]
  BY <1>1, <1>2, BlockTree, Names, ParentWithin
<1>6. z \notin Branch[np]
  <2>1. z \in Branch[np] => z = last
    BY <1>1, <1>2, <1>4, OneChildWithin
  <2>. QED BY <1>3, <2>1
<1>7. \A h \in Hash : nx2[h] = IF h = y THEN last ELSE nx[h]
  OBVIOUS
<1>. HIDE DEF y, z, nx2
<1>8. ASSUME NEW b \in Branch[t.hash], b \notin Branch[np]
      PROVE  z \in Branch[b]
  <2>1. Branch[y] \subseteq Branch[np]
    BY <1>1, <1>5, BranchWithin
  <2>2. y \in Branch[b] /\ b # y
    BY <1>2, <1>5, <1>8, <2>1, BranchOrder
  <2>. QED BY <1>2, <1>3, <1>4, <2>2, BehindChild
<1>9. Branch[t.hash] \cup Branch[np] = Branch[np] \cup Above(z, t)
  BY <1>1, <1>8 DEF Above
<1>10. Leads(Branch[np], np, nx2)
  <2>. SUFFICES ASSUME NEW b \in Branch[np], b # np
                PROVE  nx2[b] \in Branch[np]
    BY DEF Leads
  <2>1. b \in Block /\ b \in Hash
    BY <1>1, BranchWithin DEF Hash
  <2>2. CASE b = y
    BY <1>7, <2>1, <2>2
  <2>3. CASE b # y /\ b \notin Branch[t.hash]
    BY <1>1, <1>7, <2>1, <2>3 DEF Straight
  <2>4. CASE b # y /\ b \in Branch[t.hash]
    <3>1. nx2[b] = nx[b]
      BY <1>7, <2>1, <2>4
    <3>2. b \in Branch[y]
      <4>. SUFFICES ASSUME b \notin Branch[y] PROVE FALSE
        OBVIOUS
      <4>1. y \in Branch[b]
        BY <1>1, <1>5, BranchOrder
      <4>2. last \in Branch[b]
        BY <1>1, <1>2, <2>4, <4>1, BehindChild DEF y
      <4>. QED BY <2>4, <4>2, BranchWithin
    <3>3. b # t.hash
      <4>1. Depth[b] < Depth[y] /\ Depth[y] < Depth[t.hash]
        BY <1>2, <2>4, <3>2, BranchDepth
      <4>2. Depth[b] \in Nat /\ Depth[y] \in Nat /\ Depth[t.hash] \in Nat
        BY <1>2, <2>1, BlockTree
      <4>. QED BY <4>1, <4>2
    <3>4. nx[b] \in Branch[t.hash]
      BY <2>4, <3>3 DEF Leads
    <3>5. nx[b] \in Branch[y]
      BY <1>2, <2>4, <3>2, <3>4, NextIsOn
    <3>. QED BY <1>1, <1>5, <3>1, <3>5, BranchWithin
  <2>. QED BY <2>2, <2>3, <2>4
<1>11. LeadsAbove(z, t, nx2)
  <2>. SUFFICES ASSUME NEW b \in Above(z, t), b # t.hash
                PROVE  nx2[b] \in Branch[t.hash]
    BY <1>1 DEF LeadsAbove
  <2>1. b \in Branch[t.hash] /\ z \in Branch[b] /\ b \in Block /\ b \in Hash
    BY <1>1, BranchWithin DEF Above, Hash
  <2>2. b # y
    BY <1>2, <1>3, <1>4, <2>1, ChildNotBelow
  <2>. QED BY <1>7, <2>1, <2>2 DEF Leads
<1>. QED BY <1>3, <1>6, <1>9, <1>10, <1>11 DEF y, z, nx2

\* _setBranchOrphan climbs the old branch block by block, to the tip.
LEMMA Climb ==
    ASSUME NEW st, NEW nx, NEW t, WebOK(st, nx, t), t.hash \in Block, Leaf(t.hash, st),
           NEW np \in Block, NEW z \in Branch[t.hash] \ Branch[np], LeadsAbove(z, t, nx)
    PROVE  LET n == nx[z]
           IN  /\ n = Null => Above(z, t) \ {z} = {}
               /\ n # Null => /\ n \in Branch[t.hash] \ Branch[np]
                              /\ Above(z, t) \ {z} = Above(n, t)
                              /\ LeadsAbove(n, t, nx)
<1>. DEFINE n == nx[z]
<1>1. /\ BranchTo(t.hash) = Branch[t.hash] /\ z \in Block /\ z \in Above(z, t)
  BY BranchToBlock, BranchWithin, ParentFacts DEF Above
<1>2. CASE n = Null
  <2>1. z = t.hash
    BY <1>1, <1>2, BranchWithin, Names DEF LeadsAbove
  <2>2. ASSUME NEW b \in Above(z, t) PROVE b = z
    <3>1. b \in Branch[t.hash] /\ z \in Branch[b] /\ b \in Block
      BY <1>1, BranchWithin DEF Above
    <3>2. b # t.hash => Depth[b] < Depth[t.hash]
      BY <3>1, BranchDepth
    <3>3. z # b => Depth[z] < Depth[b]
      BY <3>1, BranchDepth
    <3>4. Depth[b] \in Nat /\ Depth[z] \in Nat
      BY <1>1, <3>1, BlockTree
    <3>. QED BY <2>1, <3>2, <3>3, <3>4
  <2>. QED BY <1>2, <2>2
<1>3. CASE n # Null
  <2>1. n \in st /\ n \in Block /\ ParentOf[n] = z
    BY <1>1, <1>3, NextInWeb
  <2>2. z # t.hash
    BY <2>1 DEF Leaf
  <2>3. n \in Branch[t.hash]
    BY <1>1, <2>2 DEF LeadsAbove
  <2>. HIDE DEF n
  <2>4. n \notin Branch[np]
    BY <1>1, <2>1, BlockTree, Names, ParentWithin
  <2>5. ASSUME NEW b \in Branch[t.hash]
        PROVE  (z \in Branch[b] /\ b # z) <=> n \in Branch[b]
    <3>1. z \in Branch[b] /\ b # z => n \in Branch[b]
      BY <1>1, <2>1, <2>3, BehindChild
    <3>2. n \in Branch[b] => z \in Branch[b]
      BY <1>1, <2>1, BlockTree, Names, ParentWithin, BranchWithin
    <3>3. n \in Branch[b] => b # z
      BY <1>1, <2>1, ChildNotBelow
    <3>. QED BY <3>1, <3>2, <3>3
  <2>6. Above(z, t) \ {z} = Above(n, t)
    BY <1>1, <2>5 DEF Above
  <2>7. LeadsAbove(n, t, nx)
    BY <2>6 DEF LeadsAbove
  <2>. QED BY <1>3, <2>3, <2>4, <2>6, <2>7 DEF n
<1>. QED BY <1>2, <1>3

-----------------------------------------------------------------------------
(* The inductive invariant *)

\* One object that allows reorganisations, calls that do not wait for its lock, a
\* process that is not killed and a bitcoind that answers.
OneObject ==
    /\ Syncs # {} /\ \A r, s \in Syncs : r = s
    /\ Modes = {TRUE}
    /\ Resend = FALSE /\ MaxDelayed = 0 /\ RpcFault = FALSE /\ CanCrash = FALSE

\* Blocks with several stored children stay on the main chain.
ForksStay == Forked(Stored) \subseteq Main

\* The points before the first write of a call, and those after its batch.
Before == {"idle", "has", "getTip", "getNext", "reorgHeight", "backPrev", "backHeight"}
After == {"putTip", "setNext"}

\* What holds at point p with frame f of the stored blocks st, the next pointers nx,
\* the tip t and the cached tip c: the tip and the block to store are leaves.
OpenOf(p, f, st, nx, t, c) ==
    /\ p # "putTip" => c = t
    /\ p # "putTip" /\ t = NoTip => st = {}
    /\ p \notin After => Leaf(t.hash, st) /\ Linked(st, nx)
    /\ p \notin After \cup {"idle"} => f.blk = t.hash \/ f.blk \notin st
    /\ p \in {"getNext", "reorgHeight"} \cup Reorganising => t # NoTip /\ NewPrev(f) # t.hash
    /\ p = "reorgHeight" => f.from = nx[NewPrev(f)]
    /\ p = "setYNext" => f.from = nx[f.iter]
    /\ p \in {"backPrev", "backHeight"} =>
          Head(f.branch) \in {Zero, Genesis} \cup (Branch[NewPrev(f)] \ BranchTo(t.hash))

\* The walk has met the tip's branch at iter; what it came along is off the main
\* chain, and leads to newPrev.
MetOf(f, nx, t) ==
    /\ f.last \in Branch[NewPrev(f)] \ BranchTo(t.hash)
    /\ f.iter = ParentOf[f.last] /\ f.iter \in BranchTo(t.hash)
    /\ Leads(BranchTo(t.hash), t.hash, nx)
    /\ Straight(NewPrev(f), t, nx)

\* The main chain main at every point: the tip's branch; with it the blocks of
\* newPrev's branch that are connected so far; newPrev's branch, with the blocks
\* that are not yet orphaned; the new block's branch.
ChainOf(p, f, main, nx, t) ==
    /\ p \in Before => main = BranchTo(t.hash) /\ Leads(main, t.hash, nx)
    /\ p = "connect" =>
          \/ Head(f.branch) = Zero
          \/ /\ MetOf(f, nx, t)
             /\ Head(f.branch) \in Branch[NewPrev(f)] \ BranchTo(t.hash)
             /\ main = BranchTo(t.hash) \cup Branch[ParentOf[Head(f.branch)]]
    /\ p \in {"yNext", "setYNext"} =>
          /\ MetOf(f, nx, t)
          /\ main = BranchTo(t.hash) \cup Branch[NewPrev(f)]
    /\ p \in {"orphan", "orphanNext"} =>
          /\ f.from \in BranchTo(t.hash) \ Branch[NewPrev(f)]
          /\ main = Branch[NewPrev(f)] \cup (Above(f.from, t) \ (IF p = "orphan" THEN {} ELSE {f.from}))
          /\ Leads(Branch[NewPrev(f)], NewPrev(f), nx)
          /\ LeadsAbove(f.from, t, nx)
    /\ p \in {"addTxs", "addBlock"} =>
          main = BranchTo(NewPrev(f)) /\ Leads(main, NewPrev(f), nx)

EndOf(p, f, st, main, nx, t, c) ==
    /\ p \in After =>
          /\ main = Branch[f.blk]
          /\ Leads(BranchTo(NewPrev(f)), NewPrev(f), nx)
          /\ Leaf(f.blk, st) /\ Linked(st \ {f.blk}, nx)
    /\ p = "putTip" => c = [hash |-> f.blk, height |-> f.height]
    /\ p = "setNext" => t.hash = f.blk

PhaseOf(p, f, st, main, nx, t, c) ==
    OpenOf(p, f, st, nx, t, c) /\ ChainOf(p, f, main, nx, t) /\ EndOf(p, f, st, main, nx, t, c)

Phases == \A s \in Syncs : PhaseOf(pc[s], frame[s], Stored, Main, next, tip, cachedTip)

NoneWaits == \A s \in Syncs : delayed[s] = {}

\* An entry of the transaction index names a block of the main chain, and a
\* transaction that only one block holds has its entry when that block is there.
EntriesOnMain == \A t \in Tx : txBlock[t].blk # Null => txBlock[t].blk \in Main

UnsharedOnMain ==
    \A b \in Main : \A t \in TxOf[b] :
        (\A x \in Block \ {b} : t \notin TxOf[x]) => txBlock[t].blk = b

RestInv == HInv /\ Phases /\ NoneWaits /\ EntriesOnMain /\ UnsharedOnMain

-----------------------------------------------------------------------------
(* Control *)

LEMMA GotoPhase ==
    ASSUME SyncTypeOK, OneObject, NEW s \in Syncs, NEW p \in Points, NEW f \in Frames,
           Goto(s, p, f), PhaseOf(p, f, Stored', Main', next', tip', cachedTip')
    PROVE  Phases'
<1>1. pc'[s] = p /\ frame'[s] = f
  BY GotoTypes
<1>2. \A r \in Syncs : r = s
  BY DEF OneObject
<1>. QED BY <1>1, <1>2 DEF Phases

LEMMA SameChain ==
    ASSUME UNCHANGED <<prev, next, height>>
    PROVE  Stored' = Stored /\ Main' = Main /\ next' = next
<1>1. Stored' = Stored
  BY DEF Stored, Has
<1>. QED BY <1>1 DEF Main

LEMMA GotoQuiet ==
    ASSUME SyncTypeOK, OneObject, NEW s \in Syncs, NEW p \in Points, NEW f \in Frames,
           UNCHANGED <<prev, next, height, tip, cachedTip>>,
           Goto(s, p, f), PhaseOf(p, f, Stored, Main, next, tip, cachedTip)
    PROVE  Phases'
<1>1. PhaseOf(p, f, Stored', Main', next', tip', cachedTip')
  BY SameChain
<1>. QED BY <1>1, GotoPhase

LEMMA ThrowPhase ==
    ASSUME Phases, Throw, UNCHANGED <<prev, next, height, tip, cachedTip>>
    PROVE  Phases'
<1>1. Stored' = Stored /\ Main' = Main /\ next' = next
  BY SameChain
<1>. QED BY <1>1 DEF Throw, Phases

LEMMA OwnPhase ==
    ASSUME RestInv, NEW s \in Syncs
    PROVE  /\ frame[s] \in Frames
           /\ ShapeOf(pc[s], frame[s])
           /\ PlacedOf(pc[s], frame[s], Stored, savedTx, tip, cachedTip)
           /\ PhaseOf(pc[s], frame[s], Stored, Main, next, tip, cachedTip)
           /\ BlockDbTypeOK /\ SyncTypeOK /\ IndexOK /\ HInv
  BY OwnPlace DEF RestInv, Phases

LEMMA WebHolds ==
    ASSUME HInv
    PROVE  /\ WebOK(Stored, next, tip)
           /\ next \in [Hash -> Block \cup {Null}]
           /\ tip \in TipVal /\ cachedTip \in TipVal
           /\ tip.hash = Null <=> tip = NoTip
           /\ tip # NoTip => tip.hash \in Block /\ tip.hash \in Stored
           /\ Main \subseteq Stored
<1>1. /\ next \in [Hash -> Block \cup {Null}] /\ tip \in TipVal /\ cachedTip \in TipVal
      /\ NextIsChild /\ NextStored /\ Complete /\ TipOK(tip)
  BY DEF HInv, Inv, SyncTypeOK, BlockDbTypeOK, IndexOK
<1>2. WebOK(Stored, next, tip)
  BY <1>1 DEF WebOK, NextIsChild, NextStored, Complete, TipOK, Stored
<1>3. tip.hash = Null <=> tip = NoTip
  BY <1>1, Names DEF TipVal, NoTip
<1>4. tip # NoTip => tip.hash \in Block /\ tip.hash \in Stored
  BY <1>1 DEF TipVal, TipOK
<1>. QED BY <1>1, <1>2, <1>3, <1>4 DEF Main

\* The point "addTxs" is reached with the main chain that newPrev ends.
LEMMA StartAddPhase ==
    ASSUME SyncTypeOK, OneObject, NEW s \in Syncs, NEW f \in Frames,
           UNCHANGED <<prev, next, height, tip>>, cachedTip' = tip,
           tip = NoTip => Stored = {},
           Leaf(tip.hash, Stored), Linked(Stored, next),
           f.blk = tip.hash \/ f.blk \notin Stored,
           Main = BranchTo(NewPrev(f)), Leads(Main, NewPrev(f), next),
           StartAdd(s, f)
    PROVE  Phases'
<1>1. PhaseOf("addTxs", f, Stored, Main, next, tip, tip)
  BY DEF PhaseOf, OpenOf, ChainOf, EndOf, Before, After, Reorganising
<1>2. PhaseOf("addTxs", f, Stored', Main', next', tip', cachedTip')
  BY <1>1, SameChain
<1>3. Goto(s, "addTxs", f) /\ "addTxs" \in Points
  BY DEF StartAdd, Points
<1>. QED BY <1>2, <1>3, GotoPhase

-----------------------------------------------------------------------------
(* The steps of storeTipBlock *)

\* getTip's callback, with nothing changed so far.
LEMMA TipReadPhase ==
    ASSUME HInv, OneObject, NEW s \in Syncs, NEW f \in Frames, f.blk \in Block,
           UNCHANGED <<prev, next, height, tip>>, cachedTip' = tip,
           tip = NoTip => Stored = {} /\ f.blk = Genesis,
           Leaf(tip.hash, Stored), Linked(Stored, next),
           f.blk = tip.hash \/ f.blk \notin Stored,
           Main = BranchTo(tip.hash), Leads(Main, tip.hash, next),
           TipRead(s, f, tip)
    PROVE  Phases'
<1>1. SyncTypeOK
  BY DEF HInv, Inv
<1>2. tip \in TipVal /\ (tip.hash = Null <=> tip = NoTip) /\ (tip # NoTip => tip.hash \in Block)
  BY WebHolds
<1>3. CASE tip.hash # Null /\ NewPrev(f) # tip.hash
  <2>1. Goto(s, "getNext", f) /\ "getNext" \in Points
    BY <1>3 DEF TipRead, Points
  <2>2. PhaseOf("getNext", f, Stored, Main, next, tip, tip)
    BY <1>2, <1>3 DEF PhaseOf, OpenOf, ChainOf, EndOf, Before, After, Reorganising
  <2>3. PhaseOf("getNext", f, Stored', Main', next', tip', cachedTip')
    BY <2>2, SameChain
  <2>. QED BY <1>1, <2>1, <2>3, GotoPhase
<1>4. CASE ~(tip.hash # Null /\ NewPrev(f) # tip.hash)
  <2>. DEFINE g == [f EXCEPT !.height = tip.height + 1]
  <2>1. StartAdd(s, g)
    BY <1>4 DEF TipRead
  <2>2. tip.height + 1 \in Heights
    BY <1>2 DEF TipVal, NoTip, Heights
  <2>3. g \in Frames /\ g.blk = f.blk /\ NewPrev(g) = NewPrev(f)
    BY <2>2 DEF Frames, NewPrev
  <2>. HIDE DEF g
  <2>4. Main = BranchTo(NewPrev(g)) /\ Leads(Main, NewPrev(g), next)
    <3>1. CASE tip = NoTip
      <4>1. NewPrev(f) = Zero
        BY <3>1, BlockTree, Names DEF NewPrev
      <4>2. BranchTo(Zero) = {} /\ BranchTo(tip.hash) = {}
        BY <1>2, <3>1, Names DEF BranchTo
      <4>. QED BY <2>3, <4>1, <4>2 DEF Leads
    <3>2. CASE tip # NoTip
      BY <1>2, <1>4, <2>3, <3>2
    <3>. QED BY <3>1, <3>2
  <2>. QED BY <1>1, <2>1, <2>3, <2>4, StartAddPhase
<1>. QED BY <1>3, <1>4

LEMMA CallGetTipPhase ==
    ASSUME HInv, OneObject, NEW s \in Syncs, NEW f \in Frames, f.blk \in Block,
           UNCHANGED <<prev, next, height, tip, cachedTip>>, cachedTip = tip,
           tip = NoTip => Stored = {} /\ f.blk = Genesis,
           Leaf(tip.hash, Stored), Linked(Stored, next),
           f.blk = tip.hash \/ f.blk \notin Stored,
           Main = BranchTo(tip.hash), Leads(Main, tip.hash, next),
           CallGetTip(s, f)
    PROVE  Phases'
<1>1. SyncTypeOK
  BY DEF HInv, Inv
<1>2. CASE cachedTip.hash # Null
  <2>1. TipRead(s, f, tip)
    BY <1>2 DEF CallGetTip
  <2>. QED BY <2>1, TipReadPhase
<1>3. CASE cachedTip.hash = Null
  <2>1. Goto(s, "getTip", f) /\ "getTip" \in Points
    BY <1>3 DEF CallGetTip, Points
  <2>2. PhaseOf("getTip", f, Stored, Main, next, tip, cachedTip)
    BY DEF PhaseOf, OpenOf, ChainOf, EndOf, Before, After, Reorganising
  <2>. QED BY <1>1, <2>1, <2>2, GotoQuiet
<1>. QED BY <1>2, <1>3

\* No call waits for the lock, so a new one takes it.
LEMMA TakesLock ==
    ASSUME RestInv, OneObject, NEW s \in Syncs, NEW c \in Calls, Submit(s, c) \/ Retry(s, c)
    PROVE  /\ Submit(s, c) /\ pc[s] = "idle" /\ Enter(s, c)
           /\ UNCHANGED <<dbVars, cachedTip, delayed>>
<1>1. delayed[s] = {}
  BY DEF RestInv, NoneWaits
<1>2. Submit(s, c)
  BY <1>1 DEF Retry
<1>3. ~(Cardinality(delayed[s] \cup {c}) <= MaxDelayed)
  <2>1. delayed[s] \cup {c} = {c}
    BY <1>1
  <2>2. Cardinality({c}) = 1
    BY FS_Singleton
  <2>3. MaxDelayed = 0
    BY DEF OneObject
  <2>. QED BY <2>1, <2>2, <2>3
<1>. QED BY <1>2, <1>3 DEF Submit, Call

LEMMA CallPhase ==
    ASSUME RestInv, OneObject, NEW s \in Syncs, NEW c \in Calls, Submit(s, c) \/ Retry(s, c)
    PROVE  Phases' /\ NoneWaits'
<1>1. delayed \in [Syncs -> SUBSET Calls] /\ delayed[s] = {} /\ SyncTypeOK
  BY DEF RestInv, HInv, Inv, SyncTypeOK, NoneWaits
<1>2. Submit(s, c)
  BY TakesLock
<1>3. pc[s] = "idle" /\ Enter(s, c) /\ UNCHANGED delayed
  BY TakesLock
<1>4. UNCHANGED <<prev, next, height, tip, cachedTip>>
  BY TakesLock DEF dbVars
<1>5. PhaseOf("idle", frame[s], Stored, Main, next, tip, cachedTip)
  BY <1>3, OwnPhase
<1>6. /\ cachedTip = tip /\ (tip = NoTip => Stored = {})
      /\ Leaf(tip.hash, Stored) /\ Linked(Stored, next)
      /\ Main = BranchTo(tip.hash) /\ Leads(Main, tip.hash, next)
  BY <1>5 DEF PhaseOf, OpenOf, ChainOf, Before, After
<1>. DEFINE f == [NoFrame EXCEPT !.blk = c.blk, !.allow = c.allow]
<1>7. c.blk \in Block /\ c.allow = TRUE
  BY DEF Calls, OneObject
<1>8. f \in Frames /\ f.blk = c.blk
  BY <1>7, NoFrameIsFrame DEF Frames, NoFrame
<1>9. /\ tip = NoTip => f.blk = Genesis
      /\ f.blk = tip.hash \/ f.blk \notin Stored
  <2>1. MayArrive(c.blk)
    BY <1>2, <1>7 DEF Submit
  <2>2. TipNow = tip
    BY <1>6 DEF TipNow
  <2>. QED BY <1>6, <1>7, <1>8, <2>1, <2>2 DEF MayArrive, Stored, OneObject
<1>. HIDE DEF f
<1>10. CASE CallGetTip(s, f)
  <2>1. Phases'
    BY <1>4, <1>6, <1>7, <1>8, <1>9, <1>10, CallGetTipPhase DEF RestInv
  <2>. QED BY <1>3, <2>1 DEF RestInv, NoneWaits
<1>11. CASE Goto(s, "has", f)
  <2>1. "has" \in Points /\ PhaseOf("has", f, Stored, Main, next, tip, cachedTip)
    BY <1>6, <1>9 DEF Points, PhaseOf, OpenOf, ChainOf, EndOf, Before, After, Reorganising
  <2>2. Phases'
    BY <1>1, <1>4, <1>8, <1>11, <2>1, GotoQuiet
  <2>. QED BY <1>3, <2>2 DEF RestInv, NoneWaits
<1>. QED BY <1>3, <1>7, <1>10, <1>11 DEF Enter, f

\* What holds before the first write.
LEMMA QuietFacts ==
    ASSUME RestInv, NEW s \in Syncs, pc[s] \in Before
    PROVE  /\ cachedTip = tip /\ (tip = NoTip => Stored = {})
           /\ Leaf(tip.hash, Stored) /\ Linked(Stored, next)
           /\ Main = BranchTo(tip.hash) /\ Leads(Main, tip.hash, next)
           /\ pc[s] # "idle" => frame[s].blk = tip.hash \/ frame[s].blk \notin Stored
<1>1. PhaseOf(pc[s], frame[s], Stored, Main, next, tip, cachedTip)
  BY OwnPhase
<1>. QED BY <1>1 DEF PhaseOf, OpenOf, ChainOf, Before, After

LEMMA TipPhase ==
    ASSUME RestInv, OneObject, NEW s \in Syncs, HasPrev(s) \/ GetTip(s) \/ GetNext(s)
    PROVE  Phases'
<1>. DEFINE f == frame[s]
<1>1. /\ f \in Frames /\ ShapeOf(pc[s], f) /\ SyncTypeOK /\ HInv
      /\ PlacedOf(pc[s], f, Stored, savedTx, tip, cachedTip)
      /\ PhaseOf(pc[s], f, Stored, Main, next, tip, cachedTip)
  BY OwnPhase DEF HInv, Inv
<1>2. pc[s] \in {"has", "getTip", "getNext"} /\ pc[s] \in Before /\ pc[s] # "idle"
  BY DEF HasPrev, GetTip, GetNext, At, Before
<1>3. /\ cachedTip = tip /\ (tip = NoTip => Stored = {})
      /\ Leaf(tip.hash, Stored) /\ Linked(Stored, next)
      /\ Main = BranchTo(tip.hash) /\ Leads(Main, tip.hash, next)
      /\ f.blk = tip.hash \/ f.blk \notin Stored
  BY <1>2, QuietFacts
<1>4. f.blk \in Block
  BY <1>1, <1>2 DEF ShapeOf
<1>5. CASE HasPrev(s)
  <2>1. pc[s] = "has" /\ UNCHANGED <<prev, next, height, tip, cachedTip>>
    BY <1>5 DEF HasPrev, At, dbVars
  <2>2. tip = NoTip => f.blk = Genesis
    BY <1>1, <1>3, <2>1 DEF PlacedOf
  <2>3. CASE CallGetTip(s, f)
    BY <1>1, <1>3, <1>4, <2>1, <2>2, <2>3, CallGetTipPhase
  <2>4. CASE Return(s)
    <3>1. PhaseOf("idle", NoFrame, Stored, Main, next, tip, cachedTip)
      BY <1>3 DEF PhaseOf, OpenOf, ChainOf, EndOf, Before, After, Reorganising
    <3>. QED BY <1>1, <2>1, <2>4, <3>1, NoFrameIsFrame, GotoQuiet DEF Return, Points
  <2>. QED BY <1>5, <2>3, <2>4 DEF HasPrev
<1>6. CASE GetTip(s)
  <2>1. pc[s] = "getTip" /\ UNCHANGED <<prev, next, height, tip>> /\ TipRead(s, f, tip)
    BY <1>6 DEF GetTip, At, dbVars
  <2>2. cachedTip' = tip
    BY <1>3, <1>6 DEF GetTip
  <2>3. tip = NoTip => f.blk = Genesis
    BY <1>1, <2>1 DEF PlacedOf
  <2>. QED BY <1>1, <1>3, <1>4, <2>1, <2>2, <2>3, TipReadPhase
<1>7. CASE GetNext(s)
  <2>. DEFINE g == [f EXCEPT !.from = next[NewPrev(f)]]
  <2>1. pc[s] = "getNext" /\ UNCHANGED <<prev, next, height, tip, cachedTip>>
    BY <1>7 DEF GetNext, At, dbVars
  <2>2. next[NewPrev(f)] \in Block \cup {Null}
    BY <1>1, <1>4, BlockTree, WebHolds DEF NewPrev, Hash
  <2>3. g \in Frames /\ g.blk = f.blk /\ NewPrev(g) = NewPrev(f) /\ g.from = next[NewPrev(f)]
    BY <1>1, <2>2 DEF Frames, NewPrev
  <2>4. Goto(s, "reorgHeight", g) /\ "reorgHeight" \in Points
    BY <1>7 DEF GetNext, Points
  <2>. HIDE DEF g
  <2>5. tip # NoTip /\ NewPrev(f) # tip.hash
    BY <1>1, <2>1 DEF PhaseOf, OpenOf
  <2>6. PhaseOf("reorgHeight", g, Stored, Main, next, tip, cachedTip)
    BY <1>3, <2>3, <2>5 DEF PhaseOf, OpenOf, ChainOf, EndOf, Before, After, Reorganising
  <2>. QED BY <1>1, <2>1, <2>3, <2>4, <2>6, GotoQuiet
<1>. QED BY <1>5, <1>6, <1>7

LEMMA ReorgHeightPhase ==
    ASSUME RestInv, OneObject, NEW s \in Syncs, ReorgHeight(s)
    PROVE  Phases'
<1>. DEFINE f == frame[s]
            np == NewPrev(f)
            h == height[np]
<1>1. /\ f \in Frames /\ ShapeOf(pc[s], f) /\ SyncTypeOK /\ HInv /\ IndexOK /\ BlockDbTypeOK
      /\ pc[s] = "reorgHeight" /\ pc[s] \in Before /\ pc[s] # "idle"
      /\ PhaseOf(pc[s], f, Stored, Main, next, tip, cachedTip)
  BY OwnPhase DEF ReorgHeight, At, Before, HInv, Inv
<1>2. UNCHANGED <<prev, next, height, tip, cachedTip>>
  BY DEF ReorgHeight, dbVars
<1>3. /\ cachedTip = tip /\ (tip = NoTip => Stored = {})
      /\ Leaf(tip.hash, Stored) /\ Linked(Stored, next)
      /\ Main = BranchTo(tip.hash) /\ Leads(Main, tip.hash, next)
      /\ f.blk = tip.hash \/ f.blk \notin Stored
  BY <1>1, QuietFacts
<1>4. f.blk \in Block /\ np = ParentOf[f.blk] /\ np \in Hash /\ f.from = next[np]
  BY <1>1, BlockTree DEF ShapeOf, PhaseOf, OpenOf, NewPrev, Hash
<1>5. tip # NoTip /\ np # tip.hash /\ tip.hash \in Block /\ tip.hash \in Stored
  BY <1>1, WebHolds DEF PhaseOf, OpenOf
<1>6. h # 0 => np \in Stored /\ np \in Block /\ h \in {-1, Depth[np]}
  BY <1>1, <1>4, HeightOfStored DEF Stored
<1>7. h \in Heights
  BY <1>1, <1>4 DEF BlockDbTypeOK
<1>8. h > 0 <=> h # 0 /\ ~(h < 0)
  BY <1>7 DEF Heights
<1>9. CASE Throw
  BY <1>2, <1>9, ThrowPhase DEF RestInv
<1>10. CASE h < 0 /\ StartBack(s, f, np)
  <2>. DEFINE q == <<np>>
              g == [f EXCEPT !.from = Null, !.iter = np, !.branch = q]
  <2>1. np \in Stored /\ np \in Block /\ np \notin Main
    <3>1. np \in Stored /\ np \in Block
      BY <1>6, <1>10
    <3>. QED BY <1>7, <1>10, <3>1 DEF Main, Heights
  <2>2. q \in Seq(Hash) /\ Head(q) = np
    BY <1>4
  <2>. HIDE DEF q
  <2>3. g \in Frames /\ g.blk = f.blk /\ g.branch = q /\ NewPrev(g) = np
    BY <1>1, <1>4, <2>2 DEF Frames, NewPrev
  <2>4. Goto(s, "backPrev", g) /\ "backPrev" \in Points
    BY <1>10 DEF StartBack, Points, q
  <2>. HIDE DEF g
  <2>5. Head(g.branch) \in Branch[NewPrev(g)] \ BranchTo(tip.hash)
    BY <1>3, <2>1, <2>2, <2>3, ParentFacts
  <2>6. PhaseOf("backPrev", g, Stored, Main, next, tip, cachedTip)
    BY <1>3, <1>5, <2>3, <2>5 DEF PhaseOf, OpenOf, ChainOf, EndOf, Before, After, Reorganising
  <2>. QED BY <1>1, <1>2, <2>3, <2>4, <2>6, GotoQuiet
<1>11. ASSUME h > 0 PROVE np \in Branch[tip.hash] /\ f.from \in Branch[tip.hash] /\ f.from # Null
  <2>1. np \in Stored /\ np \in Block /\ h \in {-1, Depth[np]}
    BY <1>6, <1>8, <1>11
  <2>2. np \in Main
    BY <1>7, <1>8, <1>11, <2>1 DEF Main, Heights
  <2>3. Main = Branch[tip.hash]
    BY <1>3, <1>5, BranchToBlock
  <2>4. next[np] \in Main
    BY <1>3, <1>5, <2>2 DEF Leads
  <2>5. Branch[tip.hash] \subseteq Block
    BY <1>5, Branches
  <2>. QED BY <1>4, <2>2, <2>3, <2>4, <2>5, Names
<1>12. CASE h > 0 /\ f.from # Null /\ Goto(s, "orphan", [f EXCEPT !.height = h + 1])
  <2>. DEFINE g == [f EXCEPT !.height = h + 1]
  <2>1. h + 1 \in Heights
    BY <1>7 DEF Heights
  <2>2. g \in Frames /\ g.blk = f.blk /\ g.from = f.from /\ NewPrev(g) = np
    BY <1>1, <2>1 DEF Frames, NewPrev
  <2>. HIDE DEF g, f
  <2>3. BranchTo(tip.hash) = Branch[tip.hash]
    BY <1>5, BranchToBlock
  <2>4. /\ next[np] \in Branch[tip.hash] \ Branch[np]
        /\ Branch[tip.hash] = Branch[np] \cup Above(next[np], tip)
        /\ Leads(Branch[np], np, next)
        /\ LeadsAbove(next[np], tip, next)
    BY <1>1, <1>3, <1>5, <1>11, <1>12, <2>3, WebHolds, OnMain
  <2>5. PhaseOf("orphan", g, Stored, Main, next, tip, cachedTip)
    BY <1>3, <1>4, <1>5, <2>2, <2>3, <2>4 DEF PhaseOf, OpenOf, ChainOf, EndOf, Before, After, Reorganising
  <2>6. "orphan" \in Points
    BY DEF Points
  <2>. QED BY <1>1, <1>2, <1>12, <2>2, <2>5, <2>6, GotoQuiet DEF g, f
<1>. QED BY <1>2, <1>8, <1>9, <1>10, <1>11, <1>12 DEF ReorgHeight

\* Every block of the walk's branch is on newPrev's.
LEMMA PathInBranch ==
    ASSUME NEW st, NEW np \in Block, NEW br \in Seq(Hash), br # <<>>, PathOf(br, np, st),
           \A b \in st : b \in Block
    PROVE  \A i \in 1..Len(br) : br[i] \in Branch[np] \cup {Zero}
<1>. DEFINE D == {Len(br) - i : i \in {j \in 1..Len(br) : br[j] \notin Branch[np] \cup {Zero}}}
<1>. SUFFICES ASSUME D # {} PROVE FALSE
  OBVIOUS
<1>1. Len(br) \in Nat
  BY LenProperties
<1>2. D \in SUBSET Nat
  BY <1>1
<1>3. PICK n \in D : \A m \in D : n <= m
  <2>. HIDE DEF D
  <2>. QED BY <1>2, LeastNumber
<1>4. PICK i \in 1..Len(br) : br[i] \notin Branch[np] \cup {Zero} /\ n = Len(br) - i
  BY <1>3
<1>5. i # Len(br)
  BY <1>4, ParentFacts DEF PathOf
<1>6. i + 1 \in 1..Len(br) /\ i \in 1..(Len(br) - 1)
  BY <1>1, <1>4, <1>5
<1>7. br[i] = ParentOf[br[i + 1]] /\ br[i + 1] \in st
  <2>1. br[i + 1] \in st \/ (i + 1 = 1 /\ br[i + 1] = Zero)
    BY <1>6 DEF PathOf
  <2>2. i + 1 # 1
    BY <1>1, <1>4
  <2>. QED BY <1>6, <2>1, <2>2 DEF PathOf
<1>8. br[i + 1] \notin Branch[np] \cup {Zero}
  <2>1. CASE br[i + 1] = Genesis
    BY <1>4, <1>7, <2>1, BlockTree
  <2>2. CASE br[i + 1] # Genesis
    <3>1. br[i + 1] \in Branch[np] => br[i] \in Branch[np]
      BY <1>7, <2>2, ParentWithin
    <3>. QED BY <1>4, <1>7, <3>1, Names
  <2>. QED BY <2>1, <2>2
<1>9. Len(br) - (i + 1) \in D
  BY <1>6, <1>8
<1>10. n <= Len(br) - (i + 1)
  BY <1>3, <1>9
<1>. QED BY <1>1, <1>4, <1>10

LEMMA BackPrevPhase ==
    ASSUME RestInv, OneObject, NEW s \in Syncs, BackPrev(s)
    PROVE  Phases'
<1>. DEFINE f == frame[s]
            g == [f EXCEPT !.last = f.iter, !.iter = prev[f.iter]]
<1>1. /\ f \in Frames /\ SyncTypeOK /\ BlockDbTypeOK
      /\ pc[s] = "backPrev"
      /\ PhaseOf(pc[s], f, Stored, Main, next, tip, cachedTip)
  BY OwnPhase DEF BackPrev, At
<1>2. UNCHANGED <<prev, next, height, tip, cachedTip>> /\ Goto(s, "backHeight", g) /\ "backHeight" \in Points
  BY DEF BackPrev, dbVars, Points
<1>3. f.iter \in Hash /\ prev[f.iter] \in Hash
  BY <1>1 DEF Frames, BlockDbTypeOK, Hash
<1>. HIDE DEF f
<1>4. g \in Frames /\ g.blk = f.blk /\ g.branch = f.branch /\ NewPrev(g) = NewPrev(f)
  BY <1>1, <1>3 DEF Frames, NewPrev
<1>. HIDE DEF g
<1>5. PhaseOf("backHeight", g, Stored, Main, next, tip, cachedTip)
  BY <1>1, <1>4 DEF PhaseOf, OpenOf, ChainOf, EndOf, Before, After, Reorganising
<1>. QED BY <1>1, <1>2, <1>4, <1>5, GotoQuiet

\* The only step that needs ForksStay: the walk has met the main chain, and the
\* pointers on its way are not touched from here on.
LEMMA BackHeightPhase ==
    ASSUME RestInv, OneObject, ForksStay, NEW s \in Syncs, BackHeight(s)
    PROVE  Phases'
<1>. DEFINE f == frame[s]
            np == NewPrev(f)
<1>1. /\ f \in Frames /\ ShapeOf(pc[s], f) /\ SyncTypeOK /\ HInv /\ IndexOK /\ BlockDbTypeOK
      /\ pc[s] = "backHeight"
      /\ PlacedOf(pc[s], f, Stored, savedTx, tip, cachedTip)
      /\ PhaseOf(pc[s], f, Stored, Main, next, tip, cachedTip)
  BY OwnPhase DEF BackHeight, At, HInv, Inv
<1>2. UNCHANGED <<prev, next, height, tip, cachedTip>>
  BY DEF BackHeight, dbVars
<1>3. /\ f.branch \in Seq(Hash) /\ f.branch # <<>> /\ Head(f.branch) = f.last
      /\ np \in Stored /\ np \in Block /\ f.iter \in Hash
      /\ \/ f.iter = Null /\ f.last = Zero
         \/ f.last \in Stored /\ f.iter = ParentOf[f.last]
  BY <1>1 DEF ShapeOf, PlacedOf, Frames, Reorganising, Stored
<1>4. /\ cachedTip = tip /\ (tip = NoTip => Stored = {})
      /\ Leaf(tip.hash, Stored) /\ Linked(Stored, next)
      /\ Main = BranchTo(tip.hash) /\ Leads(Main, tip.hash, next)
      /\ f.blk = tip.hash \/ f.blk \notin Stored
      /\ tip # NoTip /\ np # tip.hash
      /\ f.last \in {Zero, Genesis} \cup (Branch[np] \ BranchTo(tip.hash))
  BY <1>1, <1>3 DEF PhaseOf, OpenOf, ChainOf, EndOf, Before, After, Reorganising
<1>5. height[f.iter] \in Heights
  BY <1>1, <1>3 DEF BlockDbTypeOK
<1>. HIDE DEF f
<1>6. CASE f.iter # Null /\ height[f.iter] <= 0
  <2>. DEFINE br == <<f.iter>> \o f.branch
              g == [f EXCEPT !.branch = br]
  <2>1. f.last \in Stored /\ f.iter = ParentOf[f.last] /\ f.last \in Block
    BY <1>3, <1>6 DEF Stored
  <2>2. f.iter \in Stored \/ f.iter = Zero
    BY <1>1, <2>1, ParentStored
  <2>3. f.iter \in {Zero, Genesis} \cup (Branch[np] \ BranchTo(tip.hash))
    <3>. SUFFICES ASSUME f.iter # Zero, f.iter # Genesis
                  PROVE  f.iter \in Branch[np] \ BranchTo(tip.hash)
      OBVIOUS
    <3>1. f.iter \in Stored /\ f.iter \in Block /\ f.last # Genesis
      BY <2>1, <2>2, BlockTree DEF Stored
    <3>2. f.iter \in Branch[np]
      BY <1>3, <1>4, <2>1, <3>1, ParentWithin, Names
    <3>3. Depth[f.iter] > 0
      BY <3>1, BlockTree
    <3>4. height[f.iter] \in {-1, Depth[f.iter]}
      BY <1>1, <3>1 DEF IndexOK, HeightsOK, HeightIsDepth, Stored
    <3>5. height[f.iter] = -1
      <4>1. Depth[f.iter] \in Nat
        BY <3>1, BlockTree
      <4>. QED BY <1>6, <3>3, <3>4, <4>1
    <3>6. f.iter \notin Main
      BY <3>5 DEF Main
    <3>. QED BY <1>4, <3>2, <3>6
  <2>4. br \in Seq(Hash) /\ Head(br) = f.iter
    BY <1>3
  <2>5. Goto(s, "backPrev", g) /\ "backPrev" \in Points
    BY <1>6 DEF BackHeight, Points, f
  <2>. HIDE DEF br
  <2>6. g \in Frames /\ g.blk = f.blk /\ g.branch = br /\ NewPrev(g) = np
    BY <1>1, <2>4 DEF Frames, NewPrev
  <2>. HIDE DEF g
  <2>7. PhaseOf("backPrev", g, Stored, Main, next, tip, cachedTip)
    BY <1>4, <2>3, <2>4, <2>6 DEF PhaseOf, OpenOf, ChainOf, EndOf, Before, After, Reorganising
  <2>. QED BY <1>1, <1>2, <2>5, <2>6, <2>7, GotoQuiet
<1>7. CASE ~(f.iter # Null /\ height[f.iter] <= 0)
  <2>. DEFINE h == height[f.iter] + 1
              g == [f EXCEPT !.height = h]
  <2>1. h \in Heights
    BY <1>5 DEF Heights
  <2>2. Goto(s, "connect", g) /\ "connect" \in Points
    BY <1>7 DEF BackHeight, Points, f
  <2>. HIDE DEF h
  <2>3. /\ g \in Frames /\ g.blk = f.blk /\ g.branch = f.branch /\ NewPrev(g) = np
        /\ g.last = f.last /\ g.iter = f.iter /\ g.from = f.from
    BY <1>1, <2>1 DEF Frames, NewPrev
  <2>. HIDE DEF g
  <2>4. \/ Head(g.branch) = Zero
        \/ /\ MetOf(g, next, tip)
           /\ Head(g.branch) \in Branch[np] \ BranchTo(tip.hash)
           /\ Main = BranchTo(tip.hash) \cup Branch[ParentOf[Head(g.branch)]]
    <3>1. CASE f.iter = Null
      BY <1>3, <2>3, <3>1, <1>1, ParentStored
    <3>2. CASE f.iter # Null
      <4>1. f.last \in Stored /\ f.iter = ParentOf[f.last] /\ f.last \in Block
        BY <1>3, <3>2 DEF Stored
      <4>2. height[f.iter] # 0 /\ height[f.iter] # -1
        BY <1>5, <1>7, <3>2 DEF Heights
      <4>3. f.iter \in Stored /\ f.iter \in Block
        BY <1>1, <1>3, <4>2, HeightOfStored DEF Stored
      <4>4. f.iter \in Main
        BY <1>5, <4>2, <4>3 DEF Main, Heights
      <4>5. f.last \in Branch[np] \ BranchTo(tip.hash)
        <5>1. f.last # Zero /\ f.last # Genesis
          BY <4>1, <4>3, BlockTree, Names
        <5>. QED BY <1>4, <5>1
      <4>6. Straight(np, tip, next)
        BY <1>1, <1>3, <1>4, WebHolds, OffMain DEF ForksStay
      <4>7. tip.hash \in Block /\ BranchTo(tip.hash) = Branch[tip.hash]
        BY <1>1, <1>4, WebHolds, BranchToBlock
      <4>8. Branch[f.iter] \subseteq BranchTo(tip.hash)
        BY <1>4, <4>4, <4>7, BranchWithin
      <4>9. MetOf(g, next, tip)
        BY <1>4, <2>3, <4>1, <4>4, <4>5, <4>6 DEF MetOf
      <4>. QED BY <1>3, <1>4, <2>3, <4>1, <4>5, <4>8, <4>9
    <3>. QED BY <3>1, <3>2
  <2>5. PhaseOf("connect", g, Stored, Main, next, tip, cachedTip)
    BY <1>4, <2>3, <2>4 DEF PhaseOf, OpenOf, ChainOf, EndOf, Before, After, Reorganising
  <2>. QED BY <1>1, <1>2, <2>2, <2>3, <2>5, GotoQuiet
<1>. QED BY <1>6, <1>7

\* A block that is stored joins the main chain with its depth and leaves it with -1.
LEMMA MainMoves ==
    ASSUME BlockDbTypeOK, UNCHANGED prev, NEW b \in Stored, NEW h \in Heights,
           height' = [height EXCEPT ![b] = h]
    PROVE  /\ Stored' = Stored
           /\ Main' = IF h >= 0 THEN Main \cup {b} ELSE Main \ {b}
<1>1. Stored' = Stored
  BY DEF Stored, Has
<1>2. \A x \in Stored : height'[x] = IF x = b THEN h ELSE height[x]
  BY DEF BlockDbTypeOK, Stored, Hash
<1>. QED BY <1>1, <1>2 DEF Main

LEMMA ConnectPhase ==
    ASSUME RestInv, OneObject, NEW s \in Syncs, Connect(s)
    PROVE  Phases'
<1>. DEFINE f == frame[s]
            np == NewPrev(f)
            b == Head(f.branch)
            p == IF Len(f.branch) = 1 THEN "yNext" ELSE "connect"
            g == [f EXCEPT !.height = @ + 1, !.branch = Tail(@)]
<1>1. /\ f \in Frames /\ ShapeOf(pc[s], f) /\ SyncTypeOK /\ HInv /\ IndexOK /\ BlockDbTypeOK
      /\ pc[s] = "connect"
      /\ PlacedOf(pc[s], f, Stored, savedTx, tip, cachedTip)
      /\ PhaseOf(pc[s], f, Stored, Main, next, tip, cachedTip)
  BY OwnPhase DEF Connect, At, HInv, Inv
<1>2. UNCHANGED <<prev, next, tip, cachedTip>>
  BY DEF Connect
<1>3. CASE Throw /\ UNCHANGED height
  BY <1>2, <1>3, ThrowPhase DEF RestInv
<1>4. CASE b \in Block /\ SetBlockMain(b, f.height) /\ Goto(s, p, g)
  <2>. HIDE DEF f
  <2>1. /\ f.branch \in Seq(Hash) /\ f.branch # <<>>
        /\ PathOf(f.branch, np, Stored) /\ np \in Stored /\ np \in Block
        /\ b \in Stored /\ f.height = Depth[b] /\ b # Zero
    BY <1>1, <1>4, Names DEF ShapeOf, PlacedOf, Frames, Reorganising, Stored
  <2>2. /\ cachedTip = tip /\ tip # NoTip /\ np # tip.hash
        /\ Leaf(tip.hash, Stored) /\ Linked(Stored, next)
        /\ f.blk = tip.hash \/ f.blk \notin Stored
        /\ MetOf(f, next, tip)
        /\ b \in Branch[np] \ BranchTo(tip.hash)
        /\ Main = BranchTo(tip.hash) \cup Branch[ParentOf[b]]
    BY <1>1, <2>1 DEF PhaseOf, OpenOf, ChainOf, EndOf, Before, After, Reorganising
  <2>3. Tail(f.branch) \in Seq(Hash) /\ f.height + 1 \in Heights /\ f.height \in Heights
    BY <1>1, <2>1, TailOfLonger DEF Frames, Heights
  <2>4. /\ g \in Frames /\ g.blk = f.blk /\ g.branch = Tail(f.branch) /\ NewPrev(g) = np
        /\ g.last = f.last /\ g.iter = f.iter /\ g.from = f.from
    BY <1>1, <2>3 DEF Frames, NewPrev
  <2>5. Depth[b] \in Nat /\ height' = [height EXCEPT ![b] = f.height]
    BY <1>4, BlockTree DEF SetBlockMain
  <2>6. Stored' = Stored /\ Main' = Main \cup {b} /\ next' = next
    <3>1. f.height >= 0
      BY <2>1, <2>5
    <3>2. /\ Stored' = Stored
          /\ Main' = IF f.height >= 0 THEN Main \cup {b} ELSE Main \ {b}
      BY <1>1, <1>2, <2>1, <2>3, <2>5, MainMoves
    <3>. QED BY <1>2, <3>1, <3>2
  <2>7. b # Genesis
    <3>1. tip.hash \in Block
      BY <1>1, <2>2, WebHolds
    <3>. QED BY <2>2, <3>1, GenesisBelow DEF BranchTo
  <2>8. Main' = BranchTo(tip.hash) \cup Branch[b]
    <3>1. Branch[b] = Branch[ParentOf[b]] \cup {b}
      BY <1>4, <2>7, Branches
    <3>. QED BY <2>2, <2>6, <3>1
  <2>9. MetOf(g, next, tip)
    BY <2>2, <2>4 DEF MetOf
  <2>. HIDE DEF g
  <2>10. CASE Len(f.branch) = 1
    <3>1. b = np
      BY <2>1, <2>10, PathOfOne
    <3>2. PhaseOf("yNext", g, Stored', Main', next', tip', cachedTip')
      BY <1>2, <2>2, <2>4, <2>6, <2>8, <2>9, <3>1
         DEF PhaseOf, OpenOf, ChainOf, EndOf, Before, After, Reorganising
    <3>3. Goto(s, "yNext", g) /\ "yNext" \in Points
      BY <1>4, <2>10 DEF Points
    <3>. QED BY <1>1, <2>4, <3>2, <3>3, GotoPhase
  <2>11. CASE Len(f.branch) # 1
    <3>. DEFINE d == Head(Tail(f.branch))
    <3>1. d \in Stored /\ d \in Block /\ b = ParentOf[d]
      BY <2>1, <2>11, PathTail DEF Stored
    <3>2. d \in Branch[np]
      <4>1. \A i \in 1..Len(f.branch) : f.branch[i] \in Branch[np] \cup {Zero}
        BY <2>1, PathInBranch DEF Stored
      <4>2. d = f.branch[2] /\ 2 \in 1..Len(f.branch)
        <5>1. Tail(f.branch) # <<>>
          BY <2>1, <2>11, TailOfLonger
        <5>2. d = Tail(f.branch)[1] /\ Len(Tail(f.branch)) >= 1 /\ Len(Tail(f.branch)) \in Nat
          BY <2>3, <5>1, HeadIsFirst
        <5>3. /\ Len(Tail(f.branch)) = Len(f.branch) - 1
              /\ \A i \in 1..Len(Tail(f.branch)) : Tail(f.branch)[i] = f.branch[i + 1]
              /\ Len(f.branch) \in Nat
          BY <2>1, HeadTailProperties, LenProperties
        <5>. QED BY <5>2, <5>3
      <4>. QED BY <3>1, <4>1, <4>2, Names
    <3>3. d \notin BranchTo(tip.hash)
      <4>1. tip.hash \in Block /\ BranchTo(tip.hash) = Branch[tip.hash] /\ d # Genesis
        BY <1>1, <1>4, <2>2, <3>1, WebHolds, BranchToBlock, BlockTree, Names
      <4>. QED BY <2>2, <3>1, <4>1, ParentWithin
    <3>. HIDE DEF d
    <3>4. Head(g.branch) = d
      BY <2>4 DEF d
    <3>5. PhaseOf("connect", g, Stored', Main', next', tip', cachedTip')
      BY <1>2, <2>2, <2>4, <2>6, <2>8, <2>9, <3>1, <3>2, <3>3, <3>4
         DEF PhaseOf, OpenOf, ChainOf, EndOf, Before, After, Reorganising
    <3>6. Goto(s, "connect", g) /\ "connect" \in Points
      BY <1>4, <2>11 DEF Points
    <3>. QED BY <1>1, <2>4, <3>5, <3>6, GotoPhase
  <2>. QED BY <2>10, <2>11
<1>. QED BY <1>3, <1>4 DEF Connect

LEMMA TurnPhase ==
    ASSUME RestInv, OneObject, NEW s \in Syncs, YNext(s) \/ SetYNext(s)
    PROVE  Phases'
<1>. DEFINE f == frame[s]
            np == NewPrev(f)
<1>1. /\ f \in Frames /\ ShapeOf(pc[s], f) /\ SyncTypeOK /\ HInv /\ IndexOK /\ BlockDbTypeOK
      /\ pc[s] \in {"yNext", "setYNext"}
      /\ PlacedOf(pc[s], f, Stored, savedTx, tip, cachedTip)
      /\ PhaseOf(pc[s], f, Stored, Main, next, tip, cachedTip)
  BY OwnPhase DEF YNext, SetYNext, At, HInv, Inv
<1>2. /\ cachedTip = tip /\ tip # NoTip /\ np # tip.hash
      /\ Leaf(tip.hash, Stored) /\ Linked(Stored, next)
      /\ f.blk = tip.hash \/ f.blk \notin Stored
      /\ MetOf(f, next, tip)
      /\ Main = BranchTo(tip.hash) \cup Branch[np]
      /\ pc[s] = "setYNext" => f.from = next[f.iter]
  BY <1>1 DEF PhaseOf, OpenOf, ChainOf, After, Reorganising
<1>3. /\ tip.hash \in Block /\ BranchTo(tip.hash) = Branch[tip.hash]
      /\ np \in Stored /\ np \in Block /\ f.iter \in Hash
  BY <1>1, <1>2, WebHolds, BranchToBlock DEF PlacedOf, Reorganising, Frames, Stored
<1>4. CASE YNext(s)
  <2>. DEFINE g == [f EXCEPT !.from = next[f.iter]]
  <2>1. UNCHANGED <<prev, next, height, tip, cachedTip>> /\ Goto(s, "setYNext", g) /\ "setYNext" \in Points
    BY <1>4 DEF YNext, dbVars, Points
  <2>2. next[f.iter] \in Block \cup {Null}
    BY <1>1, <1>3, WebHolds
  <2>. HIDE DEF f
  <2>3. /\ g \in Frames /\ g.blk = f.blk /\ g.branch = f.branch /\ NewPrev(g) = np
        /\ g.last = f.last /\ g.iter = f.iter /\ g.from = next[g.iter]
    BY <1>1, <2>2 DEF Frames, NewPrev
  <2>. HIDE DEF g
  <2>4. MetOf(g, next, tip)
    BY <1>2, <2>3 DEF MetOf
  <2>5. PhaseOf("setYNext", g, Stored, Main, next, tip, cachedTip)
    BY <1>2, <2>3, <2>4 DEF PhaseOf, OpenOf, ChainOf, EndOf, Before, After, Reorganising
  <2>. QED BY <1>1, <2>1, <2>3, <2>5, GotoQuiet
<1>5. CASE SetYNext(s)
  <2>1. UNCHANGED <<prev, height, tip, cachedTip>> /\ next' = [next EXCEPT ![f.iter] = f.last]
    BY <1>5 DEF SetYNext, SetNext
  <2>2. pc[s] = "setYNext"
    BY <1>5 DEF SetYNext, At
  <2>3. Stored' = Stored /\ Main' = Main
    <3>1. Stored' = Stored
      BY <2>1 DEF Stored, Has
    <3>. QED BY <2>1, <3>1 DEF Main
  <2>. HIDE DEF f
  <2>4. /\ f.last \in Branch[np] \ Branch[tip.hash]
        /\ f.iter = ParentOf[f.last] /\ f.iter \in Branch[tip.hash]
        /\ Leads(Branch[tip.hash], tip.hash, next)
        /\ Straight(np, tip, next)
        /\ f.from = next[f.iter]
    BY <1>2, <1>3, <2>2 DEF MetOf, f
  <2>5. WebOK(Stored, next, tip) /\ next \in [Hash -> Block \cup {Null}]
    BY <1>1, WebHolds
  <2>6. /\ f.from \in Branch[tip.hash] \ Branch[np]
        /\ Branch[tip.hash] \cup Branch[np] = Branch[np] \cup Above(f.from, tip)
        /\ Leads(Branch[np], np, next')
        /\ LeadsAbove(f.from, tip, next')
    <3>. DEFINE last == f.last
                nx2 == [next EXCEPT ![ParentOf[last]] = last]
    <3>1. next' = nx2 /\ f.from = next[ParentOf[last]]
      BY <2>1, <2>4
    <3>2. last \in Branch[np] \ Branch[tip.hash] /\ ParentOf[last] \in Branch[tip.hash]
      BY <2>4
    <3>. HIDE DEF last
    <3>3. /\ next[ParentOf[last]] \in Branch[tip.hash] \ Branch[np]
          /\ Branch[tip.hash] \cup Branch[np] = Branch[np] \cup Above(next[ParentOf[last]], tip)
          /\ Leads(Branch[np], np, nx2)
          /\ LeadsAbove(next[ParentOf[last]], tip, nx2)
      BY <1>2, <1>3, <2>4, <2>5, <3>2, Turn
    <3>. QED BY <3>1, <3>3
  <2>7. f.last \in Block /\ f.from \in Block
    BY <1>3, <2>4, <2>6, BranchWithin
  <2>8. Linked(Stored', next')
    <3>. SUFFICES ASSUME NEW x \in Stored PROVE next'[ParentOf[x]] # Null
      BY <2>3 DEF Linked
    <3>1. ParentOf[x] \in Hash /\ next[ParentOf[x]] # Null
      BY <1>1, <1>2, ParentStored DEF Linked
    <3>. QED BY <2>1, <2>5, <2>7, <3>1, Names
  <2>9. Goto(s, "orphan", f) /\ "orphan" \in Points
    BY <1>5, <2>7, Names DEF SetYNext, Points, f
  <2>10. PhaseOf("orphan", f, Stored', Main', next', tip', cachedTip')
    BY <1>2, <1>3, <2>1, <2>3, <2>6, <2>8 DEF PhaseOf, OpenOf, ChainOf, EndOf, Before, After, Reorganising
  <2>. QED BY <1>1, <2>9, <2>10, GotoPhase
<1>. QED BY <1>4, <1>5

LEMMA OrphanPhase ==
    ASSUME RestInv, OneObject, NEW s \in Syncs, Orphan(s) \/ OrphanNext(s)
    PROVE  Phases'
<1>. DEFINE f == frame[s]
            np == NewPrev(f)
<1>1. /\ f \in Frames /\ ShapeOf(pc[s], f) /\ SyncTypeOK /\ HInv /\ IndexOK /\ BlockDbTypeOK
      /\ pc[s] \in {"orphan", "orphanNext"}
      /\ PlacedOf(pc[s], f, Stored, savedTx, tip, cachedTip)
      /\ PhaseOf(pc[s], f, Stored, Main, next, tip, cachedTip)
  BY OwnPhase DEF Orphan, OrphanNext, At, HInv, Inv
<1>2. /\ cachedTip = tip /\ tip # NoTip /\ np # tip.hash
      /\ Leaf(tip.hash, Stored) /\ Linked(Stored, next)
      /\ f.blk = tip.hash \/ f.blk \notin Stored
      /\ f.from \in BranchTo(tip.hash) \ Branch[np]
      /\ Main = Branch[np] \cup (Above(f.from, tip) \ (IF pc[s] = "orphan" THEN {} ELSE {f.from}))
      /\ Leads(Branch[np], np, next)
      /\ LeadsAbove(f.from, tip, next)
  BY <1>1 DEF PhaseOf, OpenOf, ChainOf, After, Reorganising
<1>3. /\ tip.hash \in Block /\ BranchTo(tip.hash) = Branch[tip.hash]
      /\ np \in Stored /\ np \in Block /\ f.from \in Stored /\ f.from \in Block
  BY <1>1, <1>2, WebHolds, BranchToBlock, Names DEF PlacedOf, ShapeOf, Reorganising, Stored
<1>. HIDE DEF f
<1>4. CASE Orphan(s)
  <2>1. /\ pc[s] = "orphan" /\ UNCHANGED <<prev, next, tip, cachedTip>>
        /\ height' = [height EXCEPT ![f.from] = -1]
        /\ Goto(s, "orphanNext", f) /\ "orphanNext" \in Points
    BY <1>4 DEF Orphan, At, SetBlockNotMain, OneObject, Points, f
  <2>2. Stored' = Stored /\ Main' = Main \ {f.from}
    <3>1. -1 \in Heights /\ ~(-1 >= 0)
      BY DEF Heights
    <3>2. /\ Stored' = Stored
          /\ Main' = IF -1 >= 0 THEN Main \cup {f.from} ELSE Main \ {f.from}
      BY <1>1, <1>3, <2>1, <3>1, MainMoves
    <3>. QED BY <3>1, <3>2
  <2>3. Main' = Branch[np] \cup (Above(f.from, tip) \ {f.from})
    BY <1>2, <2>1, <2>2
  <2>4. PhaseOf("orphanNext", f, Stored', Main', next', tip', cachedTip')
    BY <1>2, <2>1, <2>2, <2>3 DEF PhaseOf, OpenOf, ChainOf, EndOf, Before, After, Reorganising
  <2>. QED BY <1>1, <2>1, <2>4, GotoPhase
<1>5. CASE OrphanNext(s)
  <2>. DEFINE n == next[f.from]
              g == [f EXCEPT !.from = n]
  <2>1. /\ pc[s] = "orphanNext" /\ UNCHANGED <<prev, next, height, tip, cachedTip>>
        /\ IF n = Null THEN StartAdd(s, g) ELSE Goto(s, "orphan", g)
    BY <1>5 DEF OrphanNext, At, dbVars, f
  <2>2. /\ n = Null => Above(f.from, tip) \ {f.from} = {}
        /\ n # Null => /\ n \in Branch[tip.hash] \ Branch[np]
                       /\ Above(f.from, tip) \ {f.from} = Above(n, tip)
                       /\ LeadsAbove(n, tip, next)
    BY <1>1, <1>2, <1>3, WebHolds, Climb
  <2>3. n \in Block \cup {Null}
    BY <1>1, <1>3, WebHolds DEF Hash
  <2>. HIDE DEF n
  <2>4. g \in Frames /\ g.blk = f.blk /\ NewPrev(g) = np /\ g.from = n
    BY <1>1, <2>3 DEF Frames, NewPrev
  <2>. HIDE DEF g
  <2>5. CASE n = Null
    <3>1. Main = BranchTo(NewPrev(g)) /\ Leads(Main, NewPrev(g), next)
      BY <1>2, <1>3, <2>1, <2>2, <2>4, <2>5, BranchToBlock
    <3>. QED BY <1>1, <1>2, <2>1, <2>4, <2>5, <3>1, StartAddPhase
  <2>6. CASE n # Null
    <3>1. Main = Branch[np] \cup Above(n, tip)
      BY <1>2, <2>1, <2>2, <2>6
    <3>2. PhaseOf("orphan", g, Stored, Main, next, tip, cachedTip)
      BY <1>2, <1>3, <2>2, <2>4, <2>6, <3>1 DEF PhaseOf, OpenOf, ChainOf, EndOf, Before, After, Reorganising
    <3>3. Goto(s, "orphan", g) /\ "orphan" \in Points
      BY <2>1, <2>6 DEF Points
    <3>. QED BY <1>1, <2>1, <2>4, <3>2, <3>3, GotoQuiet
  <2>. QED BY <2>5, <2>6
<1>. QED BY <1>4, <1>5

\* The batch of bDb.add puts a block on the main chain.
LEMMA BlockAdded ==
    ASSUME BlockDbTypeOK, NEW b \in Block,
           height' = [height EXCEPT ![b] = Depth[b]], prev' = [prev EXCEPT ![b] = ParentOf[b]]
    PROVE  Stored' = Stored \cup {b} /\ Main' = Main \cup {b}
<1>1. ParentOf[b] # Null /\ Depth[b] \in Nat
  BY BlockTree, Names
<1>2. \A x \in Block : prev'[x] = IF x = b THEN ParentOf[b] ELSE prev[x]
  BY DEF BlockDbTypeOK, Hash
<1>3. \A x \in Block : height'[x] = IF x = b THEN Depth[b] ELSE height[x]
  BY DEF BlockDbTypeOK, Hash
<1>4. \A x \in Block : x \in Stored' <=> x \in Stored \/ x = b
  BY <1>1, <1>2 DEF Stored, Has
<1>5. \A x \in Block : x \in Main' <=> x \in Main \/ x = b
  BY <1>1, <1>3, <1>4 DEF Main, Stored
<1>6. Stored' \subseteq Block /\ Main' \subseteq Block /\ Stored \subseteq Block /\ Main \subseteq Block
  BY DEF Main, Stored
<1>. QED BY <1>4, <1>5, <1>6

\* bDb.add: the batch adds the new block to its parent's main chain.
LEMMA AddPhase ==
    ASSUME RestInv, OneObject, NEW s \in Syncs, AddTxs(s) \/ AddBlock(s)
    PROVE  Phases'
<1>. DEFINE f == frame[s]
            np == NewPrev(f)
<1>1. /\ f \in Frames /\ ShapeOf(pc[s], f) /\ SyncTypeOK /\ HInv /\ IndexOK /\ BlockDbTypeOK
      /\ pc[s] \in {"addTxs", "addBlock"}
      /\ PlacedOf(pc[s], f, Stored, savedTx, tip, cachedTip)
      /\ PhaseOf(pc[s], f, Stored, Main, next, tip, cachedTip)
  BY OwnPhase DEF AddTxs, AddBlock, At, HInv, Inv
<1>2. /\ cachedTip = tip /\ (tip = NoTip => Stored = {})
      /\ Leaf(tip.hash, Stored) /\ Linked(Stored, next)
      /\ f.blk = tip.hash \/ f.blk \notin Stored
      /\ Main = BranchTo(np) /\ Leads(Main, np, next)
  BY <1>1 DEF PhaseOf, OpenOf, ChainOf, After, Reorganising
<1>3. /\ f.blk \in Block /\ f.allow /\ f.height = Depth[f.blk] /\ np = ParentOf[f.blk]
      /\ f.blk = Genesis \/ np \in Stored
  BY <1>1 DEF ShapeOf, PlacedOf, HeightKnown, NewPrev
<1>. HIDE DEF f, np
<1>4. CASE AddTxs(s)
  <2>1. UNCHANGED <<prev, next, height, tip, cachedTip>> /\ Goto(s, "addBlock", f) /\ "addBlock" \in Points
    BY <1>4 DEF AddTxs, OneObject, Points, f
  <2>2. PhaseOf("addBlock", f, Stored, Main, next, tip, cachedTip)
    BY <1>2 DEF PhaseOf, OpenOf, ChainOf, EndOf, Before, After, Reorganising, np
  <2>. QED BY <1>1, <2>1, <2>2, GotoQuiet
<1>5. CASE AddBlock(s)
  <2>1. /\ UNCHANGED <<next, tip>>
        /\ height' = [height EXCEPT ![f.blk] = Depth[f.blk]]
        /\ prev' = [prev EXCEPT ![f.blk] = ParentOf[f.blk]]
        /\ cachedTip' = [hash |-> f.blk, height |-> f.height]
        /\ Goto(s, "putTip", f) /\ "putTip" \in Points
    BY <1>3, <1>5 DEF AddBlock, AddBlockScript, CacheTip, Points, f
  <2>2. Stored' = Stored \cup {f.blk} /\ Main' = Main \cup {f.blk}
    BY <1>1, <1>3, <2>1, BlockAdded
  <2>3. Main' = Branch[f.blk] /\ (f.blk # Genesis => np \in Block)
    <3>1. CASE f.blk = Genesis
      <4>1. np = Zero
        BY <1>3, <3>1, BlockTree
      <4>2. Main = {}
        BY <1>2, <4>1, Names DEF BranchTo
      <4>. QED BY <2>2, <3>1, <4>2, Branches
    <3>2. CASE f.blk # Genesis
      <4>1. np \in Block
        BY <1>3, <3>2 DEF Stored
      <4>2. Branch[f.blk] = Branch[np] \cup {f.blk}
        BY <1>3, <3>2, Branches
      <4>. QED BY <1>2, <2>2, <4>1, <4>2, BranchToBlock
    <3>. QED BY <3>1, <3>2
  <2>4. Leaf(f.blk, Stored')
    <3>. SUFFICES ASSUME NEW x \in Stored', ParentOf[x] = f.blk PROVE FALSE
      BY DEF Leaf
    <3>1. x \in Block /\ x # f.blk
      <4>1. x \in Block
        BY DEF Stored
      <4>. QED BY <1>3, <4>1, DepthOfChild
    <3>2. x \in Stored
      BY <2>2, <3>1
    <3>3. f.blk \in Stored
      <4>1. Branch[x] \subseteq Stored
        BY <1>1, <3>2 DEF IndexOK, Complete
      <4>2. x # Genesis
        BY <1>3, BlockTree, Names
      <4>. QED BY <3>1, <4>1, <4>2, ParentFacts
    <3>. QED BY <1>2, <3>2, <3>3 DEF Leaf
  <2>5. Linked(Stored' \ {f.blk}, next')
    BY <1>2, <2>1, <2>2 DEF Linked
  <2>6. Leads(BranchTo(np), np, next')
    BY <1>2, <2>1
  <2>7. PhaseOf("putTip", f, Stored', Main', next', tip', cachedTip')
    BY <2>1, <2>3, <2>4, <2>5, <2>6 DEF PhaseOf, OpenOf, ChainOf, EndOf, Before, After, Reorganising, np
  <2>. QED BY <1>1, <2>1, <2>7, GotoPhase
<1>. QED BY <1>4, <1>5

\* The two puts that are left of a call.
LEMMA EndPhase ==
    ASSUME RestInv, OneObject, NEW s \in Syncs, StoreTip(s) \/ LinkPrev(s)
    PROVE  Phases'
<1>. DEFINE f == frame[s]
            np == NewPrev(f)
<1>1. /\ f \in Frames /\ ShapeOf(pc[s], f) /\ SyncTypeOK /\ HInv /\ IndexOK /\ BlockDbTypeOK
      /\ pc[s] \in {"putTip", "setNext"}
      /\ PhaseOf(pc[s], f, Stored, Main, next, tip, cachedTip)
  BY OwnPhase DEF StoreTip, LinkPrev, At, HInv, Inv
<1>2. /\ Main = Branch[f.blk]
      /\ Leads(BranchTo(np), np, next)
      /\ Leaf(f.blk, Stored) /\ Linked(Stored \ {f.blk}, next)
      /\ pc[s] = "putTip" => cachedTip = [hash |-> f.blk, height |-> f.height]
      /\ pc[s] = "setNext" => tip.hash = f.blk /\ cachedTip = tip
  BY <1>1 DEF PhaseOf, OpenOf, EndOf, After
<1>3. f.blk \in Block /\ np = ParentOf[f.blk] /\ f.blk # Null /\ np \in Hash
  BY <1>1, BlockTree, Names DEF ShapeOf, NewPrev, Hash
<1>. HIDE DEF f, np
<1>4. CASE StoreTip(s)
  <2>1. /\ pc[s] = "putTip" /\ UNCHANGED <<prev, next, height, cachedTip>>
        /\ tip' = [hash |-> f.blk, height |-> f.height]
        /\ Goto(s, "setNext", f) /\ "setNext" \in Points
    BY <1>4 DEF StoreTip, At, PutTip, Points, f
  <2>2. Stored' = Stored /\ Main' = Main /\ next' = next
    BY <2>1, SameChain
  <2>3. tip' = cachedTip' /\ tip'.hash = f.blk /\ tip' # NoTip
    BY <1>2, <1>3, <2>1 DEF NoTip
  <2>4. PhaseOf("setNext", f, Stored', Main', next', tip', cachedTip')
    BY <1>2, <2>2, <2>3 DEF PhaseOf, OpenOf, ChainOf, EndOf, Before, After, Reorganising, np
  <2>. QED BY <1>1, <2>1, <2>4, GotoPhase
<1>5. CASE LinkPrev(s)
  <2>1. /\ pc[s] = "setNext" /\ UNCHANGED <<prev, height, tip, cachedTip>>
        /\ next' = [next EXCEPT ![np] = f.blk]
        /\ Goto(s, "idle", NoFrame) /\ "idle" \in Points
    BY <1>5 DEF LinkPrev, At, SetNext, Return, Points, f, np
  <2>2. Stored' = Stored /\ Main' = Main
    <3>1. Stored' = Stored
      BY <2>1 DEF Stored, Has
    <3>. QED BY <2>1, <3>1 DEF Main
  <2>3. \A h \in Hash : next'[h] = IF h = np THEN f.blk ELSE next[h]
    BY <1>1, <2>1 DEF BlockDbTypeOK
  <2>4. Linked(Stored, next')
    <3>. SUFFICES ASSUME NEW x \in Stored PROVE next'[ParentOf[x]] # Null
      BY DEF Linked
    <3>1. ParentOf[x] \in Hash
      BY <1>1, ParentStored
    <3>. QED BY <1>2, <1>3, <2>3, <3>1 DEF Linked
  <2>5. tip.hash = f.blk /\ cachedTip = tip /\ tip # NoTip /\ BranchTo(f.blk) = Branch[f.blk]
    BY <1>2, <1>3, <2>1, BranchToBlock DEF NoTip
  <2>6. Leads(Branch[f.blk], f.blk, next')
    <3>. SUFFICES ASSUME NEW b \in Branch[f.blk], b # f.blk PROVE next'[b] \in Branch[f.blk]
      BY DEF Leads
    <3>1. f.blk # Genesis
      BY Branches
    <3>2. Branch[f.blk] = Branch[np] \cup {f.blk} /\ np \in Block
      BY <1>3, <3>1, Branches, ParentFacts
    <3>3. b \in Branch[np] /\ b \in Hash
      BY <1>3, <3>2, BranchWithin DEF Hash
    <3>4. b # np => next[b] \in Branch[np]
      BY <1>2, <3>2, <3>3, BranchToBlock DEF Leads
    <3>. QED BY <2>3, <3>2, <3>3, <3>4
  <2>7. PhaseOf("idle", NoFrame, Stored', Main', next', tip', cachedTip')
    BY <1>2, <2>1, <2>2, <2>4, <2>5, <2>6 DEF PhaseOf, OpenOf, ChainOf, EndOf, Before, After, Reorganising
  <2>. QED BY <1>1, <2>1, <2>7, NoFrameIsFrame, GotoPhase
<1>. QED BY <1>4, <1>5

-----------------------------------------------------------------------------
(* What the steps write *)

\* setBlockMain: one block joins, or bitcoind does not know it and node ends.
LEMMA ConnectMain ==
    ASSUME RestInv, OneObject, NEW s \in Syncs, Connect(s)
    PROVE  LET b == Head(frame[s].branch)
           IN  \/ Throw /\ UNCHANGED <<height, txBlock>>
               \/ /\ b \in Block /\ b \in Stored
                  /\ SetTxs(b, [blk |-> b, ht |-> frame[s].height])
                  /\ Stored' = Stored /\ Main' = Main \cup {b}
                  /\ \E p \in {"connect", "yNext"}, q \in Seq(Hash), h \in Heights :
                        Goto(s, p, [frame[s] EXCEPT !.height = h, !.branch = q])
<1>. DEFINE f == frame[s]
            b == Head(f.branch)
<1>1. /\ f \in Frames /\ ShapeOf(pc[s], f) /\ BlockDbTypeOK /\ pc[s] = "connect"
      /\ PlacedOf(pc[s], f, Stored, savedTx, tip, cachedTip)
  BY OwnPhase DEF Connect, At
<1>2. CASE b \in Block /\ SetBlockMain(b, f.height) /\ Goto(s, IF Len(f.branch) = 1 THEN "yNext" ELSE "connect", [f EXCEPT !.height = @ + 1, !.branch = Tail(@)])
  <2>1. b \in Stored /\ f.height = Depth[b] /\ f.height \in Nat
    <3>1. b # Zero
      BY <1>2, Names
    <3>. QED BY <1>1, <1>2, <3>1, BlockTree DEF PlacedOf
  <2>2. height' = [height EXCEPT ![b] = f.height] /\ UNCHANGED prev /\ f.height \in Heights
    BY <1>2, <2>1 DEF Connect, SetBlockMain, Heights
  <2>3. Stored' = Stored /\ Main' = Main \cup {b}
    <3>1. f.height >= 0
      BY <2>1
    <3>2. /\ Stored' = Stored
          /\ Main' = IF f.height >= 0 THEN Main \cup {b} ELSE Main \ {b}
      BY <1>1, <2>1, <2>2, MainMoves
    <3>. QED BY <3>1, <3>2
  <2>4. Tail(f.branch) \in Seq(Hash) /\ f.height + 1 \in Heights
    BY <1>1, <2>1, TailOfLonger DEF Frames, Heights, ShapeOf
  <2>. QED BY <1>2, <2>1, <2>3, <2>4 DEF SetBlockMain
<1>. QED BY <1>2 DEF Connect, OneObject

\* setBlockNotMain: one block leaves.
LEMMA OrphanMain ==
    ASSUME RestInv, OneObject, NEW s \in Syncs, Orphan(s)
    PROVE  /\ frame[s].from \in Block
           /\ SetTxs(frame[s].from, NoBlock)
           /\ Stored' = Stored /\ Main' = Main \ {frame[s].from}
<1>. DEFINE b == frame[s].from
<1>1. BlockDbTypeOK /\ b \in Block /\ b \in Stored
  <2>1. ShapeOf(pc[s], frame[s]) /\ pc[s] = "orphan" /\ BlockDbTypeOK
    BY OwnPhase DEF Orphan, At
  <2>2. PlacedOf(pc[s], frame[s], Stored, savedTx, tip, cachedTip)
    BY OwnPhase
  <2>3. b \in Block
    BY <2>1 DEF ShapeOf
  <2>. QED BY <2>1, <2>2, <2>3, Names DEF PlacedOf
<1>2. SetBlockNotMain(b) /\ UNCHANGED prev
  BY DEF Orphan, OneObject
<1>3. -1 \in Heights /\ ~(-1 >= 0)
  BY DEF Heights
<1>. HIDE DEF b
<1>4. /\ Stored' = Stored
      /\ Main' = IF -1 >= 0 THEN Main \cup {b} ELSE Main \ {b}
  BY <1>1, <1>2, <1>3, MainMoves DEF SetBlockNotMain
<1>. QED BY <1>1, <1>2, <1>3, <1>4 DEF SetBlockNotMain, b

\* bDb.add: the new block joins.
LEMMA AddBlockMain ==
    ASSUME RestInv, NEW s \in Syncs, AddBlock(s)
    PROVE  LET b == frame[s].blk
           IN  /\ b \in Block
               /\ SetTxs(b, [blk |-> b, ht |-> frame[s].height])
               /\ Stored' = Stored \cup {b} /\ Main' = Main \cup {b}
               /\ cachedTip' = [hash |-> b, height |-> frame[s].height]
               /\ Goto(s, "putTip", frame[s])
<1>. DEFINE b == frame[s].blk
<1>1. /\ BlockDbTypeOK /\ b \in Block /\ frame[s].height = Depth[b] /\ frame[s].allow
  <2>1. ShapeOf(pc[s], frame[s]) /\ pc[s] = "addBlock" /\ BlockDbTypeOK
    BY OwnPhase DEF AddBlock, At
  <2>2. PlacedOf(pc[s], frame[s], Stored, savedTx, tip, cachedTip)
    BY OwnPhase
  <2>. QED BY <2>1, <2>2 DEF ShapeOf, PlacedOf, HeightKnown
<1>2. AddBlockScript(b, frame[s].height) /\ CacheTip(b, frame[s].height) /\ Goto(s, "putTip", frame[s])
  BY <1>1 DEF AddBlock
<1>3. height' = [height EXCEPT ![b] = Depth[b]] /\ prev' = [prev EXCEPT ![b] = ParentOf[b]]
  BY <1>1, <1>2 DEF AddBlockScript
<1>4. Stored' = Stored \cup {b} /\ Main' = Main \cup {b}
  BY <1>1, <1>3, BlockAdded
<1>. QED BY <1>1, <1>2, <1>4 DEF AddBlockScript, CacheTip

\* The other steps write no height and no entry.
LEMMA OtherMain ==
    ASSUME NEW s \in Syncs, Step(s), ~Connect(s), ~Orphan(s), ~AddBlock(s)
    PROVE  UNCHANGED <<prev, height, txBlock>> /\ Stored' = Stored /\ Main' = Main
<1>1. UNCHANGED <<prev, height, txBlock>>
  BY DEF Step, HasPrev, GetTip, GetNext, ReorgHeight, BackPrev, BackHeight, YNext, SetYNext,
         OrphanNext, AddTxs, StoreTip, LinkPrev, dbVars
<1>2. Stored' = Stored
  BY <1>1 DEF Stored, Has
<1>. QED BY <1>1, <1>2 DEF Main

-----------------------------------------------------------------------------
(* The transaction index follows the main chain *)

TxsFollow == EntriesOnMain /\ UnsharedOnMain

LEMMA TxsStay ==
    ASSUME TxsFollow, UNCHANGED txBlock, Main' = Main
    PROVE  TxsFollow'
  BY DEF TxsFollow, EntriesOnMain, UnsharedOnMain

LEMMA TxsJoin ==
    ASSUME TxsFollow, NEW b \in Block, NEW h, SetTxs(b, [blk |-> b, ht |-> h]), Main' = Main \cup {b}
    PROVE  TxsFollow'
<1>1. \A t \in Tx : txBlock'[t].blk = IF t \in TxOf[b] THEN b ELSE txBlock[t].blk
  BY DEF SetTxs
<1>2. EntriesOnMain'
  BY <1>1 DEF TxsFollow, EntriesOnMain
<1>3. UnsharedOnMain'
  <2>. SUFFICES ASSUME NEW c \in Main', NEW t \in TxOf[c], \A x \in Block \ {c} : t \notin TxOf[x]
                PROVE  txBlock'[t].blk = c
    BY DEF UnsharedOnMain
  <2>1. t \in Tx
    <3>1. c \in Block
      BY DEF Main, Stored
    <3>. QED BY <3>1, Transactions
  <2>2. CASE c = b
    BY <1>1, <2>1, <2>2
  <2>3. CASE c # b
    BY <1>1, <2>1, <2>3 DEF TxsFollow, UnsharedOnMain
  <2>. QED BY <2>2, <2>3
<1>. QED BY <1>2, <1>3 DEF TxsFollow

LEMMA TxsLeave ==
    ASSUME TxsFollow, TxOwned, NEW b \in Block, SetTxs(b, NoBlock), Main' = Main \ {b}
    PROVE  TxsFollow'
<1>1. \A t \in Tx : txBlock'[t].blk = IF t \in TxOf[b] THEN Null ELSE txBlock[t].blk
  BY DEF SetTxs, NoBlock
<1>2. EntriesOnMain'
  BY <1>1 DEF TxsFollow, EntriesOnMain, TxOwned
<1>3. UnsharedOnMain'
  <2>. SUFFICES ASSUME NEW c \in Main', NEW t \in TxOf[c], \A x \in Block \ {c} : t \notin TxOf[x]
                PROVE  txBlock'[t].blk = c
    BY DEF UnsharedOnMain
  <2>1. t \in Tx
    <3>1. c \in Block
      BY DEF Main, Stored
    <3>. QED BY <3>1, Transactions
  <2>. QED BY <1>1, <2>1 DEF TxsFollow, UnsharedOnMain
<1>. QED BY <1>2, <1>3 DEF TxsFollow

-----------------------------------------------------------------------------
(* The invariant is inductive as long as forks stay on the main chain *)

LEMMA StepRest ==
    ASSUME RestInv, OneObject, ForksStay, NEW s \in Syncs, Step(s)
    PROVE  RestInv'
<1>1. HInv'
  BY StepHInv DEF RestInv
<1>2. Phases'
  BY TipPhase, ReorgHeightPhase, BackPrevPhase, BackHeightPhase, ConnectPhase, TurnPhase,
     OrphanPhase, AddPhase, EndPhase DEF Step
<1>3. NoneWaits'
  BY StepFlags DEF RestInv, HInv, NoneWaits
<1>4. TxsFollow /\ TxOwned
  BY DEF RestInv, TxsFollow, HInv, Inv
<1>5. TxsFollow'
  <2>1. CASE Connect(s)
    <3>1. CASE Throw /\ UNCHANGED <<height, txBlock>>
      <4>1. Main' = Main
        BY <2>1, <3>1, SameChain DEF Connect
      <4>. QED BY <1>4, <3>1, <4>1, TxsStay
    <3>2. CASE ~(Throw /\ UNCHANGED <<height, txBlock>>)
      <4>. DEFINE b == Head(frame[s].branch)
      <4>1. b \in Block /\ SetTxs(b, [blk |-> b, ht |-> frame[s].height]) /\ Main' = Main \cup {b}
        BY <2>1, <3>2, ConnectMain
      <4>. HIDE DEF b
      <4>. QED BY <1>4, <4>1, TxsJoin
    <3>. QED BY <3>1, <3>2
  <2>2. CASE Orphan(s)
    <3>1. frame[s].from \in Block /\ SetTxs(frame[s].from, NoBlock) /\ Main' = Main \ {frame[s].from}
      BY <2>2, OrphanMain
    <3>. QED BY <1>4, <3>1, TxsLeave
  <2>3. CASE AddBlock(s)
    <3>. DEFINE b == frame[s].blk
    <3>1. b \in Block /\ SetTxs(b, [blk |-> b, ht |-> frame[s].height]) /\ Main' = Main \cup {b}
      BY <2>3, AddBlockMain
    <3>. HIDE DEF b
    <3>. QED BY <1>4, <3>1, TxsJoin
  <2>4. CASE ~Connect(s) /\ ~Orphan(s) /\ ~AddBlock(s)
    BY <1>4, <2>4, OtherMain, TxsStay
  <2>. QED BY <2>1, <2>2, <2>3, <2>4
<1>. QED BY <1>1, <1>2, <1>3, <1>5 DEF RestInv, TxsFollow

LEMMA CallRest ==
    ASSUME RestInv, OneObject, NEW s \in Syncs, NEW c \in Calls, Submit(s, c) \/ Retry(s, c)
    PROVE  RestInv'
<1>1. HInv'
  BY CallHInv DEF RestInv, OneObject
<1>2. Phases' /\ NoneWaits'
  BY CallPhase
<1>3. UNCHANGED <<prev, next, height, txBlock>>
  BY DEF Submit, Call, Retry, dbVars
<1>4. Main' = Main
  BY <1>3, SameChain
<1>5. TxsFollow'
  BY <1>3, <1>4, TxsStay DEF RestInv, TxsFollow
<1>. QED BY <1>1, <1>2, <1>5 DEF RestInv, TxsFollow

LEMMA InitRest ==
    ASSUME Init
    PROVE  RestInv
<1>1. HInv
  BY InitHInv
<1>. USE DEF Init, BlockDbInit, VolatileInit
<1>2. Stored = {} /\ Main = {}
  BY DEF Stored, Has, Main, Hash
<1>3. ASSUME NEW s \in Syncs PROVE PhaseOf(pc[s], frame[s], Stored, Main, next, tip, cachedTip)
  <2>1. pc[s] = "idle" /\ cachedTip = tip /\ tip.hash = Null
    BY DEF NoTip
  <2>2. BranchTo(tip.hash) = {}
    BY <2>1, Names DEF BranchTo
  <2>. QED BY <1>2, <2>1, <2>2
       DEF PhaseOf, OpenOf, ChainOf, EndOf, Before, After, Reorganising, Leads, Leaf, Linked
<1>4. NoneWaits /\ EntriesOnMain /\ UnsharedOnMain
  BY <1>2 DEF NoneWaits, EntriesOnMain, UnsharedOnMain, NoBlock
<1>. QED BY <1>1, <1>3, <1>4 DEF RestInv, Phases

LEMMA NextRest ==
    ASSUME OneObject
    PROVE  RestInv /\ ForksStay /\ [Next]_vars => RestInv'
<1>. SUFFICES ASSUME RestInv, ForksStay, [Next]_vars PROVE RestInv'
  OBVIOUS
<1>1. CASE UNCHANGED vars
  <2>1. HInv'
    BY <1>1, NextHInv DEF RestInv, OneObject
  <2>2. UNCHANGED <<prev, next, height, txBlock, tip, cachedTip, pc, frame, delayed>>
    BY <1>1 DEF vars
  <2>3. Stored' = Stored /\ Main' = Main
    BY <2>2, SameChain
  <2>4. Phases' /\ NoneWaits' /\ TxsFollow'
    BY <2>2, <2>3, TxsStay DEF RestInv, Phases, NoneWaits, TxsFollow
  <2>. QED BY <2>1, <2>4 DEF RestInv, TxsFollow
<1>2. ASSUME NEW s \in Syncs, NEW c \in Calls, Submit(s, c) \/ Retry(s, c) PROVE RestInv'
  BY <1>2, CallRest
<1>3. ASSUME NEW s \in Syncs, Step(s) PROVE RestInv'
  BY <1>3, StepRest
<1>4. ~Restart
  BY DEF Restart, OneObject
<1>. QED BY <1>1, <1>2, <1>3, <1>4 DEF Next

LEMMA RestInvariance ==
    ASSUME OneObject
    PROVE  Spec /\ []ForksStay => []RestInv
<1>1. Init => RestInv
  BY InitRest
<1>2. RestInv /\ ForksStay /\ [Next]_vars => RestInv'
  BY NextRest
<1>. QED BY <1>1, <1>2, PTL DEF Spec

-----------------------------------------------------------------------------
(* At rest *)

\* The main chain at rest is the tip's branch and the next pointers lead along it.
THEOREM RestingChain ==
    ASSUME OneObject
    PROVE  Spec /\ []ForksStay => []MainChainAtRest
<1>1. RestInv => MainChainAtRest
  <2>. SUFFICES ASSUME RestInv, AtRest PROVE Main = BestBranch /\ \A b \in Main \ {tip.hash} : next[b] \in Main
    BY DEF MainChainAtRest
  <2>1. PICK s \in Syncs : pc[s] = "idle"
    BY DEF AtRest, OneObject
  <2>2. Main = BranchTo(tip.hash) /\ Leads(Main, tip.hash, next)
    BY <2>1, QuietFacts DEF Before
  <2>3. tip.hash \in Block \/ tip.hash = Null
    BY WebHolds DEF RestInv
  <2>. QED BY <2>2, <2>3, Names DEF BranchTo, BestBranch, Leads
<1>. QED BY <1>1, RestInvariance, PTL

LEMMA RestsOnBranch ==
    ASSUME RestInv, OneObject, AtRest
    PROVE  Main = BestBranch
<1>1. PICK s \in Syncs : pc[s] = "idle"
  BY DEF AtRest, OneObject
<1>2. Main = BranchTo(tip.hash)
  BY <1>1, QuietFacts DEF Before
<1>3. tip.hash \in Block \/ tip.hash = Null
  BY WebHolds DEF RestInv
<1>. QED BY <1>2, <1>3, Names DEF BranchTo, BestBranch

\* No entry of the transaction index names a block off the tip's branch then.
THEOREM RestingEntries ==
    ASSUME OneObject
    PROVE  Spec /\ []ForksStay => []TxIndexOnlyBest
<1>1. RestInv => TxIndexOnlyBest
  BY RestsOnBranch DEF TxIndexOnlyBest, RestInv, EntriesOnMain
<1>. QED BY <1>1, RestInvariance, PTL

\* A transaction that only one block holds has its entry when the block is there.
THEOREM RestingTransactions ==
    ASSUME OneObject
    PROVE  Spec /\ []ForksStay => []UnsharedTxIndexed
<1>1. RestInv => UnsharedTxIndexed
  BY RestsOnBranch DEF UnsharedTxIndexed, RestInv, UnsharedOnMain
<1>. QED BY <1>1, RestInvariance, PTL

-----------------------------------------------------------------------------
(* The refinement of ChainIndex *)

\* The points at which nothing is being stored.
Done == {"idle", "putTip", "setNext"}

LEMMA Busy ==
    ASSUME OneObject, NEW s \in Syncs
    PROVE  /\ BusyNow = IF pc[s] \in Done THEN Null ELSE frame[s].blk
           /\ BusyNow' = IF pc'[s] \in Done THEN Null ELSE frame'[s].blk
<1>1. TheSync \in Syncs
  BY DEF TheSync, OneObject
<1>2. TheSync = s
  BY <1>1 DEF OneObject
<1>. QED BY <1>2 DEF BusyNow, Done

\* The best block is the tip, from the batch on the new block.
LEMMA Best ==
    ASSUME RestInv, NEW s \in Syncs
    PROVE  /\ pc[s] # "putTip" => cachedTip = tip /\ BestNow = tip.hash
           /\ pc[s] = "putTip" => BestNow = frame[s].blk /\ cachedTip.hash # Null
           /\ Index!BranchOf(tip.hash) = BranchTo(tip.hash)
<1>1. PhaseOf(pc[s], frame[s], Stored, Main, next, tip, cachedTip) /\ ShapeOf(pc[s], frame[s])
  BY OwnPhase
<1>2. pc[s] # "putTip" => cachedTip = tip
  BY <1>1 DEF PhaseOf, OpenOf
<1>3. pc[s] = "putTip" => cachedTip = [hash |-> frame[s].blk, height |-> frame[s].height] /\ frame[s].blk \in Block
  BY <1>1 DEF PhaseOf, EndOf, ShapeOf
<1>4. tip.hash \in Block \/ tip.hash = Null
  BY WebHolds DEF RestInv
<1>. QED BY <1>2, <1>3, <1>4, Names DEF BestNow, BranchTo, Index!BranchOf

\* The steps that go on with the call.
LEMMA StepGoesOn ==
    ASSUME RestInv, OneObject, NEW s \in Syncs, Step(s),
           ~AddBlock(s), ~StoreTip(s), ~LinkPrev(s)
    PROVE  /\ UNCHANGED tip /\ pc[s] \notin Done
           /\ \/ Throw
              \/ HasPrev(s) /\ Return(s) /\ NewPrev(frame[s]) \notin Stored \cup {Zero}
              \/ \E p \in Points \ Done : \E g : Goto(s, p, g) /\ g.blk = frame[s].blk
<1>. DEFINE f == frame[s]
            Goes == \E p \in Points \ Done : \E g : Goto(s, p, g) /\ g.blk = f.blk
<1>1. f \in Frames
  BY OwnPhase
<1>2. UNCHANGED tip /\ pc[s] \notin Done
  BY DEF Step, HasPrev, GetTip, GetNext, ReorgHeight, BackPrev, BackHeight, Connect, YNext,
         SetYNext, Orphan, OrphanNext, AddTxs, At, Done, dbVars
<1>3. ASSUME NEW h, NEW x, NEW y, NEW z, NEW q
      PROVE  /\ [f EXCEPT !.height = h].blk = f.blk
             /\ [f EXCEPT !.from = x].blk = f.blk
             /\ [f EXCEPT !.from = x, !.iter = y, !.branch = q].blk = f.blk
             /\ [f EXCEPT !.last = z, !.iter = y].blk = f.blk
             /\ [f EXCEPT !.branch = q].blk = f.blk
             /\ [f EXCEPT !.height = h, !.branch = q].blk = f.blk
  BY <1>1 DEF Frames
<1>4. ASSUME NEW p \in Points \ Done, NEW g, Goto(s, p, g), g.blk = f.blk
      PROVE  Goes
  BY <1>4
<1>. HIDE DEF Goes
<1>5. ASSUME NEW g, g.blk = f.blk, StartAdd(s, g)
      PROVE  Goes
  BY <1>4, <1>5 DEF StartAdd, Points, Done
<1>6. ASSUME NEW t, TipRead(s, f, t)
      PROVE  Goes
  <2>1. CASE Goto(s, "getNext", f)
    BY <1>4, <2>1 DEF Points, Done
  <2>2. CASE StartAdd(s, [f EXCEPT !.height = t.height + 1])
    BY <1>3, <1>5, <2>2
  <2>. QED BY <1>6, <2>1, <2>2 DEF TipRead
<1>7. CASE HasPrev(s)
  <2>1. ASSUME CallGetTip(s, f) PROVE Goes
    <3>1. CASE cachedTip.hash # Null
      BY <1>6, <2>1, <3>1 DEF CallGetTip
    <3>2. CASE cachedTip.hash = Null
      <4>1. Goto(s, "getTip", f) /\ "getTip" \in Points \ Done
        BY <2>1, <3>2 DEF CallGetTip, Points, Done
      <4>. QED BY <1>4, <4>1
    <3>. QED BY <3>1, <3>2
  <2>2. CASE Return(s) /\ ~(Has(NewPrev(f)) \/ NewPrev(f) = Zero)
    BY <1>2, <1>7, <2>2 DEF Stored
  <2>. QED BY <1>2, <1>7, <2>1, <2>2 DEF HasPrev, Goes
<1>8. CASE GetTip(s)
  BY <1>2, <1>6, <1>8 DEF GetTip, Goes
<1>9. CASE GetNext(s)
  <2>1. Goto(s, "reorgHeight", [f EXCEPT !.from = next[NewPrev(f)]]) /\ "reorgHeight" \in Points \ Done
    BY <1>9 DEF GetNext, Points, Done
  <2>. QED BY <1>2, <1>3, <1>4, <2>1 DEF Goes
<1>10. CASE ReorgHeight(s)
  <2>. DEFINE h == height[NewPrev(f)]
  <2>1. CASE StartBack(s, f, NewPrev(f))
    <3>. DEFINE q == <<NewPrev(f)>>
                g == [f EXCEPT !.from = Null, !.iter = NewPrev(f), !.branch = q]
    <3>1. Goto(s, "backPrev", g) /\ "backPrev" \in Points \ Done
      BY <2>1 DEF StartBack, Points, Done
    <3>. HIDE DEF q
    <3>2. g.blk = f.blk
      BY <1>3
    <3>. HIDE DEF g
    <3>3. Goes
      BY <1>4, <3>1, <3>2
    <3>. QED BY <1>2, <3>3 DEF Goes
  <2>2. CASE Goto(s, "orphan", [f EXCEPT !.height = h + 1])
    <3>1. "orphan" \in Points \ Done
      BY DEF Points, Done
    <3>. QED BY <1>2, <1>3, <1>4, <2>2, <3>1 DEF Goes
  <2>. QED BY <1>2, <1>10, <2>1, <2>2 DEF ReorgHeight
<1>11. CASE BackPrev(s)
  <2>1. Goto(s, "backHeight", [f EXCEPT !.last = f.iter, !.iter = prev[f.iter]]) /\ "backHeight" \in Points \ Done
    BY <1>11 DEF BackPrev, Points, Done
  <2>. QED BY <1>2, <1>3, <1>4, <2>1 DEF Goes
<1>12. CASE BackHeight(s)
  <2>1. "backPrev" \in Points \ Done /\ "connect" \in Points \ Done
    BY DEF Points, Done
  <2>2. CASE Goto(s, "backPrev", [f EXCEPT !.branch = <<f.iter>> \o @])
    BY <1>2, <1>3, <1>4, <2>1, <2>2 DEF Goes
  <2>3. CASE Goto(s, "connect", [f EXCEPT !.height = height[f.iter] + 1])
    BY <1>2, <1>3, <1>4, <2>1, <2>3 DEF Goes
  <2>. QED BY <1>2, <1>12, <2>2, <2>3 DEF BackHeight, Goes
<1>13. CASE Connect(s)
  <2>1. "yNext" \in Points \ Done /\ "connect" \in Points \ Done
    BY DEF Points, Done
  <2>2. ASSUME NEW p \in {"connect", "yNext"}, NEW q \in Seq(Hash), NEW h \in Heights,
               Goto(s, p, [f EXCEPT !.height = h, !.branch = q])
        PROVE  Goes
    BY <1>3, <1>4, <2>1, <2>2
  <2>. QED BY <1>2, <1>13, <2>2, ConnectMain DEF Goes
<1>14. CASE YNext(s)
  <2>1. Goto(s, "setYNext", [f EXCEPT !.from = next[f.iter]]) /\ "setYNext" \in Points \ Done
    BY <1>14 DEF YNext, Points, Done
  <2>. QED BY <1>2, <1>3, <1>4, <2>1 DEF Goes
<1>15. CASE SetYNext(s)
  <2>1. "orphan" \in Points \ Done
    BY DEF Points, Done
  <2>. QED BY <1>2, <1>4, <1>5, <1>15, <2>1 DEF SetYNext, Goes
<1>16. CASE Orphan(s)
  <2>1. "orphanNext" \in Points \ Done
    BY DEF Points, Done
  <2>. QED BY <1>2, <1>4, <1>16, <2>1 DEF Orphan, OneObject, Goes
<1>17. CASE OrphanNext(s)
  <2>. DEFINE n == next[f.from]
              g == [f EXCEPT !.from = n]
  <2>1. "orphan" \in Points \ Done
    BY DEF Points, Done
  <2>2. g.blk = f.blk
    BY <1>3
  <2>3. IF n = Null THEN StartAdd(s, g) ELSE Goto(s, "orphan", g)
    BY <1>17 DEF OrphanNext
  <2>. HIDE DEF g, n
  <2>4. Goes
    BY <1>4, <1>5, <2>1, <2>2, <2>3
  <2>. QED BY <1>2, <2>4 DEF Goes
<1>18. CASE AddTxs(s)
  <2>1. Goto(s, "addBlock", f) /\ "addBlock" \in Points \ Done
    BY <1>18 DEF AddTxs, OneObject, Points, Done
  <2>. QED BY <1>2, <1>4, <2>1 DEF Goes
<1>. QED BY <1>7, <1>8, <1>9, <1>10, <1>11, <1>12, <1>13, <1>14, <1>15, <1>16, <1>17, <1>18 DEF Step

LEMMA CallImplements ==
    ASSUME RestInv, OneObject, NEW s \in Syncs, NEW c \in Calls, Submit(s, c) \/ Retry(s, c)
    PROVE  Index!Begin
<1>3. pc[s] = "idle" /\ Enter(s, c)
  BY TakesLock
<1>4. UNCHANGED <<prev, next, height, tip, cachedTip>>
  BY TakesLock DEF dbVars
<1>5. Stored' = Stored /\ Main' = Main
  BY <1>4, SameChain
<1>6. BestNow' = BestNow
  BY <1>4 DEF BestNow
<1>. DEFINE f == [NoFrame EXCEPT !.blk = c.blk, !.allow = c.allow]
<1>7. c.blk \in Block /\ f.blk = c.blk /\ f \in Frames
  <2>1. c.blk \in Block /\ c.allow \in BOOLEAN
    BY DEF Calls, OneObject
  <2>. QED BY <2>1, NoFrameIsFrame DEF Frames, NoFrame
<1>8. ASSUME NEW p \in Points \ Done, NEW g, Goto(s, p, g), g.blk = c.blk
      PROVE  BusyNow' = c.blk
  <2>1. pc'[s] = p /\ frame'[s] = g
    BY <1>8 DEF Goto, RestInv, HInv, Inv, SyncTypeOK
  <2>. QED BY <1>8, <2>1, Busy
<1>9. ASSUME NEW g, g.blk = c.blk, StartAdd(s, g)
      PROVE  BusyNow' = c.blk
  BY <1>8, <1>9 DEF StartAdd, Points, Done
<1>10. BusyNow' = c.blk
  <2>1. c.allow = TRUE
    BY DEF Calls, OneObject
  <2>. HIDE DEF f
  <2>2. CASE Goto(s, "has", f)
    BY <1>7, <1>8, <2>2 DEF Points, Done
  <2>3. CASE Goto(s, "getTip", f)
    BY <1>7, <1>8, <2>3 DEF Points, Done
  <2>4. CASE Goto(s, "getNext", f)
    BY <1>7, <1>8, <2>4 DEF Points, Done
  <2>5. CASE StartAdd(s, [f EXCEPT !.height = cachedTip.height + 1])
    BY <1>7, <1>9, <2>5 DEF Frames
  <2>. QED BY <1>3, <2>1, <2>2, <2>3, <2>4, <2>5 DEF Enter, CallGetTip, TipRead, f
<1>11. BusyNow = Null
  BY <1>3, Busy DEF Done
<1>. QED BY <1>5, <1>6, <1>7, <1>10, <1>11 DEF Index!Begin

LEMMA RearrangeImplements ==
    ASSUME RestInv, RestInv', OneObject, NEW s \in Syncs, Connect(s) \/ Orphan(s), ~Throw
    PROVE  Stored' = Stored /\ Main' \subseteq Main \cup (Branch[frame[s].blk] \cap Stored)
           /\ BranchTo(tip.hash) \cap (Branch[frame[s].blk] \ {frame[s].blk}) \subseteq Main'
           /\ NewPrev(frame[s]) \in Stored
<1>. DEFINE f == frame[s]
            np == NewPrev(f)
<1>1. /\ f \in Frames /\ ShapeOf(pc[s], f) /\ HInv
      /\ pc[s] \in {"connect", "orphan"}
      /\ PlacedOf(pc[s], f, Stored, savedTx, tip, cachedTip)
      /\ PhaseOf(pc[s], f, Stored, Main, next, tip, cachedTip)
  BY OwnPhase DEF Connect, Orphan, At
<1>2. np \in Stored /\ np \in Block /\ f.blk \in Block /\ np = ParentOf[f.blk]
  BY <1>1 DEF PlacedOf, ShapeOf, Reorganising, NewPrev, Stored
<1>3. Branch[f.blk] = Branch[np] \cup {f.blk}
  <2>1. f.blk # Genesis
    BY <1>2, BlockTree, Names
  <2>. QED BY <1>2, <2>1, Branches
<1>4. CASE Connect(s)
  <2>. DEFINE b == Head(f.branch)
  <2>1. b \in Block /\ b \in Stored /\ Stored' = Stored /\ Main' = Main \cup {b}
    BY <1>4, ConnectMain
  <2>2. b \in Branch[np] /\ Main = BranchTo(tip.hash) \cup Branch[ParentOf[b]]
    <3>1. pc[s] = "connect" /\ b # Zero
      BY <1>4, <2>1, Names DEF Connect, At
    <3>. QED BY <1>1, <3>1 DEF PhaseOf, ChainOf
  <2>. QED BY <1>2, <1>3, <2>1, <2>2
<1>5. CASE Orphan(s)
  <2>1. Stored' = Stored /\ Main' = Main \ {f.from}
    BY <1>5, OrphanMain
  <2>2. pc[s] = "orphan" /\ f.from \notin Branch[np] /\ Branch[np] \subseteq Main
    <3>1. pc[s] = "orphan"
      BY <1>5 DEF Orphan, At
    <3>. QED BY <1>1, <3>1 DEF PhaseOf, ChainOf
  <2>. QED BY <1>2, <1>3, <2>1, <2>2
<1>. QED BY <1>4, <1>5

LEMMA StepImplements ==
    ASSUME RestInv, RestInv', OneObject, NEW s \in Syncs, Step(s)
    PROVE  [Index!Next]_(Index!indexVars)
<1>1. PhaseOf(pc'[s], frame'[s], Stored', Main', next', tip', cachedTip')
  BY DEF RestInv, Phases
<1>2. SyncTypeOK /\ frame[s] \in Frames /\ ShapeOf(pc[s], frame[s])
  BY OwnPhase
<1>3. \A p, g : Goto(s, p, g) => pc'[s] = p /\ frame'[s] = g
  BY <1>2 DEF Goto, SyncTypeOK
<1>4. CASE AddBlock(s)
  <2>. DEFINE b == frame[s].blk
  <2>1. /\ b \in Block /\ Stored' = Stored \cup {b}
        /\ cachedTip' = [hash |-> b, height |-> frame[s].height]
        /\ pc'[s] = "putTip" /\ frame'[s] = frame[s]
    BY <1>3, <1>4, AddBlockMain
  <2>2. pc[s] = "addBlock" /\ ParentOf[b] \in Stored \cup {Zero}
    <3>1. pc[s] = "addBlock"
      BY <1>4 DEF AddBlock, At
    <3>2. PlacedOf(pc[s], frame[s], Stored, savedTx, tip, cachedTip)
      BY OwnPhase
    <3>. QED BY <3>1, <3>2, BlockTree, Names DEF PlacedOf, NewPrev
  <2>3. Main' = Branch[b]
    BY <1>1, <2>1 DEF PhaseOf, EndOf, After
  <2>4. BestNow' = b /\ b # Null
    BY <2>1, Names DEF BestNow
  <2>5. BusyNow = b /\ BusyNow' = Null
    BY <2>1, <2>2, Busy DEF Done
  <2>. HIDE DEF b
  <2>. QED BY <2>1, <2>2, <2>3, <2>4, <2>5 DEF Index!Next, Index!Finish
<1>5. CASE StoreTip(s) \/ LinkPrev(s)
  <2>1. UNCHANGED <<prev, height, cachedTip>> /\ pc[s] \in {"putTip", "setNext"}
    BY <1>5 DEF StoreTip, LinkPrev, At
  <2>2. Stored' = Stored /\ Main' = Main
    <3>1. Stored' = Stored
      BY <2>1 DEF Stored, Has
    <3>. QED BY <2>1, <3>1 DEF Main
  <2>3. pc'[s] \in Done
    BY <1>3, <1>5 DEF StoreTip, LinkPrev, Return, Done
  <2>4. BusyNow' = BusyNow
    BY <2>1, <2>3, Busy DEF Done
  <2>5. BestNow' = BestNow
    <3>1. CASE StoreTip(s)
      <4>1. cachedTip.hash # Null
        BY <3>1, Best DEF StoreTip, At
      <4>. QED BY <2>1, <4>1 DEF BestNow
    <3>2. CASE LinkPrev(s)
      BY <2>1, <3>2 DEF BestNow, LinkPrev
    <3>. QED BY <1>5, <3>1, <3>2
  <2>. QED BY <2>2, <2>4, <2>5 DEF Index!indexVars
<1>6. CASE ~AddBlock(s) /\ ~StoreTip(s) /\ ~LinkPrev(s)
  <2>1. UNCHANGED tip /\ pc[s] \notin Done /\ BusyNow = frame[s].blk /\ frame[s].blk \in Block
    BY <1>2, <1>6, StepGoesOn, Busy DEF ShapeOf, Done
  <2>2. BestNow = tip.hash /\ cachedTip = tip /\ Index!BranchOf(tip.hash) = BranchTo(tip.hash)
    BY <2>1, Best DEF Done
  <2>3. ASSUME pc'[s] # "putTip" PROVE BestNow' = BestNow
    <3>1. cachedTip' = tip'
      BY <1>1, <2>3 DEF PhaseOf, OpenOf
    <3>. QED BY <2>1, <2>2, <3>1 DEF BestNow
  <2>4. CASE HasPrev(s) /\ Return(s) /\ NewPrev(frame[s]) \notin Stored \cup {Zero}
    <3>1. pc'[s] = "idle"
      BY <1>3, <2>4 DEF Return
    <3>2. BusyNow' = Null /\ BestNow' = BestNow
      BY <2>3, <3>1, Busy DEF Done
    <3>3. Stored' = Stored /\ Main' = Main
      BY <2>4, SameChain DEF HasPrev, dbVars
    <3>. QED BY <2>1, <2>4, <3>2, <3>3, Names DEF Index!Next, Index!Refuse, NewPrev
  <2>5. CASE Throw \/ \E p \in Points \ Done : \E g : Goto(s, p, g) /\ g.blk = frame[s].blk
    <3>1. BusyNow' = BusyNow /\ pc'[s] # "putTip"
      <4>1. CASE Throw
        BY <2>1, <4>1, Busy DEF Throw, Done
      <4>2. CASE \E p \in Points \ Done : \E g : Goto(s, p, g) /\ g.blk = frame[s].blk
        <5>1. pc'[s] \notin Done /\ frame'[s].blk = frame[s].blk
          BY <1>3, <4>2
        <5>. QED BY <2>1, <5>1, Busy DEF Done
      <4>. QED BY <2>5, <4>1, <4>2
    <3>2. BestNow' = BestNow
      BY <2>3, <3>1
    <3>3. CASE (Connect(s) \/ Orphan(s)) /\ ~Throw
      <4>1. /\ Stored' = Stored /\ Main' \subseteq Main \cup (Branch[BusyNow] \cap Stored)
            /\ BranchTo(tip.hash) \cap (Branch[BusyNow] \ {BusyNow}) \subseteq Main'
            /\ ParentOf[BusyNow] \in Stored
        BY <2>1, <3>3, RearrangeImplements DEF NewPrev
      <4>2. Index!Shared \subseteq Main'
        BY <2>2, <4>1 DEF Index!Shared
      <4>. QED BY <2>1, <3>1, <3>2, <4>1, <4>2, Names DEF Index!Next, Index!Rearrange
    <3>4. CASE ~((Connect(s) \/ Orphan(s)) /\ ~Throw)
      <4>1. Stored' = Stored /\ Main' = Main
        <5>1. CASE Connect(s)
          <6>1. Throw
            BY <3>4, <5>1
          <6>2. up /\ up' = FALSE
            BY <5>1, <6>1 DEF Connect, At, Throw
          <6>3. UNCHANGED <<prev, next, height>>
            BY <5>1, <6>2 DEF Connect
          <6>. QED BY <6>3, SameChain
        <5>2. CASE Orphan(s)
          <6>1. up /\ UNCHANGED up
            BY <5>2 DEF Orphan, At, OneObject
          <6>2. ~Throw
            BY <6>1 DEF Throw
          <6>. QED BY <3>4, <5>2, <6>2
        <5>3. CASE ~Connect(s) /\ ~Orphan(s)
          BY <1>6, <5>3, OtherMain
        <5>. QED BY <5>1, <5>2, <5>3
      <4>. QED BY <3>1, <3>2, <4>1 DEF Index!indexVars
    <3>. QED BY <3>3, <3>4
  <2>. QED BY <1>6, <2>4, <2>5, StepGoesOn
<1>. QED BY <1>4, <1>5, <1>6

\* The Sync object implements ChainIndex: between two of its steps no reader sees a
\* main chain without a block that both branches share, or with one of neither.
THEOREM IndexImplemented ==
    ASSUME OneObject
    PROVE  Spec /\ []ForksStay => ImplementsIndex
<1>1. Init => Index!Init
  <2>. SUFFICES ASSUME Init PROVE Index!Init
    OBVIOUS
  <2>1. TheSync \in Syncs
    BY DEF TheSync, OneObject
  <2>2. pc[TheSync] = "idle"
    BY <2>1 DEF Init, VolatileInit
  <2>. QED BY <2>2 DEF Init, BlockDbInit, VolatileInit, Index!Init, BestNow, BusyNow, NoTip,
                       Stored, Main, Has, Hash
<1>2. RestInv /\ RestInv' /\ [Next]_vars => [Index!Next]_(Index!indexVars)
  <2>. SUFFICES ASSUME RestInv, RestInv', [Next]_vars PROVE [Index!Next]_(Index!indexVars)
    OBVIOUS
  <2>1. CASE UNCHANGED vars
    <3>1. UNCHANGED <<prev, next, height, tip, cachedTip, pc, frame>>
      BY <2>1 DEF vars
    <3>2. Stored' = Stored /\ Main' = Main
      BY <3>1, SameChain
    <3>. QED BY <3>1, <3>2 DEF Index!indexVars, BestNow, BusyNow
  <2>2. ASSUME NEW s \in Syncs, NEW c \in Calls, Submit(s, c) \/ Retry(s, c)
        PROVE  Index!Next
    BY <2>2, CallImplements DEF Index!Next
  <2>3. ASSUME NEW s \in Syncs, Step(s) PROVE [Index!Next]_(Index!indexVars)
    BY <2>3, StepImplements
  <2>4. ~Restart
    BY DEF Restart, OneObject
  <2>. QED BY <2>1, <2>2, <2>3, <2>4 DEF Next
<1>. QED BY <1>1, <1>2, RestInvariance, PTL DEF Spec, ImplementsIndex, Index!Spec

-----------------------------------------------------------------------------
(* One fork *)

\* At most one block of the tree has several children.
OneFork == \A b, c \in Forked(Block) : b = c

\* Then the forks of the stored blocks are below newPrev while a branch is orphaned,
\* and on the main chain all the time.
ForkBelow ==
    \A s \in Syncs : pc[s] \in {"orphan", "orphanNext"} => Forked(Stored) \subseteq Branch[NewPrev(frame[s])]

ForkInv == RestInv /\ ForksStay /\ ForkBelow

LEMMA ForkOfTree ==
    ASSUME OneFork, NEW st \in SUBSET Block, NEW b, NEW c, b \in Forked(st), c \in Forked(Block)
    PROVE  b = c
<1>1. b \in Forked(Block)
  BY DEF Forked
<1>. QED BY <1>1 DEF OneFork

\* Where the branch of newPrev leaves the tip's is the fork.
LEMMA ForkAtBranching ==
    ASSUME ForkInv, OneObject, OneFork, NEW s \in Syncs,
           \/ ReorgHeight(s) /\ pc'[s] = "orphan"
           \/ SetYNext(s)
    PROVE  Forked(Stored) \subseteq Branch[NewPrev(frame[s])]
<1>. DEFINE f == frame[s]
            np == NewPrev(f)
            t == tip.hash
<1>1. /\ f \in Frames /\ ShapeOf(pc[s], f) /\ HInv /\ IndexOK /\ BlockDbTypeOK /\ SyncTypeOK
      /\ PlacedOf(pc[s], f, Stored, savedTx, tip, cachedTip)
      /\ PhaseOf(pc[s], f, Stored, Main, next, tip, cachedTip)
      /\ pc[s] \in {"reorgHeight", "setYNext"}
  BY OwnPhase DEF ForkInv, ReorgHeight, SetYNext, At
<1>2. /\ tip # NoTip /\ np # t /\ Leaf(t, Stored) /\ Linked(Stored, next)
      /\ f.blk = t \/ f.blk \notin Stored
  BY <1>1 DEF PhaseOf, OpenOf, After, Reorganising
<1>3. /\ t \in Block /\ t \in Stored /\ BranchTo(t) = Branch[t] /\ f.blk \in Block
      /\ Stored \subseteq Block /\ Branch[t] \subseteq Stored /\ WebOK(Stored, next, tip)
  <2>1. t \in Block /\ t \in Stored /\ WebOK(Stored, next, tip)
    BY <1>1, <1>2, WebHolds
  <2>. QED BY <1>1, <2>1, BranchToBlock DEF ShapeOf, Stored, WebOK
<1>4. t \notin Forked(Stored)
  BY <1>2 DEF Leaf, Forked
<1>. HIDE DEF f, t, np
<1>5. CASE ReorgHeight(s) /\ pc'[s] = "orphan"
  <2>1. height[np] > 0 /\ np = ParentOf[f.blk] /\ pc[s] = "reorgHeight"
    <3>1. pc[s] = "reorgHeight"
      BY <1>5 DEF ReorgHeight, At
    <3>2. \A p, g : Goto(s, p, g) => pc'[s] = p
      BY <1>1 DEF Goto, SyncTypeOK
    <3>3. ~Throw
      BY <1>5, <3>1 DEF Throw
    <3>4. ~StartBack(s, f, np)
      BY <1>5, <3>2 DEF StartBack
    <3>. QED BY <1>5, <3>1, <3>3, <3>4 DEF ReorgHeight, f, np, NewPrev
  <2>2. Main = Branch[t] /\ Leads(Branch[t], t, next)
    BY <1>1, <1>3, <2>1 DEF PhaseOf, ChainOf, Before, t
  <2>3. np \in Branch[t] /\ np \in Block
    <3>1. np \in Hash /\ height[np] # 0
      BY <1>3, <2>1, BlockTree DEF Hash
    <3>2. np \in Stored
      BY <1>1, <3>1, HeightOfStored
    <3>3. np \in Main
      <4>1. height[np] >= 0
        BY <1>1, <2>1, <3>1 DEF BlockDbTypeOK, Heights
      <4>. QED BY <3>2, <4>1 DEF Main
    <3>. QED BY <1>3, <2>2, <3>2, <3>3
  <2>4. next[np] \in Branch[t] /\ next[np] \in Block /\ ParentOf[next[np]] = np
    <3>1. next[np] \in Branch[t]
      BY <1>2, <2>2, <2>3 DEF Leads, t, np
    <3>2. next[np] \in Block
      BY <1>3, <3>1
    <3>. QED BY <1>3, <2>3, <3>1, <3>2, NextInWeb, Names
  <2>5. CASE next[np] = f.blk
    <3>1. f.blk = t
      BY <1>2, <1>3, <2>4, <2>5 DEF t
    <3>2. Branch[t] = Branch[np] \cup {t}
      <4>1. t # Genesis
        BY <2>1, <2>3, <3>1, BlockTree, Names
      <4>. QED BY <1>3, <2>1, <3>1, <4>1, Branches
    <3>. QED BY <1>4, <2>2, <3>2 DEF ForkInv, ForksStay, np, f
  <2>6. CASE next[np] # f.blk
    <3>1. np \in Forked(Block)
      BY <1>3, <2>1, <2>3, <2>4, <2>6 DEF Forked
    <3>2. \A b \in Forked(Stored) : b = np
      BY <1>3, <3>1, ForkOfTree
    <3>. QED BY <2>3, <3>2, ParentFacts DEF np, f
  <2>. QED BY <2>5, <2>6
<1>6. CASE SetYNext(s)
  <2>1. pc[s] = "setYNext" /\ np \in Stored /\ np \in Block
    <3>1. pc[s] = "setYNext"
      BY <1>6 DEF SetYNext, At
    <3>. QED BY <1>1, <1>3, <3>1 DEF PlacedOf, Reorganising, np
  <2>2. /\ f.last \in Branch[np] \ Branch[t] /\ f.iter = ParentOf[f.last] /\ f.iter \in Branch[t]
        /\ Leads(Branch[t], t, next)
    BY <1>1, <1>3, <2>1 DEF PhaseOf, ChainOf, MetOf, np, t
  <2>3. f.last \in Block /\ f.iter \in Block /\ f.last \in Stored /\ f.last # Genesis
    <3>1. f.last \in Block /\ f.iter \in Block
      BY <1>3, <2>1, <2>2, BranchWithin
    <3>2. Branch[np] \subseteq Stored
      BY <1>1, <2>1 DEF IndexOK, Complete
    <3>. QED BY <2>2, <3>1, <3>2, BlockTree, Names
  <2>4. f.iter # t
    BY <1>2, <2>2, <2>3 DEF Leaf, t
  <2>5. PICK c \in Branch[t] : c \in Block /\ ParentOf[c] = f.iter
    BY <1>3, <2>2, <2>4, ChildWithin
  <2>6. f.iter \in Forked(Block)
    BY <2>2, <2>3, <2>5 DEF Forked
  <2>7. \A b \in Forked(Stored) : b = f.iter
    BY <1>3, <2>6, ForkOfTree
  <2>8. f.iter \in Branch[np]
    BY <2>1, <2>2, <2>3, ParentWithin
  <2>. QED BY <2>7, <2>8 DEF np, f
<1>. QED BY <1>5, <1>6

\* The steps that reach or leave the orphaning of a branch.
LEMMA OrphansFrom ==
    ASSUME RestInv, OneObject, NEW s \in Syncs, Step(s), pc'[s] \in {"orphan", "orphanNext"}
    PROVE  /\ NewPrev(frame'[s]) = NewPrev(frame[s])
           /\ \/ pc[s] \in {"orphan", "orphanNext"}
              \/ ReorgHeight(s) /\ pc'[s] = "orphan"
              \/ SetYNext(s)
<1>1. SyncTypeOK
  BY OwnPhase
<1>2. \A p, g : Goto(s, p, g) => pc'[s] = p /\ frame'[s] = g
  BY <1>1 DEF Goto, SyncTypeOK
<1>3. ~AddBlock(s) /\ ~StoreTip(s) /\ ~LinkPrev(s) /\ ~Return(s)
  <2>1. ~Return(s)
    BY <1>2 DEF Return
  <2>2. AddBlock(s) => Goto(s, "putTip", frame[s])
    BY AddBlockMain
  <2>3. ~AddBlock(s) /\ ~StoreTip(s)
    BY <1>2, <2>2 DEF StoreTip
  <2>4. ~LinkPrev(s)
    BY <2>1 DEF LinkPrev
  <2>. QED BY <2>1, <2>3, <2>4
<1>4. frame'[s].blk = frame[s].blk
  <2>1. CASE Throw
    BY <2>1 DEF Throw
  <2>2. CASE ~Throw
    <3>1. PICK p \in Points \ Done : \E g : Goto(s, p, g) /\ g.blk = frame[s].blk
      BY <1>3, <2>2, StepGoesOn
    <3>. QED BY <1>2, <3>1
  <2>. QED BY <2>1, <2>2
<1>5. ASSUME NEW g, StartAdd(s, g) PROVE FALSE
  BY <1>2, <1>5 DEF StartAdd
<1>6. ASSUME NEW g, NEW t, TipRead(s, g, t) PROVE FALSE
  BY <1>2, <1>5, <1>6 DEF TipRead
<1>7. ~HasPrev(s)
  <2>1. ASSUME NEW g, CallGetTip(s, g) PROVE FALSE
    BY <1>2, <1>6, <2>1 DEF CallGetTip
  <2>. QED BY <1>3, <2>1 DEF HasPrev
<1>8. ~GetTip(s)
  BY <1>6 DEF GetTip
<1>9. ~GetNext(s) /\ ~BackPrev(s) /\ ~YNext(s)
  BY <1>2 DEF GetNext, BackPrev, YNext
<1>10. ~BackHeight(s)
  BY <1>2 DEF BackHeight
<1>11. ~AddTxs(s)
  BY <1>2, <1>3 DEF AddTxs
<1>12. ~Connect(s)
  <2>1. ASSUME Connect(s) PROVE FALSE
    <3>1. pc[s] = "connect"
      BY <2>1 DEF Connect, At
    <3>2. CASE Throw
      BY <3>1, <3>2 DEF Throw
    <3>3. CASE ~Throw
      <4>1. PICK p \in {"connect", "yNext"}, q \in Seq(Hash), h \in Heights :
               Goto(s, p, [frame[s] EXCEPT !.height = h, !.branch = q])
        BY <2>1, <3>3, ConnectMain
      <4>. QED BY <1>2, <4>1
    <3>. QED BY <3>2, <3>3
  <2>. QED BY <2>1
<1>13. CASE ReorgHeight(s)
  <2>1. pc'[s] # "orphanNext"
    <3>1. pc[s] = "reorgHeight"
      BY <1>13 DEF ReorgHeight, At
    <3>2. ~Throw
      BY <3>1 DEF Throw
    <3>. QED BY <1>2, <1>13, <3>2 DEF ReorgHeight, StartBack
  <2>. QED BY <1>4, <1>13, <2>1 DEF NewPrev
<1>14. CASE Orphan(s) \/ OrphanNext(s)
  BY <1>4, <1>14 DEF Orphan, OrphanNext, At, NewPrev
<1>15. CASE SetYNext(s)
  BY <1>4, <1>15 DEF NewPrev
<1>. QED BY <1>3, <1>7, <1>8, <1>9, <1>10, <1>11, <1>12, <1>13, <1>14, <1>15 DEF Step

LEMMA StepFork ==
    ASSUME ForkInv, OneObject, OneFork, NEW s \in Syncs, Step(s)
    PROVE  ForksStay' /\ ForkBelow'
<1>. DEFINE f == frame[s]
            np == NewPrev(f)
<1>1. RestInv /\ Forked(Stored) \subseteq Main
  BY DEF ForkInv, ForksStay
<1>2. PhaseOf(pc[s], f, Stored, Main, next, tip, cachedTip) /\ ShapeOf(pc[s], f)
  BY <1>1, OwnPhase
<1>. HIDE DEF f, np
<1>3. CASE AddBlock(s)
  <2>. DEFINE b == f.blk
  <2>1. b \in Block /\ Stored' = Stored \cup {b} /\ Main' = Main \cup {b} /\ pc[s] = "addBlock"
    <3>1. pc[s] = "addBlock"
      BY <1>3 DEF AddBlock, At
    <3>. QED BY <1>1, <1>3, <3>1, AddBlockMain DEF f
  <2>2. Main = BranchTo(ParentOf[b])
    BY <1>2, <2>1 DEF PhaseOf, ChainOf, NewPrev
  <2>. HIDE DEF b
  <2>3. ASSUME NEW d \in Forked(Stored \cup {b}) PROVE d \in Main
    <3>1. CASE d \in Forked(Stored)
      BY <1>1, <3>1
    <3>2. CASE d \notin Forked(Stored)
      <4>1. d \in Block /\ d = ParentOf[b]
        BY <2>3, <3>2 DEF Forked
      <4>. QED BY <2>2, <4>1, BranchToBlock
    <3>. QED BY <3>1, <3>2
  <2>4. ForksStay'
    BY <2>1, <2>3 DEF ForksStay
  <2>5. ForkBelow'
    <3>1. \A r \in Syncs : r = s
      BY DEF OneObject
    <3>2. pc'[s] = "putTip"
      BY <1>1, <1>3, AddBlockMain, OwnPhase DEF Goto, SyncTypeOK
    <3>. QED BY <3>1, <3>2 DEF ForkBelow
  <2>. QED BY <2>4, <2>5
<1>4. CASE ~AddBlock(s)
  <2>1. Stored' = Stored /\ Forked(Stored) \subseteq Main'
    <3>1. CASE Connect(s)
      <4>1. CASE Throw /\ UNCHANGED <<height, txBlock>>
        <5>1. UNCHANGED <<prev, next, height>>
          BY <3>1, <4>1 DEF Connect
        <5>. QED BY <1>1, <5>1, SameChain
      <4>2. CASE ~(Throw /\ UNCHANGED <<height, txBlock>>)
        BY <1>1, <3>1, <4>2, ConnectMain
      <4>. QED BY <4>1, <4>2
    <3>2. CASE Orphan(s)
      <4>1. pc[s] = "orphan"
        BY <3>2 DEF Orphan, At
      <4>2. Forked(Stored) \subseteq Branch[np]
        BY <4>1 DEF ForkInv, ForkBelow, np, f
      <4>3. f.from \notin Branch[np]
        BY <1>2, <4>1 DEF PhaseOf, ChainOf, np
      <4>4. Stored' = Stored /\ Main' = Main \ {f.from}
        BY <1>1, <3>2, OrphanMain DEF f
      <4>. QED BY <1>1, <4>2, <4>3, <4>4
    <3>3. CASE ~Connect(s) /\ ~Orphan(s)
      BY <1>1, <1>4, <3>3, OtherMain
    <3>. QED BY <3>1, <3>2, <3>3
  <2>2. ForksStay'
    BY <2>1 DEF ForksStay
  <2>3. ASSUME pc'[s] \in {"orphan", "orphanNext"}
        PROVE  Forked(Stored) \subseteq Branch[NewPrev(frame'[s])]
    <3>1. /\ NewPrev(frame'[s]) = np
          /\ \/ pc[s] \in {"orphan", "orphanNext"}
             \/ ReorgHeight(s) /\ pc'[s] = "orphan"
             \/ SetYNext(s)
      BY <1>1, <2>3, OrphansFrom DEF np, f
    <3>2. CASE pc[s] \in {"orphan", "orphanNext"}
      BY <3>1, <3>2 DEF ForkInv, ForkBelow, np, f
    <3>3. CASE (ReorgHeight(s) /\ pc'[s] = "orphan") \/ SetYNext(s)
      BY <3>1, <3>3, ForkAtBranching DEF np, f
    <3>. QED BY <3>1, <3>2, <3>3
  <2>4. ForkBelow'
    <3>1. \A r \in Syncs : r = s
      BY DEF OneObject
    <3>. QED BY <2>1, <2>3, <3>1 DEF ForkBelow
  <2>. QED BY <2>2, <2>4
<1>. QED BY <1>3, <1>4

\* A call that takes the lock writes nothing, and orphans nothing yet.
LEMMA CallsNoOrphan ==
    ASSUME RestInv, OneObject, NEW s \in Syncs, NEW c \in Calls, Submit(s, c) \/ Retry(s, c)
    PROVE  \A r \in Syncs : pc'[r] \notin {"orphan", "orphanNext"}
<1>1. \A r \in Syncs : r = s
  BY DEF OneObject
<1>2. SyncTypeOK
  BY DEF RestInv, HInv, Inv
<1>3. Enter(s, c)
  BY TakesLock
<1>4. ASSUME NEW p, NEW g, Goto(s, p, g) PROVE pc'[s] = p
  BY <1>2, <1>4 DEF Goto, SyncTypeOK
<1>5. ASSUME NEW g, StartAdd(s, g) PROVE pc'[s] = "addTxs"
  BY <1>4, <1>5 DEF StartAdd
<1>6. ASSUME NEW g, NEW t, TipRead(s, g, t) PROVE pc'[s] \in {"getNext", "addTxs"}
  BY <1>4, <1>5, <1>6 DEF TipRead
<1>7. ASSUME NEW g, CallGetTip(s, g) PROVE pc'[s] \in {"getNext", "addTxs", "getTip"}
  BY <1>4, <1>6, <1>7 DEF CallGetTip
<1>8. pc'[s] \in {"getNext", "addTxs", "getTip", "has"}
  BY <1>3, <1>4, <1>5, <1>7 DEF Enter
<1>. QED BY <1>1, <1>8

\* In a tree with one fork the condition of the theorems above holds by itself: the
\* two forks of the run `fork` are the least that break it.
THEOREM OneForkStays ==
    ASSUME OneObject, OneFork
    PROVE  Spec => []ForksStay
<1>1. Init => ForkInv
  <2>. SUFFICES ASSUME Init PROVE ForkInv
    OBVIOUS
  <2>1. RestInv
    BY InitRest
  <2>2. Stored = {}
    BY DEF Init, BlockDbInit, Stored, Has, Hash
  <2>3. \A s \in Syncs : pc[s] = "idle"
    BY DEF Init, VolatileInit
  <2>. QED BY <2>1, <2>2, <2>3 DEF ForkInv, ForksStay, ForkBelow, Forked
<1>2. ForkInv /\ [Next]_vars => ForkInv'
  <2>. SUFFICES ASSUME ForkInv, [Next]_vars PROVE ForkInv'
    OBVIOUS
  <2>1. RestInv'
    BY NextRest DEF ForkInv
  <2>2. CASE UNCHANGED vars
    <3>1. UNCHANGED <<prev, next, height, pc, frame>>
      BY <2>2 DEF vars
    <3>2. Stored' = Stored /\ Main' = Main
      BY <3>1, SameChain
    <3>. QED BY <2>1, <3>1, <3>2 DEF ForkInv, ForksStay, ForkBelow
  <2>3. ASSUME NEW s \in Syncs, NEW c \in Calls, Submit(s, c) \/ Retry(s, c)
        PROVE  ForkInv'
    <3>1. UNCHANGED <<prev, next, height>>
      BY <2>3 DEF Submit, Call, Retry, dbVars
    <3>2. Stored' = Stored /\ Main' = Main
      BY <3>1, SameChain
    <3>3. ForksStay'
      BY <3>2 DEF ForkInv, ForksStay
    <3>4. ForkBelow'
      BY <2>1, <2>3, <3>2, CallsNoOrphan DEF ForkInv, ForkBelow
    <3>. QED BY <2>1, <3>3, <3>4 DEF ForkInv
  <2>4. ASSUME NEW s \in Syncs, Step(s) PROVE ForkInv'
    BY <2>1, <2>4, StepFork DEF ForkInv
  <2>5. ~Restart
    BY DEF Restart, OneObject
  <2>. QED BY <2>2, <2>3, <2>4, <2>5 DEF Next
<1>3. ForkInv => ForksStay
  BY DEF ForkInv
<1>. QED BY <1>1, <1>2, <1>3, PTL DEF Spec

\* So without a condition on the behaviour: of a tree with one fork the index at rest
\* is the tip's branch, and the object implements ChainIndex.
THEOREM OneForkIndex ==
    ASSUME OneObject, OneFork
    PROVE  Spec => /\ [](MainChainAtRest /\ TxIndexOnlyBest /\ UnsharedTxIndexed)
                   /\ ImplementsIndex
  BY OneForkStays, RestingChain, RestingEntries, RestingTransactions, IndexImplemented, PTL
=============================================================================
