------------------------ MODULE TypeResolver_proofs --------------------------
(***************************************************************************)
(* Proofs about type resolution, for every set of statements of the shapes *)
(* the parser builds, every depth, any number of them and every outcome of *)
(* malloc.                                                                 *)
(***************************************************************************)
EXTENDS TypeResolverProperties, WellFoundedInduction, SequenceTheorems, TLAPS

\* A set of natural numbers that is not empty has a least element.
LEMMA LeastExists ==
    ASSUME NEW S, S \subseteq Nat, S # {}
    PROVE  \E x \in S : \A y \in S : x <= y
  <1>1. PICK x \in S : \A y \in S : ~ (<<y, x>> \in OpToRel(<, Nat))
    BY NatLessThanWellFounded, WFMin
  <1>2. \A y \in S : ~ (y < x)
    BY <1>1 DEF OpToRel
  <1>. QED
    BY <1>2

-----------------------------------------------------------------------------
\* Paths.

Numbers == Seq(Nat)

\* The nodes on the way of a path.
Walk(f, node, path) ==
    f = [n \in 0 .. Len(path) |-> IF n = 0 THEN node ELSE f[n - 1].children[path[n]]]

\* A way goes on from the n-th node of another one to that one's i-th child.
GoesOn(g, f, n, i) == g[n + 1] = f[n].children[i]

\* The way to a child goes on where the way to its parent ends.
LEMMA WalkOn ==
    ASSUME NEW node, NEW path \in Numbers, NEW i \in Nat, NEW f, Walk(f, node, path)
    PROVE  \E g : Walk(g, node, Child(path, i)) /\ GoesOn(g, f, Len(path), i)
  <1>. DEFINE m == Len(path)
              way == Child(path, i)
              g == [n \in 0 .. m + 1 |-> IF n = m + 1 THEN f[m].children[i] ELSE f[n]]
  <1>1. m \in Nat /\ Len(way) = m + 1 /\ way[m + 1] = i /\ \A n \in 1 .. m : way[n] = path[n]
    BY DEF Child, Numbers
  <1>2. \A n \in 0 .. m : f[n] = IF n = 0 THEN node ELSE f[n - 1].children[path[n]]
    BY DEF Walk
  <1>. HIDE DEF m, way
  <1>3. /\ \A n \in 0 .. m : n \in 0 .. m + 1 /\ n # m + 1 /\ (n # 0 => n - 1 \in 0 .. m /\ n \in 1 .. m)
        /\ \A n \in 0 .. m + 1 : n = m + 1 \/ n \in 0 .. m
        /\ m + 1 \in 0 .. m + 1 /\ m \in 0 .. m /\ (m + 1) - 1 = m /\ m + 1 # 0
    BY <1>1
  <1>4. g[m + 1] = f[m].children[i] /\ \A n \in 0 .. m : g[n] = f[n]
    BY <1>3
  <1>5. g = [n \in 0 .. m + 1 |-> g[n]]
    OBVIOUS
  <1>. HIDE DEF g
  <1>6. g[m + 1] = g[m].children[way[m + 1]]
    BY <1>1, <1>3, <1>4
  <1>7. \A n \in 0 .. m : g[n] = IF n = 0 THEN node ELSE g[n - 1].children[way[n]]
    BY <1>1, <1>2, <1>3, <1>4
  <1>8. \A n \in 0 .. m + 1 : g[n] = IF n = 0 THEN node ELSE g[n - 1].children[way[n]]
    BY <1>3, <1>6, <1>7
  <1>9. Walk(g, node, way)
    BY <1>1, <1>5, <1>8 DEF Walk
  <1>. QED
    BY <1>4, <1>9 DEF m, way, GoesOn

\* Every path has one way, which ends at the descendant.
LEMMA WalkExists ==
    ASSUME NEW node, NEW path \in Numbers
    PROVE  \E f : Walk(f, node, path)
  <1>. DEFINE T == {k \in Nat : \E p \in Numbers : Len(p) = k /\ ~ \E f : Walk(f, node, p)}
  <1>1. T = {}
    <2>. SUFFICES ASSUME T # {} PROVE FALSE
      OBVIOUS
    <2>1. PICK k \in T : \A j \in T : k <= j
      BY LeastExists
    <2>2. PICK p \in Numbers : Len(p) = k /\ ~ \E f : Walk(f, node, p)
      BY <2>1
    <2>3. CASE p = <<>>
      <3>1. Walk([n \in 0 .. 0 |-> node], node, p)
        BY <2>3 DEF Walk
      <3>. QED
        BY <2>2, <3>1
    <2>4. CASE p # <<>>
      <3>. DEFINE q == SubSeq(p, 1, k - 1)
                  i == p[k]
      <3>1. k \in Nat /\ k > 0
        BY <2>2, <2>4 DEF Numbers
      <3>2. q \in Numbers /\ Len(q) = k - 1 /\ i \in Nat /\ p = Child(q, i)
        BY <2>2, <3>1 DEF Numbers, Child
      <3>. HIDE DEF q, i, T
      <3>3. k - 1 \notin T /\ k - 1 \in Nat
        BY <2>1, <3>1
      <3>4. PICK f : Walk(f, node, q)
        BY <3>2, <3>3 DEF T
      <3>. QED
        BY <2>2, <3>2, <3>4, WalkOn
    <2>. QED
      BY <2>3, <2>4
  <1>2. Len(path) \in Nat
    BY DEF Numbers
  <1>. QED
    BY <1>1, <1>2

\* A path is walked in one way.
LEMMA WalksAgree ==
    ASSUME NEW node, NEW path \in Numbers, NEW f, NEW g,
           Walk(f, node, path), Walk(g, node, path)
    PROVE  f = g
  <1>. DEFINE m == Len(path)
              T == {n \in 0 .. m : f[n] # g[n]}
  <1>1. m \in Nat
    BY DEF Numbers
  <1>2. /\ \A n \in 0 .. m : f[n] = IF n = 0 THEN node ELSE f[n - 1].children[path[n]]
        /\ \A n \in 0 .. m : g[n] = IF n = 0 THEN node ELSE g[n - 1].children[path[n]]
        /\ f = [n \in 0 .. m |-> f[n]] /\ g = [n \in 0 .. m |-> g[n]]
    BY DEF Walk
  <1>. HIDE DEF m
  <1>3. T = {}
    <2>. SUFFICES ASSUME T # {} PROVE FALSE
      OBVIOUS
    <2>1. T \subseteq Nat
      BY <1>1
    <2>2. PICK k \in T : \A j \in T : k <= j
      BY <2>1, LeastExists
    <2>3. k # 0
      BY <1>2, <2>2
    <2>4. k \in Nat /\ k - 1 \in 0 .. m /\ ~(k <= k - 1)
      BY <1>1, <2>2, <2>3
    <2>5. f[k - 1] = g[k - 1]
      BY <2>2, <2>4
    <2>. QED
      BY <1>2, <2>2, <2>3, <2>5
  <1>. QED
    BY <1>2, <1>3

\* A walk ends at the descendant its path leads to.
LEMMA DescendantWalks ==
    ASSUME NEW node, NEW path \in Numbers, NEW f, Walk(f, node, path)
    PROVE  Descendant(node, path) = f[Len(path)]
  <1>. DEFINE walk == CHOOSE g : g = [n \in 0 .. Len(path) |->
                                        IF n = 0 THEN node ELSE g[n - 1].children[path[n]]]
  <1>1. Descendant(node, path) = walk[Len(path)]
    BY DEF Descendant
  <1>2. Walk(walk, node, path)
    BY DEF Walk
  <1>. HIDE DEF walk
  <1>. QED
    BY <1>1, <1>2, WalksAgree

\* Where paths lead.
LEMMA DescendantSteps ==
    ASSUME NEW node
    PROVE  /\ Descendant(node, <<>>) = node
           /\ \A path \in Numbers : \A i \in Nat :
                 Descendant(node, Child(path, i)) = Descendant(node, path).children[i]
  <1>1. Descendant(node, <<>>) = node
    <2>1. Walk([n \in 0 .. 0 |-> node], node, <<>>) /\ <<>> \in Numbers
      BY DEF Walk, Numbers
    <2>2. Descendant(node, <<>>) = [n \in 0 .. 0 |-> node][Len(<<>>)]
      BY <2>1, DescendantWalks
    <2>. QED
      BY <2>2
  <1>2. ASSUME NEW path \in Numbers, NEW i \in Nat
        PROVE  Descendant(node, Child(path, i)) = Descendant(node, path).children[i]
    <2>1. PICK f : Walk(f, node, path)
      BY WalkExists
    <2>2. PICK g : Walk(g, node, Child(path, i)) /\ GoesOn(g, f, Len(path), i)
      BY <2>1, WalkOn
    <2>3. Child(path, i) \in Numbers /\ Len(Child(path, i)) = Len(path) + 1
      BY DEF Child, Numbers
    <2>4. Descendant(node, path) = f[Len(path)]
      BY <2>1, DescendantWalks
    <2>5. Descendant(node, Child(path, i)) = g[Len(path) + 1]
      BY <2>2, <2>3, DescendantWalks
    <2>. QED
      BY <2>2, <2>4, <2>5 DEF GoesOn
  <1>. QED
    BY <1>1, <1>2

-----------------------------------------------------------------------------
\* The paths of a statement.

\* The paths to the children of what some paths lead to.
ChildrenOf(node, paths) ==
    UNION {{Child(p, i) : i \in DOMAIN Descendant(node, p).children} : p \in paths}

Levels(f, node, m) ==
    f = [n \in 0 .. m |-> IF n = 0 THEN {<<>>} ELSE ChildrenOf(node, f[n - 1])]

\* The paths of a node exist level by level.
LEMMA LevelsExist ==
    ASSUME NEW node, NEW m \in Nat
    PROVE  \E f : Levels(f, node, m)
  <1>. DEFINE T == {k \in Nat : ~ \E f : Levels(f, node, k)}
  <1>1. T = {}
    <2>. SUFFICES ASSUME T # {} PROVE FALSE
      OBVIOUS
    <2>1. PICK k \in T : \A j \in T : k <= j
      BY LeastExists
    <2>2. CASE k = 0
      <3>1. Levels([n \in 0 .. 0 |-> {<<>>}], node, 0)
        BY DEF Levels
      <3>. QED
        BY <2>1, <2>2, <3>1
    <2>3. CASE k # 0
      <3>1. k \in Nat /\ k - 1 \in Nat /\ ~(k <= k - 1)
        BY <2>1, <2>3
      <3>2. PICK f : Levels(f, node, k - 1)
        BY <2>1, <3>1
      <3>. DEFINE g == [n \in 0 .. k |-> IF n = k THEN ChildrenOf(node, f[k - 1]) ELSE f[n]]
      <3>3. \A n \in 0 .. k - 1 : f[n] = IF n = 0 THEN {<<>>} ELSE ChildrenOf(node, f[n - 1])
        BY <3>1, <3>2 DEF Levels
      <3>4. /\ \A n \in 0 .. k - 1 : n \in 0 .. k /\ n # k /\ (n # 0 => n - 1 \in 0 .. k - 1)
            /\ \A n \in 0 .. k : n = k \/ n \in 0 .. k - 1
            /\ k - 1 \in 0 .. k - 1 /\ k \in 0 .. k
        BY <3>1
      <3>5. \A n \in 0 .. k - 1 : g[n] = f[n]
        BY <3>4
      <3>6. g[k] = ChildrenOf(node, g[k - 1])
        BY <3>4, <3>5
      <3>7. \A n \in 0 .. k - 1 : g[n] = IF n = 0 THEN {<<>>} ELSE ChildrenOf(node, g[n - 1])
        BY <3>3, <3>4, <3>5
      <3>8. g = [n \in 0 .. k |-> g[n]]
        OBVIOUS
      <3>. HIDE DEF g
      <3>9. \A n \in 0 .. k : g[n] = IF n = 0 THEN {<<>>} ELSE ChildrenOf(node, g[n - 1])
        BY <2>3, <3>4, <3>6, <3>7
      <3>10. Levels(g, node, k)
        BY <3>8, <3>9 DEF Levels
      <3>. QED
        BY <2>1, <3>10
    <2>. QED
      BY <2>2, <2>3
  <1>. QED
    BY <1>1

\* What the paths of a statement are, generation by generation.
LEMMA PathsByLevel ==
    ASSUME NEW node
    PROVE  \E f : Levels(f, node, Depth) /\ PathsOf(node) = UNION {f[n] : n \in 0 .. Depth}
  <1>. DEFINE level == CHOOSE g : g = [n \in 0 .. Depth |->
                          IF n = 0 THEN {<<>>}
                          ELSE UNION {{Child(p, i) : i \in DOMAIN Descendant(node, p).children} :
                                      p \in g[n - 1]}]
  <1>1. PathsOf(node) = UNION {level[n] : n \in 0 .. Depth}
    BY DEF PathsOf
  <1>2. \E g : Levels(g, node, Depth)
    BY LevelsExist, DepthAssumption
  <1>3. Levels(level, node, Depth)
    BY <1>2 DEF Levels, ChildrenOf
  <1>. HIDE DEF level
  <1>. QED
    BY <1>1, <1>3

\* Each level has the children of the one before.
LEMMA LevelSteps ==
    ASSUME NEW node, NEW f, Levels(f, node, Depth)
    PROVE  /\ f[0] = {<<>>}
           /\ \A n \in 1 .. Depth : f[n] = ChildrenOf(node, f[n - 1])
  <1>1. \A n \in 0 .. Depth : f[n] = IF n = 0 THEN {<<>>} ELSE ChildrenOf(node, f[n - 1])
    BY DEF Levels
  <1>. QED
    BY <1>1, DepthAssumption

\* The children of a node are a sequence.
LEMMA ChildrenCount ==
    ASSUME NEW node, HasShape(node, Operators)
    PROVE  /\ Len(node.children) \in Nat
           /\ DOMAIN node.children = 1 .. Len(node.children)
           /\ Len(Kinds(node)) = Len(node.children)
           /\ \A i \in DOMAIN node.children : i \in Nat /\ i > 0
           /\ \A i \in DOMAIN node.children : Kinds(node)[i] = node.children[i].type
  <1>1. /\ Kinds(node) \in Seq(NodeTypes(Operators))
        /\ node.children \in Seq({node.children[i] : i \in DOMAIN node.children})
    BY DEF HasShape
  <1>2. DOMAIN Kinds(node) = DOMAIN node.children
    BY DEF Kinds
  <1>3. \A i \in DOMAIN node.children : Kinds(node)[i] = node.children[i].type
    BY DEF Kinds
  <1>. QED
    BY <1>1, <1>2, <1>3

\* The paths of a level are as long as it is deep.
LEMMA LevelLengths ==
    ASSUME NEW node \in Statements, NEW f, Levels(f, node, Depth),
           PathsOf(node) = UNION {f[n] : n \in 0 .. Depth}
    PROVE  \A n \in 0 .. Depth : \A p \in f[n] : p \in Numbers /\ Len(p) = n
  <1>. DEFINE Right(n) == \A p \in f[n] : p \in Numbers /\ Len(p) = n
              T == {n \in 0 .. Depth : ~Right(n)}
  <1>1. T = {}
    <2>. SUFFICES ASSUME T # {} PROVE FALSE
      OBVIOUS
    <2>1. T \subseteq Nat
      BY DepthAssumption
    <2>2. PICK k \in T : \A j \in T : k <= j
      BY <2>1, LeastExists
    <2>3. CASE k = 0
      <3>1. f[0] = {<<>>}
        BY LevelSteps
      <3>2. <<>> \in Numbers /\ Len(<<>>) = 0
        BY DEF Numbers
      <3>. QED
        BY <2>2, <2>3, <3>1, <3>2
    <2>4. CASE k # 0
      <3>1. k \in 1 .. Depth /\ k - 1 \in 0 .. Depth /\ k \in Nat /\ ~(k <= k - 1)
        BY <2>2, <2>4, DepthAssumption
      <3>2. Right(k - 1)
        BY <2>2, <3>1
      <3>3. ASSUME NEW q \in f[k] PROVE q \in Numbers /\ Len(q) = k
        <4>1. q \in ChildrenOf(node, f[k - 1])
          BY <3>1, LevelSteps
        <4>2. PICK p \in f[k - 1] : \E i \in DOMAIN Descendant(node, p).children : q = Child(p, i)
          BY <4>1 DEF ChildrenOf
        <4>3. PICK i \in DOMAIN Descendant(node, p).children : q = Child(p, i)
          BY <4>2
        <4>4. p \in PathsOf(node)
          BY <3>1
        <4>5. HasShape(Descendant(node, p), Operators)
          BY <4>4, ShapesAssumption
        <4>6. i \in Nat
          BY <4>5, ChildrenCount
        <4>7. p \in Numbers /\ Len(p) = k - 1
          BY <3>2
        <4>. QED
          BY <3>1, <4>3, <4>6, <4>7 DEF Child, Numbers
      <3>. QED
        BY <2>2, <3>3
    <2>. QED
      BY <2>3, <2>4
  <1>. QED
    BY <1>1

\* The paths of a statement: the empty one, and with a path those of the
\* children of what it leads to.
LEMMA PathsOfStatement ==
    ASSUME NEW node \in Statements
    PROVE  /\ <<>> \in PathsOf(node)
           /\ \A p \in PathsOf(node) :
                 /\ p \in Numbers
                 /\ HasShape(Descendant(node, p), Operators)
                 /\ \A i \in DOMAIN Descendant(node, p).children : Child(p, i) \in PathsOf(node)
           /\ \A q \in PathsOf(node) : q # <<>> =>
                 \E p \in PathsOf(node) : \E i \in DOMAIN Descendant(node, p).children :
                    q = Child(p, i)
  <1>1. PICK f : Levels(f, node, Depth) /\ PathsOf(node) = UNION {f[n] : n \in 0 .. Depth}
    BY PathsByLevel
  <1>2. f[0] = {<<>>} /\ \A n \in 1 .. Depth : f[n] = ChildrenOf(node, f[n - 1])
    BY <1>1, LevelSteps
  <1>3. \A n \in 0 .. Depth : \A p \in f[n] : p \in Numbers /\ Len(p) = n
    BY <1>1, LevelLengths
  <1>4. <<>> \in PathsOf(node)
    BY <1>1, <1>2, DepthAssumption
  <1>5. ASSUME NEW p \in PathsOf(node)
        PROVE  /\ p \in Numbers
               /\ HasShape(Descendant(node, p), Operators)
               /\ \A i \in DOMAIN Descendant(node, p).children : Child(p, i) \in PathsOf(node)
    <2>1. HasShape(Descendant(node, p), Operators)
      BY ShapesAssumption
    <2>2. PICK n \in 0 .. Depth : p \in f[n]
      BY <1>1
    <2>3. p \in Numbers /\ Len(p) = n
      BY <1>3, <2>2
    <2>4. ASSUME NEW i \in DOMAIN Descendant(node, p).children PROVE Child(p, i) \in PathsOf(node)
      <3>1. n # Depth
        BY <2>3, DepthAssumption
      <3>2. n + 1 \in 1 .. Depth /\ (n + 1) - 1 = n /\ n + 1 \in 0 .. Depth
        BY <3>1, DepthAssumption
      <3>3. Child(p, i) \in ChildrenOf(node, f[n])
        BY <2>2 DEF ChildrenOf
      <3>4. f[n + 1] = ChildrenOf(node, f[n])
        BY <1>2, <3>2
      <3>. QED
        BY <1>1, <3>2, <3>3, <3>4
    <2>. QED
      BY <2>1, <2>3, <2>4
  <1>6. ASSUME NEW q \in PathsOf(node), q # <<>>
        PROVE  \E p \in PathsOf(node) : \E i \in DOMAIN Descendant(node, p).children :
                  q = Child(p, i)
    <2>1. PICK n \in 0 .. Depth : q \in f[n]
      BY <1>1
    <2>2. n # 0
      BY <1>2, <1>6, <2>1
    <2>3. n \in 1 .. Depth /\ n - 1 \in 0 .. Depth
      BY <2>2, DepthAssumption
    <2>4. q \in ChildrenOf(node, f[n - 1])
      BY <1>2, <2>1, <2>3
    <2>. QED
      BY <1>1, <2>3, <2>4 DEF ChildrenOf
  <1>. QED
    BY <1>4, <1>5, <1>6

-----------------------------------------------------------------------------
\* The paths of the program.

ProgramOK == program \in [type : {"scope"}, name : {""}, children : Seq(Statements)]

PathsOK ==
    /\ <<>> \in Paths /\ NodeAt(<<>>) = program
    /\ \A p \in Paths :
          /\ p \in Numbers
          /\ HasShape(NodeAt(p), Operators)
          /\ \A i \in DOMAIN NodeAt(p).children :
                /\ i \in Nat
                /\ Child(p, i) \in Paths
                /\ NodeAt(Child(p, i)) = NodeAt(p).children[i]
    /\ \A q \in Paths : q # <<>> =>
          \E p \in Paths : \E i \in DOMAIN NodeAt(p).children : q = Child(p, i)

\* A path that begins with the number of a statement.
LEMMA Prefixed ==
    ASSUME NEW i \in Nat, NEW p \in Numbers
    PROVE  /\ <<i>> \o p \in Numbers
           /\ <<i>> \o p # <<>>
           /\ Head(<<i>> \o p) = i
           /\ Tail(<<i>> \o p) = p
           /\ \A j \in Nat : Child(<<i>> \o p, j) = <<i>> \o Child(p, j)
  <1>. DEFINE q == <<i>> \o p
  <1>1. q \in Numbers /\ Len(q) = Len(p) + 1 /\ q[1] = i /\ \A n \in 1 .. Len(p) : q[n + 1] = p[n]
    BY DEF Numbers
  <1>2. Len(p) \in Nat
    BY DEF Numbers
  <1>3. q # <<>> /\ Head(q) = i
    BY <1>1, <1>2 DEF Numbers
  <1>4. Tail(q) = p
    <2>1. Tail(q) \in Seq(Nat) /\ Len(Tail(q)) = Len(q) - 1
          /\ \A n \in 1 .. Len(Tail(q)) : Tail(q)[n] = q[n + 1]
      BY <1>1, <1>3, HeadTailProperties DEF Numbers
    <2>2. Len(Tail(q)) = Len(p)
      BY <1>1, <1>2, <2>1
    <2>3. \A n \in 1 .. Len(Tail(q)) : Tail(q)[n] = p[n]
      BY <1>1, <2>1, <2>2
    <2>. HIDE DEF q
    <2>. QED
      BY <2>1, <2>2, <2>3, SeqEqual DEF Numbers
  <1>5. ASSUME NEW j \in Nat PROVE Child(q, j) = <<i>> \o Child(p, j)
    <2>1. <<i>> \in Seq(Nat) /\ <<j>> \in Seq(Nat) /\ p \in Seq(Nat)
      BY DEF Numbers
    <2>. QED
      BY <2>1, ConcatAssociative DEF Child
  <1>. QED
    BY <1>1, <1>3, <1>4, <1>5

\* The program is a scope of statements.
LEMMA ProgramShape ==
    ASSUME ProgramOK
    PROVE  /\ HasShape(program, Operators)
           /\ program.type = "scope"
           /\ \A i \in DOMAIN program.children : i \in Nat /\ program.children[i] \in Statements
  <1>1. program.type = "scope" /\ program.children \in Seq(Statements)
    BY DEF ProgramOK
  <1>2. \A i \in DOMAIN program.children : i \in Nat /\ program.children[i] \in Statements
    BY <1>1
  <1>3. \A i \in DOMAIN program.children : program.children[i].type \in StatementTypes
    BY <1>2, ShapesAssumption
  <1>4. Kinds(program) \in Seq(StatementTypes)
    <2>1. Len(program.children) \in Nat /\ DOMAIN program.children = 1 .. Len(program.children)
      BY <1>1
    <2>2. Kinds(program) = [i \in 1 .. Len(program.children) |-> program.children[i].type]
      BY <2>1 DEF Kinds
    <2>3. \A i \in 1 .. Len(program.children) : Kinds(program)[i] \in StatementTypes
      BY <1>3, <2>1, <2>2
    <2>. HIDE DEF Kinds
    <2>. QED
      BY <2>1, <2>2, <2>3, <1>3
  <1>5. Kinds(program) \in Seq(NodeTypes(Operators))
    BY <1>4, SeqMonotonic DEF NodeTypes
  <1>6. "scope" \notin Operators
    BY OperatorsAssumption DEF NodeTypes, StatementTypes
  <1>7. program.children \in Seq({program.children[i] : i \in DOMAIN program.children})
    <2>1. Len(program.children) \in Nat /\ DOMAIN program.children = 1 .. Len(program.children)
          /\ program.children = [i \in 1 .. Len(program.children) |-> program.children[i]]
      BY <1>1
    <2>. QED
      BY <2>1
  <1>8. HasShape(program, Operators)
    BY <1>1, <1>4, <1>5, <1>6, <1>7 DEF HasShape, NodeTypes, StatementTypes, Childless
  <1>. QED
    BY <1>1, <1>2, <1>8

\* The paths that start at a statement are those of the statement.
LEMMA StatementPaths ==
    ASSUME ProgramOK, NEW i \in DOMAIN program.children, NEW p \in PathsOf(program.children[i])
    PROVE  /\ i \in Nat /\ p \in Numbers
           /\ <<i>> \o p \in Paths /\ <<i>> \o p \in Numbers /\ <<i>> \o p # <<>>
           /\ NodeAt(<<i>> \o p) = Descendant(program.children[i], p)
           /\ \A j \in Nat : Child(<<i>> \o p, j) = <<i>> \o Child(p, j)
  <1>1. i \in Nat /\ program.children[i] \in Statements
    BY ProgramShape
  <1>2. p \in Numbers
    BY <1>1, PathsOfStatement
  <1>3. <<i>> \o p \in Paths
    BY DEF Paths
  <1>4. /\ <<i>> \o p \in Numbers
        /\ <<i>> \o p # <<>>
        /\ Head(<<i>> \o p) = i
        /\ Tail(<<i>> \o p) = p
        /\ \A j \in Nat : Child(<<i>> \o p, j) = <<i>> \o Child(p, j)
    BY <1>1, <1>2, Prefixed
  <1>. QED
    BY <1>1, <1>2, <1>3, <1>4 DEF NodeAt

\* The paths of a program lead to nodes of the grammar.
LEMMA PathsHold == ProgramOK => PathsOK
  <1>. SUFFICES ASSUME ProgramOK PROVE PathsOK
    OBVIOUS
  <1>1. <<>> \in Paths /\ NodeAt(<<>>) = program /\ <<>> \in Numbers
    BY DEF Paths, NodeAt, Numbers
  <1>2. ASSUME NEW i \in DOMAIN program.children
        PROVE  /\ i \in Nat /\ program.children[i] \in Statements
               /\ <<i>> \in Paths /\ Child(<<>>, i) = <<i>>
               /\ NodeAt(<<i>>) = program.children[i]
               /\ <<>> \in PathsOf(program.children[i]) /\ <<i>> \o <<>> = <<i>>
    <2>1. i \in Nat /\ program.children[i] \in Statements
      BY ProgramShape
    <2>2. <<>> \in PathsOf(program.children[i])
      BY <2>1, PathsOfStatement
    <2>3. <<i>> \o <<>> = <<i>> /\ Child(<<>>, i) = <<i>>
      BY <2>1 DEF Child
    <2>4. NodeAt(<<i>>) = Descendant(program.children[i], <<>>) /\ <<i>> \in Paths
      BY <2>2, <2>3, StatementPaths
    <2>5. Descendant(program.children[i], <<>>) = program.children[i]
      BY DescendantSteps
    <2>. QED
      BY <2>1, <2>2, <2>3, <2>4, <2>5
  <1>3. ASSUME NEW p \in Paths
        PROVE  /\ p \in Numbers
               /\ HasShape(NodeAt(p), Operators)
               /\ \A i \in DOMAIN NodeAt(p).children :
                     /\ i \in Nat
                     /\ Child(p, i) \in Paths
                     /\ NodeAt(Child(p, i)) = NodeAt(p).children[i]
    <2>1. CASE p = <<>>
      BY <1>1, <1>2, <2>1, ProgramShape
    <2>2. CASE p # <<>>
      <3>1. PICK s \in DOMAIN program.children :
               \E t \in PathsOf(program.children[s]) : p = <<s>> \o t
        BY <2>2 DEF Paths
      <3>2. PICK t \in PathsOf(program.children[s]) : p = <<s>> \o t
        BY <3>1
      <3>. DEFINE node == Descendant(program.children[s], t)
      <3>3. /\ p \in Numbers /\ t \in Numbers /\ NodeAt(p) = node
            /\ \A j \in Nat : Child(p, j) = <<s>> \o Child(t, j)
        BY <3>2, StatementPaths
      <3>4. HasShape(node, Operators)
        BY <1>2, PathsOfStatement
      <3>5. ASSUME NEW i \in DOMAIN node.children
            PROVE  i \in Nat /\ Child(p, i) \in Paths /\ NodeAt(Child(p, i)) = node.children[i]
        <4>1. i \in Nat
          BY <3>4, ChildrenCount
        <4>2. Child(t, i) \in PathsOf(program.children[s])
          BY <1>2, PathsOfStatement
        <4>3. <<s>> \o Child(t, i) \in Paths
              /\ NodeAt(<<s>> \o Child(t, i)) = Descendant(program.children[s], Child(t, i))
          BY <4>2, StatementPaths
        <4>4. Descendant(program.children[s], Child(t, i)) = node.children[i]
          BY <3>3, <4>1, DescendantSteps
        <4>. QED
          BY <3>3, <4>1, <4>3, <4>4
      <3>. HIDE DEF node
      <3>. QED
        BY <3>3, <3>4, <3>5
    <2>. QED
      BY <2>1, <2>2
  <1>4. ASSUME NEW q \in Paths, q # <<>>
        PROVE  \E p \in Paths : \E i \in DOMAIN NodeAt(p).children : q = Child(p, i)
    <2>1. PICK s \in DOMAIN program.children :
             \E t \in PathsOf(program.children[s]) : q = <<s>> \o t
      BY <1>4 DEF Paths
    <2>2. PICK t \in PathsOf(program.children[s]) : q = <<s>> \o t
      BY <2>1
    <2>3. CASE t = <<>>
      BY <1>1, <1>2, <2>2, <2>3
    <2>4. CASE t # <<>>
      <3>1. PICK u \in PathsOf(program.children[s]) :
               \E i \in DOMAIN Descendant(program.children[s], u).children : t = Child(u, i)
        BY <1>2, <2>4, PathsOfStatement
      <3>2. PICK i \in DOMAIN Descendant(program.children[s], u).children : t = Child(u, i)
        BY <3>1
      <3>3. /\ <<s>> \o u \in Paths
            /\ NodeAt(<<s>> \o u) = Descendant(program.children[s], u)
            /\ \A j \in Nat : Child(<<s>> \o u, j) = <<s>> \o Child(u, j)
        BY StatementPaths
      <3>4. i \in Nat
        <4>1. HasShape(Descendant(program.children[s], u), Operators)
          BY <1>2, PathsOfStatement
        <4>. QED
          BY <4>1, ChildrenCount
      <3>. QED
        BY <2>2, <3>2, <3>3, <3>4
    <2>. QED
      BY <2>3, <2>4
  <1>. QED
    BY <1>1, <1>3, <1>4 DEF PathsOK

\* Paths that lead below others.

\* One path is within another when it begins like it.
LEMMA WithinPointwise ==
    ASSUME NEW p \in Numbers, NEW c \in Numbers
    PROVE  /\ Len(p) \in Nat /\ Len(c) \in Nat
           /\ Within(p, c) <=> Len(p) >= Len(c) /\ \A i \in 1 .. Len(c) : p[i] = c[i]
  <1>1. Len(p) \in Nat /\ Len(c) \in Nat
    BY DEF Numbers
  <1>2. ASSUME Len(p) >= Len(c)
        PROVE  SubSeq(p, 1, Len(c)) = c <=> \A i \in 1 .. Len(c) : p[i] = c[i]
    <2>1. /\ SubSeq(p, 1, Len(c)) \in Seq(Nat)
          /\ Len(SubSeq(p, 1, Len(c))) = Len(c)
          /\ \A i \in 1 .. Len(c) : SubSeq(p, 1, Len(c))[i] = p[i]
      <3>1. \A i \in 1 .. Len(c) : p[i] \in Nat
        BY <1>1, <1>2 DEF Numbers
      <3>2. /\ SubSeq(p, 1, Len(c)) \in Seq(Nat)
            /\ Len(SubSeq(p, 1, Len(c))) = IF 1 <= Len(c) THEN Len(c) - 1 + 1 ELSE 0
            /\ \A i \in 1 .. Len(c) - 1 + 1 : SubSeq(p, 1, Len(c))[i] = p[1 + i - 1]
        BY <1>1, <3>1, SubSeqProperties
      <3>3. \A i \in 1 .. Len(c) : i \in 1 .. Len(c) - 1 + 1 /\ 1 + i - 1 = i
        BY <1>1
      <3>. QED
        BY <1>1, <3>2, <3>3
    <2>2. c \in Seq(Nat)
      BY DEF Numbers
    <2>. HIDE DEF Numbers
    <2>3. (\A i \in 1 .. Len(c) : p[i] = c[i]) => SubSeq(p, 1, Len(c)) = c
      BY <2>1, <2>2, SeqEqual
    <2>4. SubSeq(p, 1, Len(c)) = c => \A i \in 1 .. Len(c) : p[i] = c[i]
      BY <2>1
    <2>. QED
      BY <2>3, <2>4
  <1>. QED
    BY <1>1, <1>2 DEF Within

\* The path of a child is longer by its number.
LEMMA ChildPath ==
    ASSUME NEW p \in Numbers, NEW i \in Nat
    PROVE  /\ Child(p, i) \in Numbers
           /\ Len(Child(p, i)) = Len(p) + 1
           /\ Child(p, i)[Len(p) + 1] = i
           /\ \A n \in 1 .. Len(p) : Child(p, i)[n] = p[n]
           /\ Child(p, i) # <<>> /\ Child(p, i) # p
  BY DEF Child, Numbers

\* A path is the child of one path, by one number.
LEMMA ChildInjective ==
    ASSUME NEW p \in Numbers, NEW i \in Nat, NEW q \in Numbers, NEW j \in Nat,
           Child(p, i) = Child(q, j)
    PROVE  p = q /\ i = j
  <1>1. Len(p) \in Nat /\ Len(q) \in Nat /\ p \in Seq(Nat) /\ q \in Seq(Nat)
    BY DEF Numbers
  <1>2. /\ Len(Child(p, i)) = Len(p) + 1 /\ Child(p, i)[Len(p) + 1] = i
        /\ \A n \in 1 .. Len(p) : Child(p, i)[n] = p[n]
    BY ChildPath
  <1>3. /\ Len(Child(q, j)) = Len(q) + 1 /\ Child(q, j)[Len(q) + 1] = j
        /\ \A n \in 1 .. Len(q) : Child(q, j)[n] = q[n]
    BY ChildPath
  <1>4. Len(p) = Len(q)
    BY <1>1, <1>2, <1>3
  <1>5. i = j
    BY <1>2, <1>3, <1>4
  <1>6. \A n \in 1 .. Len(p) : p[n] = q[n]
    BY <1>2, <1>3, <1>4
  <1>. QED
    BY <1>1, <1>4, <1>5, <1>6, SeqEqual

\* A path is within itself and within the empty one.
LEMMA WithinItself ==
    ASSUME NEW p \in Numbers
    PROVE  Within(p, p) /\ Within(p, <<>>)
  <1>1. <<>> \in Numbers
    BY DEF Numbers
  <1>. QED
    BY <1>1, WithinPointwise

\* What the child of a path is within.
LEMMA WithinChild ==
    ASSUME NEW p \in Numbers, NEW i \in Nat, NEW c \in Numbers
    PROVE  Within(Child(p, i), c) <=> Within(p, c) \/ Child(p, i) = c
  <1>. DEFINE q == Child(p, i)
  <1>1. /\ Len(p) \in Nat /\ Len(c) \in Nat
        /\ q \in Numbers /\ Len(q) = Len(p) + 1
        /\ \A n \in 1 .. Len(p) : q[n] = p[n]
    BY ChildPath, WithinPointwise
  <1>2. /\ Within(q, c) <=> Len(q) >= Len(c) /\ \A n \in 1 .. Len(c) : q[n] = c[n]
        /\ Within(p, c) <=> Len(p) >= Len(c) /\ \A n \in 1 .. Len(c) : p[n] = c[n]
    BY <1>1, WithinPointwise
  <1>3. Within(p, c) => Within(q, c)
    BY <1>1, <1>2
  <1>4. q = c => Within(q, c)
    BY <1>1, WithinItself
  <1>5. ASSUME Within(q, c), ~Within(p, c) PROVE q = c
    <2>1. CASE Len(p) >= Len(c)
      BY <1>1, <1>2, <1>5, <2>1
    <2>2. CASE Len(q) = Len(c)
      <3>1. q \in Seq(Nat) /\ c \in Seq(Nat)
        BY <1>1 DEF Numbers
      <3>. HIDE DEF q
      <3>. QED
        BY <1>2, <1>5, <2>2, <3>1, SeqEqual
    <2>. QED
      BY <1>1, <1>2, <1>5, <2>1, <2>2
  <1>. QED
    BY <1>3, <1>4, <1>5

\* What is within a path is within those it is within.
LEMMA WithinTransitive ==
    ASSUME NEW p \in Numbers, NEW c \in Numbers, NEW e \in Numbers, Within(p, c), Within(c, e)
    PROVE  Within(p, e)
  <1>1. /\ Len(p) \in Nat /\ Len(c) \in Nat /\ Len(e) \in Nat
        /\ Len(p) >= Len(c) /\ \A i \in 1 .. Len(c) : p[i] = c[i]
        /\ Len(c) >= Len(e) /\ \A i \in 1 .. Len(e) : c[i] = e[i]
    BY WithinPointwise
  <1>2. Len(p) >= Len(e) /\ \A i \in 1 .. Len(e) : p[i] = e[i]
    BY <1>1
  <1>. QED
    BY <1>2, WithinPointwise

\* The start of a path to a node leads to a node.
LEMMA PrefixesLead ==
    ASSUME PathsOK, NEW p \in Paths, NEW c \in Numbers, Within(p, c)
    PROVE  c \in Paths
  <1>. DEFINE T == {n \in Nat : \E q \in Paths : Len(q) = n /\ Within(q, c)}
  <1>1. \A q \in Paths : q \in Numbers /\ Len(q) \in Nat
    BY DEF PathsOK, Numbers
  <1>2. T \subseteq Nat /\ T # {}
    BY <1>1
  <1>3. PICK k \in T : \A j \in T : k <= j
    BY <1>2, LeastExists
  <1>4. PICK q \in Paths : Len(q) = k /\ Within(q, c)
    BY <1>3
  <1>. HIDE DEF T
  <1>5. CASE q = c
    BY <1>5
  <1>6. CASE q # c
    <2>1. q # <<>>
      <3>1. Len(c) \in Nat /\ c \in Seq(Nat)
        BY DEF Numbers
      <3>2. Len(q) >= Len(c)
        BY <1>1, <1>4, WithinPointwise
      <3>. QED
        BY <1>6, <3>1, <3>2
    <2>2. PICK r \in Paths : \E i \in DOMAIN NodeAt(r).children : q = Child(r, i)
      BY <2>1 DEF PathsOK
    <2>3. PICK i \in DOMAIN NodeAt(r).children : q = Child(r, i)
      BY <2>2
    <2>4. i \in Nat /\ r \in Numbers
      BY DEF PathsOK
    <2>5. Within(r, c)
      BY <1>4, <1>6, <2>3, <2>4, WithinChild
    <2>6. Len(q) = Len(r) + 1 /\ Len(r) \in Nat
      BY <1>1, <2>3, <2>4, ChildPath
    <2>7. Len(r) \in T
      BY <2>5, <2>6 DEF T
    <2>. QED
      BY <1>3, <1>4, <2>6, <2>7
  <1>. QED
    BY <1>5, <1>6

\* What lies below a node lies below one of its children.
LEMMA BelowAChild ==
    ASSUME PathsOK, NEW p \in Paths, NEW c \in Paths, Within(p, c), p # c
    PROVE  \E i \in DOMAIN NodeAt(c).children : Within(p, Child(c, i))
  <1>1. p \in Numbers /\ c \in Numbers
    BY DEF PathsOK
  <1>2. Len(p) \in Nat /\ Len(c) \in Nat /\ Len(p) >= Len(c) /\ \A i \in 1 .. Len(c) : p[i] = c[i]
    BY <1>1, WithinPointwise
  <1>3. Len(p) # Len(c)
    <2>1. p \in Seq(Nat) /\ c \in Seq(Nat)
      BY <1>1 DEF Numbers
    <2>. QED
      BY <1>2, <2>1, SeqEqual
  <1>. DEFINE i == p[Len(c) + 1]
              q == Child(c, i)
  <1>4. i \in Nat
    BY <1>1, <1>2, <1>3 DEF Numbers
  <1>5. q \in Numbers /\ Len(q) = Len(c) + 1 /\ q[Len(c) + 1] = i
        /\ \A n \in 1 .. Len(c) : q[n] = c[n]
    BY <1>1, <1>4, ChildPath
  <1>6. Len(p) >= Len(q) /\ \A n \in 1 .. Len(q) : p[n] = q[n]
    <2>1. \A n \in 1 .. Len(c) + 1 : n = Len(c) + 1 \/ n \in 1 .. Len(c)
      BY <1>2
    <2>. HIDE DEF q
    <2>. QED
      BY <1>2, <1>3, <1>5, <2>1
  <1>7. Within(p, q)
    BY <1>1, <1>5, <1>6, WithinPointwise
  <1>8. q \in Paths
    BY <1>5, <1>7, PrefixesLead
  <1>9. PICK r \in Paths : \E j \in DOMAIN NodeAt(r).children : q = Child(r, j)
    BY <1>1, <1>4, <1>8, ChildPath DEF PathsOK
  <1>10. PICK j \in DOMAIN NodeAt(r).children : q = Child(r, j)
    BY <1>9
  <1>11. r \in Numbers /\ j \in Nat
    BY DEF PathsOK
  <1>. HIDE DEF i
  <1>12. r = c /\ j = i
    BY <1>1, <1>4, <1>10, <1>11, ChildInjective
  <1>. QED
    BY <1>7, <1>10, <1>12

-----------------------------------------------------------------------------
\* The program grows at its end, and what is there stays.

Grows ==
    \/ program' = program
    \/ \E statement \in Statements :
          program' = [program EXCEPT !.children = Append(@, statement)]

PathsKept ==
    /\ \A p \in Paths :
          /\ p \in Paths'
          /\ p # <<>> => NodeAt(p)' = NodeAt(p)
          /\ NodeAt(p)'.type = NodeAt(p).type
          /\ \A i \in DOMAIN NodeAt(p).children :
                i \in DOMAIN NodeAt(p)'.children /\ NodeAt(p)'.children[i] = NodeAt(p).children[i]
    /\ \A c \in Paths : \A p \in Paths' : c # <<>> /\ Within(p, c) => p \in Paths

\* The same after a step.
LEMMA PathsHoldNext == ProgramOK' => PathsOK'
  BY PathsHold, PTL

\* A statement that is added leaves the others where they are.
LEMMA ProgramGrows ==
    ASSUME ProgramOK, Grows
    PROVE  /\ ProgramOK'
           /\ program'.type = program.type
           /\ \A i \in DOMAIN program.children :
                 i \in DOMAIN program'.children /\ program'.children[i] = program.children[i]
  <1>1. CASE program' = program
    BY <1>1 DEF ProgramOK
  <1>2. ASSUME NEW statement \in Statements,
               program' = [program EXCEPT !.children = Append(@, statement)]
        PROVE  /\ ProgramOK'
               /\ program'.type = program.type
               /\ \A i \in DOMAIN program.children :
                     i \in DOMAIN program'.children /\ program'.children[i] = program.children[i]
    <2>. DEFINE old == program.children
                new == Append(old, statement)
    <2>1. old \in Seq(Statements)
      BY DEF ProgramOK
    <2>2. program' = [program EXCEPT !.children = new]
      BY <1>2
    <2>3. /\ new \in Seq(Statements)
          /\ \A i \in DOMAIN old : i \in DOMAIN new /\ new[i] = old[i]
      <3>. HIDE DEF old
      <3>. QED
        BY <2>1
    <2>. HIDE DEF new
    <2>4. program'.children = new /\ program'.type = program.type
      BY <2>2 DEF ProgramOK
    <2>5. ProgramOK'
      BY <2>2, <2>3 DEF ProgramOK
    <2>. QED
      BY <2>3, <2>4, <2>5
  <1>. QED
    BY <1>1, <1>2 DEF Grows

\* It leaves every path, with the type of its node.
LEMMA GrowthKeepsPaths ==
    ASSUME ProgramOK, Grows
    PROVE  ProgramOK' /\ PathsOK /\ PathsOK' /\ PathsKept
  <1>1. /\ ProgramOK'
        /\ program'.type = program.type
        /\ \A i \in DOMAIN program.children :
              i \in DOMAIN program'.children /\ program'.children[i] = program.children[i]
    BY ProgramGrows
  <1>2. PathsOK /\ PathsOK'
    BY <1>1, PathsHold, PathsHoldNext
  <1>3. ASSUME NEW p \in Paths
        PROVE  /\ p \in Paths'
               /\ p # <<>> => NodeAt(p)' = NodeAt(p)
               /\ NodeAt(p)'.type = NodeAt(p).type
               /\ \A i \in DOMAIN NodeAt(p).children :
                     /\ i \in DOMAIN NodeAt(p)'.children
                     /\ NodeAt(p)'.children[i] = NodeAt(p).children[i]
    <2>1. CASE p = <<>>
      BY <1>1, <1>2, <2>1 DEF PathsOK
    <2>2. CASE p # <<>>
      <3>1. PICK s \in DOMAIN program.children :
               \E t \in PathsOf(program.children[s]) : p = <<s>> \o t
        BY <2>2 DEF Paths
      <3>2. PICK t \in PathsOf(program.children[s]) : p = <<s>> \o t
        BY <3>1
      <3>3. /\ s \in DOMAIN program'.children
            /\ program'.children[s] = program.children[s]
            /\ t \in PathsOf(program'.children[s])
        BY <1>1
      <3>4. p \in Paths'
        BY <3>2, <3>3 DEF Paths
      <3>5. Head(p) = s
        <4>1. s \in Nat /\ t \in Numbers
          BY StatementPaths
        <4>. QED
          BY <3>2, <4>1, Prefixed
      <3>6. NodeAt(p)' = NodeAt(p)
        BY <2>2, <3>3, <3>5 DEF NodeAt
      <3>. QED
        BY <3>4, <3>6
    <2>. QED
      BY <2>1, <2>2
  <1>4. ASSUME NEW c \in Paths, NEW p \in Paths', c # <<>>, Within(p, c)
        PROVE  p \in Paths
    <2>1. PICK s \in DOMAIN program.children :
             \E t \in PathsOf(program.children[s]) : c = <<s>> \o t
      BY <1>4 DEF Paths
    <2>2. PICK t \in PathsOf(program.children[s]) : c = <<s>> \o t
      BY <2>1
    <2>3. s \in Nat /\ t \in Numbers /\ c \in Numbers /\ p \in Numbers
      BY <1>2, <2>2, StatementPaths DEF PathsOK
    <2>4. c[1] = s /\ 1 \in 1 .. Len(c) /\ c \in Seq(Nat)
      BY <2>2, <2>3 DEF Numbers
    <2>5. p[1] = s /\ p # <<>>
      <3>1. Len(p) \in Nat /\ Len(c) \in Nat /\ Len(p) >= Len(c) /\ \A i \in 1 .. Len(c) : p[i] = c[i]
        BY <1>4, <2>3, WithinPointwise
      <3>. QED
        BY <2>3, <2>4, <3>1 DEF Numbers
    <2>6. PICK z \in DOMAIN program'.children :
             \E u \in PathsOf(program'.children[z]) : p = <<z>> \o u
      BY <2>5 DEF Paths
    <2>7. PICK u \in PathsOf(program'.children[z]) : p = <<z>> \o u
      BY <2>6
    <2>8. z = s
      <3>1. z \in Nat /\ u \in Numbers
        <4>1. program'.children \in Seq(Statements)
          BY <1>1 DEF ProgramOK
        <4>2. z \in Nat /\ program'.children[z] \in Statements
          BY <4>1
        <4>. QED
          BY <4>2, PathsOfStatement
      <3>. QED
        BY <2>5, <2>7, <3>1 DEF Numbers
    <2>9. u \in PathsOf(program.children[s])
      BY <1>1, <2>8
    <2>. QED
      BY <2>7, <2>8, <2>9 DEF Paths
  <1>. QED
    BY <1>1, <1>2, <1>3, <1>4 DEF PathsKept

-----------------------------------------------------------------------------
\* What the shapes say of the children of a node.

\* The operators are no other types.
LEMMA OperatorsApart ==
    \A type \in Operators :
        type \notin {"scope", "comment", "EOF", "if", "while", "assign", "constant",
                     "callStatement", "identifier", "literal", "call", "function",
                     "parameters", "typed", "null"}
  BY OperatorsAssumption DEF NodeTypes, StatementTypes, Expressions

Kind(node, i) == node.children[i].type

Values == Expressions(Operators) \cup {"function"}

\* The children that nodes of expressions and loops have.
LEMMA ChildKinds ==
    ASSUME NEW node, HasShape(node, Operators)
    PROVE  /\ Len(node.children) \in Nat
           /\ DOMAIN node.children = 1 .. Len(node.children)
           /\ \A i \in DOMAIN node.children : i \in Nat
           /\ node.type \in NodeTypes(Operators)
           /\ \A i \in DOMAIN node.children : Kind(node, i) \in NodeTypes(Operators)
           /\ node.type \in Childless => Len(node.children) = 0
           /\ node.type \in Operators \cup {"while"} =>
                 /\ Len(node.children) = 2
                 /\ Kind(node, 1) \in Expressions(Operators)
                 /\ Kind(node, 2) \in Expressions(Operators)
           /\ node.type = "call" =>
                 /\ Len(node.children) = 2
                 /\ Kind(node, 1) = "identifier"
                 /\ Kind(node, 2) = "parameters"
           /\ node.type = "callStatement" =>
                 Len(node.children) = 1 /\ Kind(node, 1) = "call"
  <1>. DEFINE kinds == Kinds(node)
  <1>1. /\ Len(node.children) \in Nat
        /\ DOMAIN node.children = 1 .. Len(node.children)
        /\ Len(kinds) = Len(node.children)
        /\ \A i \in DOMAIN node.children : i \in Nat
        /\ \A i \in DOMAIN node.children : kinds[i] = Kind(node, i)
    BY ChildrenCount DEF Kind
  <1>2. kinds \in Seq(NodeTypes(Operators)) /\ node.type \in NodeTypes(Operators)
    BY DEF HasShape
  <1>3. \A i \in DOMAIN node.children : kinds[i] \in NodeTypes(Operators)
    BY <1>1, <1>2
  <1>4. node.type \in Childless => kinds = <<>>
    BY DEF HasShape
  <1>5. node.type \in Operators \cup {"while"} =>
            kinds \in Expressions(Operators) \X Expressions(Operators)
    BY DEF HasShape
  <1>6. node.type = "call" => kinds \in {"identifier"} \X {"parameters"}
    BY DEF HasShape
  <1>7. node.type = "callStatement" => kinds = <<"call">>
    BY DEF HasShape
  <1>. HIDE DEF kinds
  <1>8. /\ 1 \in 1 .. 2 /\ 2 \in 1 .. 2 /\ 1 \in 1 .. 1
    OBVIOUS
  <1>9. node.type \in Childless => Len(node.children) = 0
    BY <1>1, <1>4
  <1>10. node.type \in Operators \cup {"while"} =>
            /\ Len(node.children) = 2
            /\ Kind(node, 1) \in Expressions(Operators)
            /\ Kind(node, 2) \in Expressions(Operators)
    BY <1>1, <1>5, <1>8
  <1>11. node.type = "call" => /\ Len(node.children) = 2
                               /\ Kind(node, 1) = "identifier"
                               /\ Kind(node, 2) = "parameters"
    BY <1>1, <1>6, <1>8
  <1>12. ASSUME node.type = "callStatement"
         PROVE  Len(node.children) = 1 /\ Kind(node, 1) = "call"
    <2>1. kinds = <<"call">>
      BY <1>7, <1>12
    <2>2. Len(kinds) = 1 /\ kinds[1] = "call"
      BY <2>1
    <2>3. Len(node.children) = 1 /\ 1 \in DOMAIN node.children
      BY <1>1, <1>8, <2>2
    <2>. QED
      BY <1>1, <2>2, <2>3
  <1>. QED
    BY <1>1, <1>2, <1>3, <1>9, <1>10, <1>11, <1>12

\* The children that statements, declarations and functions have.
LEMMA StatementKinds ==
    ASSUME NEW node, HasShape(node, Operators)
    PROVE  /\ node.type = "assign" =>
                 /\ Len(node.children) = 2
                 /\ \/ Kind(node, 1) = "identifier" /\ Kind(node, 2) \in Expressions(Operators)
                    \/ Kind(node, 1) = "typed" /\ Kind(node, 2) \in Values
           /\ node.type = "constant" =>
                 /\ Len(node.children) = 2
                 /\ Kind(node, 1) = "typed" /\ Kind(node, 2) \in Values
           /\ node.type = "typed" =>
                 /\ Len(node.children) = 2
                 /\ Kind(node, 1) = "identifier" /\ Kind(node, 2) \in {"identifier", "null"}
           /\ node.type = "function" =>
                 /\ Len(node.children) = 3
                 /\ Kind(node, 1) = "parameters" /\ Kind(node, 2) = "identifier"
                 /\ Kind(node, 3) \in StatementTypes
           /\ node.type = "scope" =>
                 \A i \in DOMAIN node.children : Kind(node, i) \in StatementTypes
           /\ node.type = "if" =>
                 \A i \in DOMAIN node.children :
                    Kind(node, i) \in Expressions(Operators) \cup StatementTypes
  <1>. DEFINE kinds == Kinds(node)
  <1>1. /\ Len(node.children) \in Nat
        /\ DOMAIN node.children = 1 .. Len(node.children)
        /\ Len(kinds) = Len(node.children)
        /\ \A i \in DOMAIN node.children : kinds[i] = Kind(node, i)
    BY ChildrenCount DEF Kind
  <1>2. node.type = "assign" => \/ kinds \in {"identifier"} \X Expressions(Operators)
                                \/ kinds \in {"typed"} \X Values
    BY DEF HasShape, Values
  <1>3. node.type = "constant" => kinds \in {"typed"} \X Values
    BY DEF HasShape, Values
  <1>4. node.type = "typed" => kinds \in {"identifier"} \X {"identifier", "null"}
    BY DEF HasShape
  <1>5. node.type = "function" => kinds \in {"parameters"} \X {"identifier"} \X StatementTypes
    BY DEF HasShape
  <1>6. node.type = "scope" => kinds \in Seq(StatementTypes)
    BY DEF HasShape
  <1>7. node.type = "if" => \/ kinds \in Expressions(Operators) \X StatementTypes
                            \/ kinds \in Expressions(Operators) \X StatementTypes \X StatementTypes
    BY DEF HasShape
  <1>. HIDE DEF kinds
  <1>8. /\ 1 \in 1 .. 2 /\ 2 \in 1 .. 2 /\ 1 \in 1 .. 3 /\ 2 \in 1 .. 3 /\ 3 \in 1 .. 3
    OBVIOUS
  <1>9. node.type = "assign" =>
           /\ Len(node.children) = 2
           /\ \/ Kind(node, 1) = "identifier" /\ Kind(node, 2) \in Expressions(Operators)
              \/ Kind(node, 1) = "typed" /\ Kind(node, 2) \in Values
    BY <1>1, <1>2, <1>8
  <1>10. node.type = "constant" =>
           /\ Len(node.children) = 2
           /\ Kind(node, 1) = "typed" /\ Kind(node, 2) \in Values
    BY <1>1, <1>3, <1>8
  <1>11. node.type = "typed" =>
           /\ Len(node.children) = 2
           /\ Kind(node, 1) = "identifier" /\ Kind(node, 2) \in {"identifier", "null"}
    BY <1>1, <1>4, <1>8
  <1>12. node.type = "function" =>
           /\ Len(node.children) = 3
           /\ Kind(node, 1) = "parameters" /\ Kind(node, 2) = "identifier"
           /\ Kind(node, 3) \in StatementTypes
    BY <1>1, <1>5, <1>8
  <1>13. node.type = "scope" => \A i \in DOMAIN node.children : Kind(node, i) \in StatementTypes
    BY <1>1, <1>6
  <1>14. node.type = "if" =>
            \A i \in DOMAIN node.children :
               Kind(node, i) \in Expressions(Operators) \cup StatementTypes
    <2>1. ASSUME NEW i \in DOMAIN node.children, kinds \in Expressions(Operators) \X StatementTypes
          PROVE  kinds[i] \in Expressions(Operators) \cup StatementTypes
      <3>1. i \in 1 .. 2
        BY <1>1, <2>1
      <3>. QED
        BY <2>1, <3>1
    <2>2. ASSUME NEW i \in DOMAIN node.children,
                 kinds \in Expressions(Operators) \X StatementTypes \X StatementTypes
          PROVE  kinds[i] \in Expressions(Operators) \cup StatementTypes
      <3>1. i \in 1 .. 3
        BY <1>1, <2>2
      <3>. QED
        BY <2>2, <3>1
    <2>. QED
      BY <1>1, <1>7, <2>1, <2>2
  <1>. QED
    BY <1>9, <1>10, <1>11, <1>12, <1>13, <1>14

-----------------------------------------------------------------------------
\* The steps down from a node: its children in their order, and the arguments
\* of a call.

ListTypes == {"function", "parameters", "scope", "if"}

\* The order in which the children of a node are resolved.
LEMMA OrderOf ==
    ASSUME NEW node, HasShape(node, Operators)
    PROVE  /\ node.type \in Operators \cup {"while"} => Order(node) = <<1, 2>>
           /\ node.type \in {"assign", "constant"} => Order(node) = <<2, 1>>
           /\ node.type \in {"call", "callStatement"} => Order(node) = <<1>>
           /\ node.type \in ListTypes =>
                 /\ Len(Order(node)) = Len(node.children)
                 /\ \A j \in DOMAIN node.children : Order(node)[j] = j
           /\ node.type \in Childless \cup {"typed"} => Order(node) = <<>>
           /\ Len(Order(node)) \in Nat
           /\ \A j \in 1 .. Len(Order(node)) : Order(node)[j] \in DOMAIN node.children
  <1>1. /\ node.type \in Operators \cup {"while"} => Order(node) = <<1, 2>>
        /\ node.type \in {"assign", "constant"} => Order(node) = <<2, 1>>
        /\ node.type \in {"call", "callStatement"} => Order(node) = <<1>>
        /\ node.type \in ListTypes => Order(node) = [i \in DOMAIN node.children |-> i]
        /\ node.type \in Childless \cup {"typed"} => Order(node) = <<>>
    BY OperatorsApart DEF Order, ListTypes, Childless
  <1>2. /\ Len(node.children) \in Nat
        /\ DOMAIN node.children = 1 .. Len(node.children)
        /\ node.type \in NodeTypes(Operators)
        /\ node.type \in Operators \cup {"while"} => Len(node.children) = 2
        /\ node.type \in {"assign", "constant"} => Len(node.children) = 2
        /\ node.type = "call" => Len(node.children) = 2
        /\ node.type = "callStatement" => Len(node.children) = 1
    BY ChildKinds, StatementKinds
  <1>3. \/ node.type \in Operators \cup {"while"}
        \/ node.type \in {"assign", "constant"}
        \/ node.type \in {"call", "callStatement"}
        \/ node.type \in ListTypes
        \/ node.type \in Childless \cup {"typed"}
    BY <1>2 DEF NodeTypes, Expressions, StatementTypes, ListTypes, Childless
  <1>. QED
    BY <1>1, <1>2, <1>3

\* The path of a child leads to it.
LEMMA ChildOf ==
    ASSUME PathsOK, NEW p \in Paths, NEW i \in DOMAIN NodeAt(p).children
    PROVE  /\ i \in Nat
           /\ Child(p, i) \in Paths
           /\ NodeAt(Child(p, i)) = NodeAt(p).children[i]
           /\ NodeAt(Child(p, i)).type = Kind(NodeAt(p), i)
  BY DEF PathsOK, Kind

Steps(node) ==
    Len(Order(node)) + IF node.type = "call" THEN Len(node.children[2].children) ELSE 0

\* Where the j-th step from the node at p leads.
StepPath(p, j) ==
    LET order == Order(NodeAt(p))
    IN  IF j <= Len(order) THEN Child(p, order[j]) ELSE Child(Child(p, 2), j - Len(order))

\* The nodes a call is made of.
LEMMA CallArguments ==
    ASSUME PathsOK, NEW p \in Paths, NodeAt(p).type = "call"
    PROVE  /\ Child(p, 1) \in Paths /\ Child(p, 2) \in Paths
           /\ NodeAt(Child(p, 1)).type = "identifier" /\ NodeAt(Child(p, 2)).type = "parameters"
           /\ NodeAt(Child(p, 1)) = NodeAt(p).children[1]
           /\ NodeAt(Child(p, 2)) = NodeAt(p).children[2]
           /\ Order(NodeAt(p)) = <<1>>
           /\ Len(NodeAt(p).children[2].children) \in Nat
           /\ DOMAIN NodeAt(p).children[2].children = 1 .. Len(NodeAt(p).children[2].children)
           /\ \A i \in DOMAIN NodeAt(p).children[2].children :
                 /\ Child(Child(p, 2), i) \in Paths
                 /\ NodeAt(Child(Child(p, 2), i)) = NodeAt(p).children[2].children[i]
                 /\ NodeAt(Child(Child(p, 2), i)).type \in Expressions(Operators)
  <1>. DEFINE node == NodeAt(p)
  <1>1. HasShape(node, Operators)
    BY DEF PathsOK
  <1>2. /\ DOMAIN node.children = 1 .. 2
        /\ Kind(node, 1) = "identifier" /\ Kind(node, 2) = "parameters"
        /\ Order(node) = <<1>>
    BY <1>1, ChildKinds, OrderOf
  <1>3. 1 \in DOMAIN node.children /\ 2 \in DOMAIN node.children
    BY <1>2
  <1>4. /\ Child(p, 1) \in Paths /\ NodeAt(Child(p, 1)) = node.children[1]
        /\ NodeAt(Child(p, 1)).type = "identifier"
    BY <1>2, <1>3, ChildOf
  <1>5. /\ Child(p, 2) \in Paths /\ NodeAt(Child(p, 2)) = node.children[2]
        /\ NodeAt(Child(p, 2)).type = "parameters"
    BY <1>2, <1>3, ChildOf
  <1>6. HasShape(node.children[2], Operators)
    BY <1>5 DEF PathsOK
  <1>7. /\ Len(node.children[2].children) \in Nat
        /\ DOMAIN node.children[2].children = 1 .. Len(node.children[2].children)
    BY <1>6, ChildKinds
  <1>8. Kinds(node.children[2]) \in Seq(Expressions(Operators))
    BY <1>1 DEF HasShape
  <1>9. ASSUME NEW i \in DOMAIN node.children[2].children
        PROVE  /\ Child(Child(p, 2), i) \in Paths
               /\ NodeAt(Child(Child(p, 2), i)) = node.children[2].children[i]
               /\ NodeAt(Child(Child(p, 2), i)).type \in Expressions(Operators)
    <2>1. /\ Child(Child(p, 2), i) \in Paths
          /\ NodeAt(Child(Child(p, 2), i)) = node.children[2].children[i]
      BY <1>5, ChildOf
    <2>2. Kinds(node.children[2])[i] = node.children[2].children[i].type
          /\ Len(Kinds(node.children[2])) = Len(node.children[2].children)
      BY <1>6, ChildrenCount
    <2>3. Kinds(node.children[2])[i] \in Expressions(Operators)
      BY <1>7, <1>8, <2>2
    <2>. QED
      BY <2>1, <2>2, <2>3
  <1>. QED
    BY <1>2, <1>4, <1>5, <1>7, <1>9

\* The steps of a node lead to nodes below it.
LEMMA StepFacts ==
    ASSUME PathsOK, NEW p \in Paths
    PROVE  /\ Steps(NodeAt(p)) \in Nat
           /\ Len(Order(NodeAt(p))) \in Nat /\ Len(Order(NodeAt(p))) <= Steps(NodeAt(p))
           /\ \A j \in 1 .. Steps(NodeAt(p)) :
                 /\ StepPath(p, j) \in Paths
                 /\ StepPath(p, j) # p
                 /\ Within(StepPath(p, j), p)
  <1>. DEFINE node == NodeAt(p)
  <1>1. HasShape(node, Operators) /\ p \in Numbers
    BY DEF PathsOK
  <1>2. Len(Order(node)) \in Nat /\ \A j \in 1 .. Len(Order(node)) : Order(node)[j] \in DOMAIN node.children
    BY <1>1, OrderOf
  <1>3. \A i \in DOMAIN node.children :
           i \in Nat /\ Child(p, i) \in Paths /\ Child(p, i) # p /\ Within(Child(p, i), p)
    <2>1. \A i \in DOMAIN node.children : i \in Nat /\ Child(p, i) \in Paths
      BY ChildOf
    <2>2. Within(p, p)
      BY <1>1, WithinItself
    <2>. QED
      BY <1>1, <2>1, <2>2, WithinChild, ChildPath
  <1>4. CASE node.type # "call"
    <2>1. Steps(node) = Len(Order(node))
      BY <1>2, <1>4 DEF Steps
    <2>. QED
      BY <1>2, <1>3, <2>1 DEF StepPath
  <1>5. CASE node.type = "call"
    <2>. DEFINE m == Len(node.children[2].children)
    <2>1. /\ Child(p, 2) \in Paths
          /\ Order(node) = <<1>>
          /\ m \in Nat
          /\ \A i \in 1 .. m : Child(Child(p, 2), i) \in Paths
      BY <1>5, CallArguments
    <2>. HIDE DEF m
    <2>2. Steps(node) = 1 + m /\ Len(Order(node)) = 1
      BY <1>5, <2>1 DEF Steps, m
    <2>3. Child(p, 2) \in Numbers /\ Within(Child(p, 2), p) /\ Child(p, 2) # p
      <3>1. 2 \in DOMAIN node.children
        BY <1>1, <1>5, ChildKinds
      <3>. QED
        BY <1>3, <3>1 DEF PathsOK
    <2>4. ASSUME NEW i \in 1 .. m
          PROVE  Child(Child(p, 2), i) # p /\ Within(Child(Child(p, 2), i), p)
      <3>1. i \in Nat
        BY <2>1
      <3>2. Within(Child(Child(p, 2), i), p)
        BY <1>1, <2>3, <3>1, WithinChild
      <3>3. Len(Child(Child(p, 2), i)) = Len(Child(p, 2)) + 1
        BY <2>3, <3>1, ChildPath
      <3>4. Len(Child(p, 2)) = Len(p) + 1
        BY <1>1, ChildPath
      <3>5. Len(p) \in Nat
        BY <1>1 DEF Numbers
      <3>. QED
        BY <3>2, <3>3, <3>4, <3>5
    <2>5. ASSUME NEW j \in 1 .. Steps(node)
          PROVE  StepPath(p, j) \in Paths /\ StepPath(p, j) # p /\ Within(StepPath(p, j), p)
      <3>1. CASE j = 1
        <4>1. StepPath(p, j) = Child(p, Order(node)[1]) /\ 1 \in 1 .. Len(Order(node))
          BY <2>2, <3>1 DEF StepPath
        <4>. QED
          BY <1>2, <1>3, <4>1
      <3>2. CASE j # 1
        <4>1. j - 1 \in 1 .. m /\ StepPath(p, j) = Child(Child(p, 2), j - 1)
          BY <2>1, <2>2, <3>2 DEF StepPath
        <4>. QED
          BY <2>1, <2>4, <4>1
      <3>. QED
        BY <3>1, <3>2
    <2>. QED
      BY <2>1, <2>2, <2>5
  <1>. QED
    BY <1>4, <1>5

-----------------------------------------------------------------------------
\* The symbol table: what it holds is a set of symbols, one of each name.

Counted(t) == 0 .. t.size - 1

\* The symbols of a table.
Held(t) == {t.buffer[i] : i \in Counted(t)}

IsSymbol(s) ==
    s \in [name : {s.name}, located : BOOLEAN, type : Types, constant : BOOLEAN, decl : {s.decl}]

Filled(t) == t.buffer = [i \in 0 .. t.capacity - 1 |-> t.buffer[i]]

\* A table whose buffer has its cells, or none because malloc gave none.
Shaped(t) ==
    /\ t \in [buffer : {t.buffer}, size : Nat, capacity : Nat, block : Nat]
    /\ t.size <= t.capacity /\ t.capacity > 0
    /\ \/ Filled(t)
       \/ t.buffer = Cells(0) /\ t.size = 0 /\ t.capacity = 1

Distinct(t) == \A i, j \in Counted(t) : t.buffer[i].name = t.buffer[j].name => i = j

Good(t) == Shaped(t) /\ Distinct(t) /\ \A i \in Counted(t) : IsSymbol(t.buffer[i])

\* A name that is found is that of one symbol.
LEMMA FoundHeld ==
    ASSUME NEW t, Good(t)
    PROVE  /\ \A name : Found(t, name) =>
                 SymbolOf(t, name) \in Held(t) /\ SymbolOf(t, name).name = name
           /\ \A s \in Held(t) : Found(t, s.name) /\ SymbolOf(t, s.name) = s
  <1>1. ASSUME NEW i \in Counted(t)
        PROVE  Found(t, t.buffer[i].name) /\ Index(t, t.buffer[i].name) = i
    <2>. DEFINE name == t.buffer[i].name
    <2>1. Matching(t, name) = {i}
      BY DEF Good, Distinct, Counted, Matching
    <2>2. i \in Int
      BY DEF Good, Shaped, Counted
    <2>3. Index(t, name) = i
      BY <2>1, <2>2 DEF Index
    <2>. QED
      BY <2>1, <2>3 DEF Found
  <1>2. ASSUME NEW name, Found(t, name)
        PROVE  SymbolOf(t, name) \in Held(t) /\ SymbolOf(t, name).name = name
    <2>1. PICK i \in Counted(t) : t.buffer[i].name = name
      BY <1>2 DEF Found, Matching, Counted
    <2>. QED
      BY <1>1, <2>1 DEF SymbolOf, Held
  <1>. QED
    BY <1>1, <1>2 DEF SymbolOf, Held

\* What a good table holds are symbols.
LEMMA HeldSymbols ==
    ASSUME NEW t, Good(t)
    PROVE  \A s \in Held(t) : IsSymbol(s)
  BY DEF Good, Held

\* The growth at the top of symbol_table_add keeps every symbol where it is, in
\* a buffer with room for one more, or refuses and changes nothing.
LEMMA GrownGood ==
    ASSUME NEW t, Good(t), NEW g \in Grown(t)
    PROVE  /\ g.ok \in BOOLEAN
           /\ ~g.ok => g.table = t
           /\ Good(g.table)
           /\ g.table.size = t.size
           /\ g.ok => g.table.size < g.table.capacity /\ Filled(g.table)
           /\ \A i \in Counted(t) : g.table.buffer[i] = t.buffer[i]
  <1>1. t.size \in Nat /\ t.capacity \in Nat /\ t.block \in Nat /\ t.size <= t.capacity /\ t.capacity > 0
    BY DEF Good, Shaped
  <1>2. CASE ~NeedsRoom(t)
    <2>1. g = [ok |-> TRUE, table |-> t]
      BY <1>2 DEF Grown
    <2>2. t.size + 1 < t.capacity
      BY <1>1, <1>2 DEF NeedsRoom
    <2>3. Filled(t)
      BY <1>1, <2>2 DEF Good, Shaped
    <2>. QED
      BY <1>1, <2>1, <2>2, <2>3
  <1>3. CASE NeedsRoom(t) /\ g = [ok |-> FALSE, table |-> t]
    BY <1>3
  <1>4. CASE NeedsRoom(t) /\ t.buffer # Cells(0) /\ g = [ok |-> TRUE, table |-> Reallocated(t)]
    <2>. DEFINE r == Reallocated(t)
                n == ResizeFactor * t.capacity
    <2>1. n \in Nat /\ t.size < n /\ t.capacity < n
      BY <1>1 DEF ResizeFactor
    <2>2. /\ r.size = t.size /\ r.capacity = n /\ r.block = t.block + 1
          /\ r.buffer = [i \in 0 .. n - 1 |->
                           IF i < t.capacity THEN t.buffer[i] ELSE Unwritten]
          /\ r \in [buffer : {r.buffer}, size : {t.size}, capacity : {n},
                    block : {t.block + 1}]
      BY DEF Reallocated
    <2>. HIDE DEF r, n
    <2>3. Filled(r)
      <3>1. DOMAIN r.buffer = 0 .. n - 1 /\ r.buffer = [i \in DOMAIN r.buffer |-> r.buffer[i]]
        BY <2>2
      <3>. QED
        BY <2>2, <3>1 DEF Filled
    <2>4. Shaped(r)
      BY <1>1, <2>1, <2>2, <2>3 DEF Shaped
    <2>5. \A i \in Counted(t) : r.buffer[i] = t.buffer[i]
      BY <1>1, <2>1, <2>2 DEF Counted
    <2>6. Counted(r) = Counted(t)
      BY <2>2 DEF Counted
    <2>7. Good(r)
      BY <2>4, <2>5, <2>6 DEF Good, Distinct
    <2>8. g.ok = TRUE /\ g.table = r
      BY <1>4 DEF r
    <2>. QED
      BY <2>1, <2>2, <2>3, <2>5, <2>7, <2>8
  <1>. QED
    BY <1>2, <1>3, <1>4 DEF Grown

\* symbol_table_add: the symbol comes to the others under a name that was not
\* there, or the table holds what it held.
LEMMA AddedHeld ==
    ASSUME NEW t, Good(t), NEW s, IsSymbol(s), NEW a \in Added(t, s)
    PROVE  /\ a.ok \in BOOLEAN
           /\ Good(a.table)
           /\ a.ok => ~Found(t, s.name) /\ Held(a.table) = Held(t) \cup {s}
           /\ ~a.ok => Held(a.table) = Held(t)
  <1>1. PICK g \in Grown(t) :
           a = IF ~g.ok THEN g
               ELSE IF Found(g.table, s.name) THEN [ok |-> FALSE, table |-> g.table]
               ELSE [ok |-> TRUE, table |-> Stored(g.table, s)]
    BY DEF Added
  <1>2. /\ g.ok \in BOOLEAN
        /\ ~g.ok => g.table = t
        /\ Good(g.table)
        /\ g.table.size = t.size
        /\ g.ok => g.table.size < g.table.capacity /\ Filled(g.table)
        /\ \A i \in Counted(t) : g.table.buffer[i] = t.buffer[i]
    BY GrownGood
  <1>3. /\ Found(g.table, s.name) <=> Found(t, s.name)
        /\ Held(g.table) = Held(t)
    BY <1>2 DEF Found, Matching, Held, Counted
  <1>4. CASE ~g.ok
    BY <1>1, <1>2, <1>4
  <1>5. CASE g.ok /\ Found(g.table, s.name)
    <2>1. a = [ok |-> FALSE, table |-> g.table]
      BY <1>1, <1>5
    <2>. QED
      BY <1>2, <1>3, <2>1
  <1>6. CASE g.ok /\ ~Found(g.table, s.name)
    <2>. DEFINE u == g.table
                r == Stored(u, s)
    <2>1. a = [ok |-> TRUE, table |-> r]
      BY <1>1, <1>6
    <2>2. /\ u \in [buffer : {u.buffer}, size : Nat, capacity : Nat, block : Nat]
          /\ u.size < u.capacity /\ u.capacity > 0
          /\ Filled(u)
      BY <1>2, <1>6 DEF Good, Shaped
    <2>3. r \in [buffer : {[u.buffer EXCEPT ![u.size] = s]}, size : {u.size + 1},
                 capacity : {u.capacity}, block : {u.block}]
      BY <2>2 DEF Stored
    <2>4. /\ r.size = u.size + 1 /\ r.capacity = u.capacity /\ r.block = u.block
          /\ r.buffer = [u.buffer EXCEPT ![u.size] = s]
          /\ DOMAIN u.buffer = 0 .. u.capacity - 1
      BY <2>2, <2>3 DEF Filled
    <2>. HIDE DEF r, u
    <2>5. /\ r.buffer[u.size] = s
          /\ \A i \in 0 .. u.capacity - 1 : i # u.size => r.buffer[i] = u.buffer[i]
          /\ Filled(r)
      <3>1. u.size \in 0 .. u.capacity - 1
        BY <2>2
      <3>2. /\ r.buffer[u.size] = s
            /\ \A i \in 0 .. u.capacity - 1 : i # u.size => r.buffer[i] = u.buffer[i]
            /\ DOMAIN r.buffer = 0 .. u.capacity - 1
            /\ r.buffer = [i \in DOMAIN r.buffer |-> r.buffer[i]]
        BY <2>4, <3>1
      <3>. QED
        BY <2>4, <3>2 DEF Filled
    <2>6. Shaped(r)
      BY <2>2, <2>3, <2>4, <2>5 DEF Shaped
    <2>7. /\ Counted(r) = Counted(u) \cup {u.size}
          /\ \A i \in Counted(u) : r.buffer[i] = u.buffer[i]
      BY <2>2, <2>4, <2>5 DEF Counted
    <2>8. Distinct(r)
      <3>1. \A i \in Counted(u) : u.buffer[i].name # s.name
        BY <1>6 DEF Found, Matching, Counted, u
      <3>2. \A i, j \in Counted(u) : u.buffer[i].name = u.buffer[j].name => i = j
        BY <1>2 DEF Good, Distinct, u
      <3>. QED
        BY <2>5, <2>7, <3>1, <3>2 DEF Distinct
    <2>9. \A i \in Counted(r) : IsSymbol(r.buffer[i])
      BY <1>2, <2>5, <2>7 DEF Good, u
    <2>10. Good(r)
      BY <2>6, <2>8, <2>9 DEF Good
    <2>11. Held(r) = Held(u) \cup {s}
      BY <2>5, <2>7 DEF Held
    <2>. QED
      BY <1>3, <1>6, <2>1, <2>10, <2>11 DEF u
  <1>. QED
    BY <1>2, <1>4, <1>5, <1>6

\* The declaration of a function filled in: nothing else changes.
LEMMA DeclaredHeld ==
    ASSUME NEW t, Good(t), NEW name, Found(t, name), NEW node
    PROVE  LET s == SymbolOf(t, name)
               r == Declared(t, Index(t, name), node)
           IN  /\ Good(r)
               /\ \E d : /\ Held(r) = (Held(t) \ {s}) \cup {d}
                         /\ d.name = s.name /\ d.located = s.located /\ d.type = s.type
                         /\ d.constant = s.constant /\ d.decl = node
  <1>. DEFINE i == Index(t, name)
              r == Declared(t, i, node)
              s == SymbolOf(t, name)
              d == [s EXCEPT !.decl = node]
  <1>1. i \in Counted(t)
    <2>1. PICK j \in Counted(t) : t.buffer[j].name = name
      BY DEF Found, Matching, Counted
    <2>2. Matching(t, name) = {j}
      BY <2>1 DEF Good, Distinct, Counted, Matching
    <2>3. j \in Int
      BY DEF Good, Shaped, Counted
    <2>. QED
      BY <2>2, <2>3 DEF Index
  <1>2. s = t.buffer[i]
    BY DEF SymbolOf
  <1>. HIDE DEF i
  <1>3. /\ t \in [buffer : {t.buffer}, size : Nat, capacity : Nat, block : Nat]
        /\ t.size <= t.capacity /\ t.capacity > 0 /\ i < t.size /\ i \in Int
        /\ Filled(t)
    BY <1>1 DEF Good, Shaped, Counted
  <1>4. IsSymbol(s)
    BY <1>1, <1>2 DEF Good
  <1>5. /\ IsSymbol(d)
        /\ d.name = s.name /\ d.located = s.located /\ d.type = s.type
        /\ d.constant = s.constant /\ d.decl = node
    BY <1>4 DEF IsSymbol
  <1>6. r \in [buffer : {[t.buffer EXCEPT ![i].decl = node]}, size : {t.size},
               capacity : {t.capacity}, block : {t.block}]
    BY <1>3 DEF Declared
  <1>7. [t.buffer EXCEPT ![i].decl = node] = [t.buffer EXCEPT ![i] = d]
    BY <1>2
  <1>. HIDE DEF d, s
  <1>8. /\ r.size = t.size /\ r.capacity = t.capacity /\ r.block = t.block
        /\ r.buffer = [t.buffer EXCEPT ![i] = d]
        /\ DOMAIN t.buffer = 0 .. t.capacity - 1
    BY <1>3, <1>6, <1>7 DEF Filled
  <1>. HIDE DEF r
  <1>9. i \in 0 .. t.capacity - 1
    BY <1>1, <1>3 DEF Counted
  <1>10. /\ r.buffer[i] = d
         /\ \A j \in 0 .. t.capacity - 1 : j # i => r.buffer[j] = t.buffer[j]
         /\ Filled(r)
    <2>1. /\ r.buffer[i] = d
          /\ \A j \in 0 .. t.capacity - 1 : j # i => r.buffer[j] = t.buffer[j]
          /\ DOMAIN r.buffer = 0 .. t.capacity - 1
          /\ r.buffer = [j \in DOMAIN r.buffer |-> r.buffer[j]]
      BY <1>8, <1>9
    <2>. QED
      BY <1>8, <2>1 DEF Filled
  <1>11. /\ Counted(r) = Counted(t)
         /\ \A j \in Counted(t) : r.buffer[j] = IF j = i THEN d ELSE t.buffer[j]
    BY <1>3, <1>8, <1>10 DEF Counted
  <1>12. Shaped(r)
    BY <1>3, <1>6, <1>8, <1>10 DEF Shaped
  <1>13. Distinct(r)
    BY <1>2, <1>5, <1>11 DEF Good, Distinct
  <1>14. \A j \in Counted(r) : IsSymbol(r.buffer[j])
    BY <1>5, <1>11 DEF Good
  <1>15. Good(r)
    BY <1>12, <1>13, <1>14 DEF Good
  <1>16. Held(r) = (Held(t) \ {s}) \cup {d}
    <2>1. \A j \in Counted(t) : j # i => t.buffer[j] # s
      BY <1>1, <1>2 DEF Good, Distinct
    <2>. QED
      BY <1>1, <1>2, <1>11, <2>1 DEF Held
  <1>. QED
    BY <1>5, <1>15, <1>16 DEF r, s, i

-----------------------------------------------------------------------------
FloatSymbol == Builtin("float", "float")
IntSymbol == Builtin("int", "integer")

\* What symbol_table_create leaves holds the built-in types, or those of them
\* that were not refused.
LEMMA CreatedHeld ==
    ASSUME NEW t \in Created(FloatSymbol, IntSymbol)
    PROVE  Good(t) /\ Held(t) \subseteq {FloatSymbol, IntSymbol}
  <1>1. PICK cells \in {Cells(FirstCapacity), Cells(0)} :
        \E first \in Added(Fresh(cells), FloatSymbol) :
           \E second \in Added(first.table, IntSymbol) : t = second.table
    BY DEF Created
  <1>2. PICK first \in Added(Fresh(cells), FloatSymbol) :
           \E second \in Added(first.table, IntSymbol) : t = second.table
    BY <1>1
  <1>3. PICK second \in Added(first.table, IntSymbol) : t = second.table
    BY <1>2
  <1>4. IsSymbol(FloatSymbol) /\ IsSymbol(IntSymbol)
    BY DEF IsSymbol, FloatSymbol, IntSymbol, Builtin, Symbol, Types
  <1>5. Good(Fresh(cells)) /\ Held(Fresh(cells)) = {}
    <2>. DEFINE f == Fresh(cells)
    <2>1. /\ f \in [buffer : {cells}, size : {0}, capacity : {1}, block : {0}]
          /\ f.buffer = cells
      BY DEF Fresh, FirstCapacity
    <2>. HIDE DEF f
    <2>2. Counted(f) = {}
      BY <2>1 DEF Counted
    <2>3. cells = Cells(0) \/ Filled(f)
      <3>1. CASE cells = Cells(1)
        <4>1. cells = [i \in 0 .. 0 |-> Unwritten]
          BY <3>1 DEF Cells
        <4>2. DOMAIN cells = 0 .. 0 /\ cells = [i \in DOMAIN cells |-> cells[i]]
          BY <4>1
        <4>. QED
          BY <2>1, <4>2 DEF Filled
      <3>. QED
        BY <3>1 DEF FirstCapacity
    <2>4. Shaped(f)
      BY <2>1, <2>3 DEF Shaped
    <2>. QED
      BY <2>2, <2>4 DEF Good, Distinct, Held, f
  <1>6. Good(first.table) /\ Held(first.table) \subseteq {FloatSymbol}
    BY <1>4, <1>5, AddedHeld
  <1>7. Good(second.table) /\ Held(second.table) \subseteq Held(first.table) \cup {IntSymbol}
    BY <1>4, <1>6, AddedHeld
  <1>. QED
    BY <1>3, <1>6, <1>7

-----------------------------------------------------------------------------
\* The frames: each waits for the step it made to the node of the next one.

Frames == [node : Paths, got : Seq(Types)]

Outcomes == {"none", "success", "failure", "crash"}

StepsLeft(k) == Len(stack[k].got) < Steps(NodeAt(stack[k].node))

StackOK ==
    /\ stack \in Seq(Frames)
    /\ returned \in [outcome : Outcomes, type : Types, located : BOOLEAN]
    /\ stack # <<>> => stack[1].node = <<>>
    /\ \A k \in 1 .. Len(stack) : Len(stack[k].got) <= Steps(NodeAt(stack[k].node))
    /\ \A k \in 1 .. Len(stack) - 1 :
          /\ StepsLeft(k)
          /\ stack[k + 1].node = StepPath(stack[k].node, Len(stack[k].got) + 1)
    /\ returned.outcome = "none" => stack # <<>> /\ stack[Len(stack)].got = <<>>
    /\ stack # <<>> /\ returned.outcome \in {"success", "failure"} => StepsLeft(Len(stack))

\* The frame at the top, and the results it has gathered.
LEMMA TopFacts ==
    ASSUME PathsOK, StackOK, stack # <<>>
    PROVE  /\ Len(stack) \in Nat /\ Len(stack) > 0
           /\ Top = stack[Len(stack)] /\ Top \in Frames
           /\ Top.node \in Paths /\ Top.node \in Numbers
           /\ Top.got \in Seq(Types) /\ Len(Top.got) \in Nat
           /\ HasShape(Here, Operators) /\ Steps(Here) \in Nat
           /\ Below \in Seq(Frames) /\ Len(Below) = Len(stack) - 1
           /\ \A k \in 1 .. Len(stack) - 1 : Below[k] = stack[k]
           /\ Running => /\ Results \in Seq(Types)
                         /\ Len(Results) = Len(Top.got) + IF returned.outcome = "success" THEN 1 ELSE 0
                         /\ Len(Results) <= Steps(Here)
                         /\ \A j \in 1 .. Len(Top.got) : Results[j] = Top.got[j]
                         /\ returned.outcome = "success" => Results[Len(Results)] = returned.type
                         /\ returned.outcome # "success" => Results = <<>>
  <1>1. /\ stack \in Seq(Frames)
        /\ Len(stack) \in Nat /\ Len(stack) > 0
        /\ Top = stack[Len(stack)] /\ Top \in Frames
        /\ returned.type \in Types
    BY DEF StackOK, Top
  <1>2. Top.node \in Paths /\ Top.got \in Seq(Types) /\ Len(Top.got) \in Nat
    BY <1>1 DEF Frames
  <1>3. Top.node \in Numbers /\ HasShape(Here, Operators) /\ Steps(Here) \in Nat
    BY <1>2, StepFacts DEF PathsOK, Here
  <1>4. /\ Below \in Seq(Frames) /\ Len(Below) = Len(stack) - 1
        /\ \A k \in 1 .. Len(stack) - 1 : Below[k] = stack[k]
    <2>. DEFINE n == Len(stack) - 1
    <2>1. n \in Nat
      BY <1>1
    <2>2. \A i \in 1 .. n : stack[i] \in Frames
      BY <1>1
    <2>3. /\ SubSeq(stack, 1, n) \in Seq(Frames)
          /\ Len(SubSeq(stack, 1, n)) = IF 1 <= n THEN n - 1 + 1 ELSE 0
          /\ \A i \in 1 .. n - 1 + 1 : SubSeq(stack, 1, n)[i] = stack[1 + i - 1]
      <3>. HIDE DEF n
      <3>. QED
        BY <2>1, <2>2, SubSeqProperties
    <2>4. Below = SubSeq(stack, 1, n)
      BY DEF Below
    <2>. HIDE DEF n
    <2>5. /\ \A i \in 1 .. n : i \in 1 .. n - 1 + 1 /\ 1 + i - 1 = i
          /\ n = IF 1 <= n THEN n - 1 + 1 ELSE 0
      BY <2>1
    <2>6. Below \in Seq(Frames) /\ Len(Below) = n /\ \A i \in 1 .. n : Below[i] = stack[i]
      BY <2>3, <2>4, <2>5
    <2>. QED
      BY <2>6 DEF n
  <1>5. Running => /\ Results \in Seq(Types)
                   /\ Len(Results) = Len(Top.got) + IF returned.outcome = "success" THEN 1 ELSE 0
                   /\ \A j \in 1 .. Len(Top.got) : Results[j] = Top.got[j]
                   /\ returned.outcome = "success" => Results[Len(Results)] = returned.type
                   /\ returned.outcome # "success" => Results = <<>>
    <2>1. returned.outcome = "none" => Top.got = <<>>
      BY <1>1 DEF StackOK
    <2>2. CASE returned.outcome = "success"
      <3>1. Results = Append(Top.got, returned.type)
        BY <2>2 DEF Results
      <3>. QED
        BY <1>1, <1>2, <2>2, <3>1
    <2>3. CASE returned.outcome # "success"
      <3>1. Results = Top.got
        BY <2>3 DEF Results
      <3>. QED
        BY <1>1, <1>2, <2>1, <2>3, <3>1 DEF Running
    <2>. QED
      BY <2>2, <2>3
  <1>6. Running => Len(Results) <= Steps(Here)
    <2>1. Len(Top.got) <= Steps(Here)
      BY <1>1 DEF StackOK, Here
    <2>2. returned.outcome = "success" => Len(Top.got) < Steps(Here)
      BY <1>1 DEF StackOK, StepsLeft, Here
    <2>3. CASE returned.outcome = "success"
      <3>1. Running => Len(Results) = Len(Top.got) + 1
        BY <1>5, <2>3
      <3>. QED
        BY <1>2, <1>3, <2>2, <2>3, <3>1
    <2>4. CASE returned.outcome # "success"
      <3>1. Running => Len(Results) = Len(Top.got)
        BY <1>2, <1>5, <2>4
      <3>. QED
        BY <2>1, <3>1
    <2>. QED
      BY <2>3, <2>4
  <1>. QED
    BY <1>1, <1>2, <1>3, <1>4, <1>5, <1>6

\* A function returned to its caller.
Pops ==
    /\ stack # <<>>
    /\ stack' = Below
    /\ returned' \in [outcome : Outcomes \ {"none"}, type : Types, located : BOOLEAN]
    /\ UNCHANGED program

\* A return keeps the stack in shape.
LEMMA PopsKeepStack ==
    ASSUME PathsOK, StackOK, Pops
    PROVE  StackOK'
  <1>1. /\ Len(stack) \in Nat /\ Len(stack) > 0
        /\ Below \in Seq(Frames) /\ Len(Below) = Len(stack) - 1
        /\ \A k \in 1 .. Len(stack) - 1 : Below[k] = stack[k]
    BY TopFacts DEF Pops
  <1>2. /\ stack' = Below /\ Len(stack') = Len(stack) - 1
        /\ \A k \in 1 .. Len(stack') : stack'[k] = stack[k]
        /\ \A p : NodeAt(p)' = NodeAt(p)
        /\ \A p, j : StepPath(p, j)' = StepPath(p, j)
        /\ Paths' = Paths
    BY <1>1 DEF Pops, NodeAt, StepPath, Paths
  <1>3. stack' \in Seq(Frames')
    BY <1>1, <1>2 DEF Frames
  <1>4. returned' \in [outcome : Outcomes, type : Types, located : BOOLEAN] /\ returned'.outcome # "none"
    BY DEF Pops, Outcomes
  <1>5. stack' # <<>> => 1 \in 1 .. Len(stack') /\ Len(stack') \in 1 .. Len(stack) - 1
    BY <1>1, <1>2
  <1>6. stack' # <<>> => stack'[1].node = <<>>
    BY <1>1, <1>2, <1>5 DEF StackOK
  <1>7. \A k \in 1 .. Len(stack') : StepsLeft(k)' /\ k \in 1 .. Len(stack) - 1 /\ k \in 1 .. Len(stack)
    BY <1>1, <1>2 DEF StackOK, StepsLeft
  <1>8. ASSUME NEW k \in 1 .. Len(stack') PROVE (Len(stack[k].got) <= Steps(NodeAt(stack[k].node)))'
    <2>1. Len(stack[k].got) <= Steps(NodeAt(stack[k].node))
      BY <1>7 DEF StackOK
    <2>2. NodeAt(stack[k].node)' = NodeAt(stack[k].node)
      BY <1>2
    <2>. QED
      BY <1>2, <2>1, <2>2
  <1>9. \A k \in 1 .. Len(stack') - 1 : k \in 1 .. Len(stack') /\ k + 1 \in 1 .. Len(stack')
    BY <1>1, <1>2
  <1>10. ASSUME NEW k \in 1 .. Len(stack') - 1
         PROVE  (stack[k + 1].node = StepPath(stack[k].node, Len(stack[k].got) + 1))'
    <2>1. stack[k + 1].node = StepPath(stack[k].node, Len(stack[k].got) + 1)
      BY <1>7, <1>9 DEF StackOK
    <2>2. StepPath(stack[k].node, Len(stack[k].got) + 1)'
             = StepPath(stack[k].node, Len(stack[k].got) + 1)
      BY <1>2, <1>9
    <2>. QED
      BY <1>2, <1>9, <2>1, <2>2
  <1>. QED
    BY <1>3, <1>4, <1>5, <1>6, <1>7, <1>8, <1>9, <1>10 DEF StackOK, StepsLeft

\* A function calls another one, for the node it has come to: n is its own node,
\* and got what was resolved so far.
Pushes(n, got) ==
    /\ Running
    /\ Grows
    /\ n = Top.node /\ got = Results
    /\ Len(got) < Steps(NodeAt(n)')
    /\ stack' = Below \o <<[node |-> n, got |-> got],
                           [node |-> StepPath(n, Len(got) + 1)', got |-> <<>>]>>
    /\ returned' = Pending

\* A program that grows takes no steps away.
LEMMA StepsKept ==
    ASSUME ProgramOK, Grows, NEW p \in Paths
    PROVE  /\ Steps(NodeAt(p)) \in Nat /\ Steps(NodeAt(p)') \in Nat
           /\ Steps(NodeAt(p)) <= Steps(NodeAt(p)')
           /\ \A j \in 1 .. Steps(NodeAt(p)) : StepPath(p, j)' = StepPath(p, j)
  <1>1. PathsOK /\ PathsOK' /\ PathsKept /\ ProgramOK'
    BY GrowthKeepsPaths
  <1>2. p \in Paths' /\ Steps(NodeAt(p)) \in Nat
    BY <1>1, StepFacts DEF PathsKept
  <1>3. CASE p # <<>>
    <2>1. NodeAt(p)' = NodeAt(p)
      BY <1>1, <1>3 DEF PathsKept
    <2>2. \A j : StepPath(p, j)' = StepPath(p, j)
      BY <2>1 DEF StepPath
    <2>. QED
      BY <1>2, <2>1, <2>2
  <1>4. CASE p = <<>>
    <2>1. NodeAt(p) = program /\ NodeAt(p)' = program'
      BY <1>1, <1>4 DEF PathsOK
    <2>2. /\ program.type = "scope" /\ program'.type = "scope"
          /\ HasShape(program, Operators) /\ HasShape(program', Operators)
      BY <1>1, <1>2, <2>1, ProgramGrows, ProgramShape DEF PathsOK
    <2>3. /\ Steps(program) = Len(program.children)
          /\ \A j \in DOMAIN program.children : Order(program)[j] = j
          /\ DOMAIN program.children = 1 .. Len(program.children)
          /\ Len(Order(program)) = Len(program.children)
          /\ Len(program.children) \in Nat
      <3>1. /\ Len(Order(program)) = Len(program.children)
            /\ \A j \in DOMAIN program.children : Order(program)[j] = j
        BY <2>2, OrderOf DEF ListTypes
      <3>2. /\ Len(program.children) \in Nat
            /\ DOMAIN program.children = 1 .. Len(program.children)
        BY <2>2, ChildKinds
      <3>. QED
        BY <2>2, <3>1, <3>2 DEF Steps
    <2>4. /\ Steps(program') = Len(program'.children)
          /\ \A j \in DOMAIN program'.children : Order(program')[j] = j
          /\ DOMAIN program'.children = 1 .. Len(program'.children)
          /\ Len(Order(program')) = Len(program'.children)
          /\ Len(program'.children) \in Nat
      <3>1. /\ Len(Order(program')) = Len(program'.children)
            /\ \A j \in DOMAIN program'.children : Order(program')[j] = j
        BY <2>2, OrderOf DEF ListTypes
      <3>2. /\ Len(program'.children) \in Nat
            /\ DOMAIN program'.children = 1 .. Len(program'.children)
        BY <2>2, ChildKinds
      <3>. QED
        BY <2>2, <3>1, <3>2 DEF Steps
    <2>5. \A i \in DOMAIN program.children : i \in DOMAIN program'.children
      BY ProgramGrows
    <2>6. Len(program.children) <= Len(program'.children)
      BY <2>3, <2>4, <2>5
    <2>7. ASSUME NEW j \in 1 .. Steps(NodeAt(p)) PROVE StepPath(p, j)' = StepPath(p, j)
      <3>1. j \in DOMAIN program.children /\ j \in DOMAIN program'.children
        BY <2>1, <2>3, <2>5
      <3>2. j <= Len(program.children) /\ j <= Len(program'.children)
        BY <2>3, <2>4, <3>1
      <3>3. StepPath(p, j) = Child(p, j)
        BY <2>1, <2>3, <3>1, <3>2 DEF StepPath
      <3>4. StepPath(p, j)' = Child(p, j)
        BY <2>1, <2>4, <3>1, <3>2 DEF StepPath
      <3>. QED
        BY <3>3, <3>4
    <2>. QED
      BY <2>1, <2>3, <2>4, <2>6, <2>7
  <1>. QED
    BY <1>3, <1>4

StepsLead ==
    \A p \in Paths :
       /\ Steps(NodeAt(p)) \in Nat
       /\ \A j \in 1 .. Steps(NodeAt(p)) : StepPath(p, j) \in Paths

\* The steps of every node lead to nodes of the program.
LEMMA StepsLeadHold == PathsOK => StepsLead
  BY StepFacts DEF StepsLead

\* The same after a step.
LEMMA StepsLeadNext == PathsOK' => StepsLead'
  BY StepsLeadHold, PTL

\* The frames after a call.
LEMMA PushedFrames ==
    ASSUME ProgramOK, StackOK, NEW n, NEW got, Pushes(n, got)
    PROVE  LET m == Len(stack) IN
           /\ m \in Nat /\ m > 0
           /\ n \in Paths' /\ got \in Seq(Types) /\ Len(got) \in Nat
           /\ Len(got) + 1 \in 1 .. Steps(NodeAt(n)')
           /\ StepPath(n, Len(got) + 1)' \in Paths'
           /\ stack' \in Seq(Frames') /\ Len(stack') = m + 1
           /\ \A k \in 1 .. m - 1 : stack'[k] = stack[k]
           /\ stack'[m].node = n /\ stack'[m].got = got
           /\ stack'[m + 1].node = StepPath(n, Len(got) + 1)' /\ stack'[m + 1].got = <<>>
  <1>. DEFINE m == Len(stack)
              c == StepPath(n, Len(got) + 1)'
  <1>1. PathsOK /\ PathsOK' /\ PathsKept /\ StepsLead'
    BY GrowthKeepsPaths, StepsLeadNext DEF Pushes
  <1>2. stack # <<>> /\ Running /\ n = Top.node /\ got = Results
    BY DEF Pushes, Running
  <1>3. /\ m \in Nat /\ m > 0 /\ n \in Paths
        /\ Below \in Seq(Frames) /\ Len(Below) = m - 1
        /\ \A k \in 1 .. m - 1 : Below[k] = stack[k]
        /\ got \in Seq(Types) /\ Len(got) \in Nat
    BY <1>1, <1>2, TopFacts
  <1>4. n \in Paths'
    BY <1>1, <1>3 DEF PathsKept
  <1>5. /\ Steps(NodeAt(n)') \in Nat
        /\ \A j \in 1 .. Steps(NodeAt(n)') : StepPath(n, j)' \in Paths'
    BY <1>1, <1>4 DEF StepsLead
  <1>6. Len(got) + 1 \in 1 .. Steps(NodeAt(n)')
    BY <1>3, <1>5 DEF Pushes
  <1>7. c \in Paths'
    BY <1>5, <1>6
  <1>8. stack' = Below \o <<[node |-> n, got |-> got], [node |-> c, got |-> <<>>]>>
    BY DEF Pushes
  <1>. HIDE DEF m, c
  <1>. DEFINE f == [node |-> n, got |-> got]
              g == [node |-> c, got |-> <<>>]
  <1>9. f \in Frames' /\ g \in Frames'
    BY <1>3, <1>4, <1>7 DEF Frames
  <1>10. Below \in Seq(Frames')
    <2>1. \A x \in Frames : x \in Frames'
      BY <1>1 DEF PathsKept, Frames
    <2>. QED
      BY <1>3, <2>1
  <1>11. /\ f.node = n /\ f.got = got /\ g.node = c /\ g.got = <<>>
         /\ stack' = Below \o <<f, g>>
    BY <1>8
  <1>. HIDE DEF f, g
  <1>12. /\ stack' \in Seq(Frames') /\ Len(stack') = m + 1
         /\ \A k \in 1 .. m - 1 : stack'[k] = Below[k]
         /\ stack'[m] = f /\ stack'[m + 1] = g
    <2>. DEFINE t == <<f, g>>
    <2>1. t \in Seq(Frames') /\ Len(t) = 2 /\ t[1] = f /\ t[2] = g
      BY <1>9
    <2>2. stack' = Below \o t
      BY <1>11
    <2>. HIDE DEF t
    <2>3. /\ Below \o t \in Seq(Frames') /\ Len(Below \o t) = Len(Below) + Len(t)
          /\ \A k \in 1 .. Len(Below) + Len(t) :
                (Below \o t)[k] = IF k <= Len(Below) THEN Below[k] ELSE t[k - Len(Below)]
      BY <1>10, <2>1, ConcatProperties
    <2>4. /\ stack' \in Seq(Frames') /\ Len(stack') = (m - 1) + 2
          /\ \A k \in 1 .. (m - 1) + 2 :
                stack'[k] = IF k <= m - 1 THEN Below[k] ELSE t[k - (m - 1)]
      BY <1>3, <2>1, <2>2, <2>3
    <2>5. \A k \in 1 .. m - 1 : stack'[k] = Below[k]
      BY <1>3, <2>4
    <2>6. m \in 1 .. (m - 1) + 2 /\ ~(m <= m - 1) /\ m - (m - 1) = 1
      BY <1>3
    <2>7. m + 1 \in 1 .. (m - 1) + 2 /\ ~(m + 1 <= m - 1) /\ (m + 1) - (m - 1) = 2
      BY <1>3
    <2>8. stack'[m] = f /\ stack'[m + 1] = g
      BY <2>1, <2>4, <2>6, <2>7
    <2>. QED
      BY <1>3, <2>4, <2>5, <2>8
  <1>. QED
    BY <1>3, <1>4, <1>6, <1>7, <1>11, <1>12 DEF m, c

\* A call keeps the stack in shape.
LEMMA PushesKeepStack ==
    ASSUME ProgramOK, StackOK, NEW n, NEW got, Pushes(n, got)
    PROVE  StackOK'
  <1>0. PICK c : c = StepPath(n, Len(got) + 1)'
    OBVIOUS
  <1>m. PICK m : m = Len(stack)
    OBVIOUS
  <1>1. PathsOK /\ PathsOK' /\ PathsKept /\ StepsLead'
    BY GrowthKeepsPaths, StepsLeadNext DEF Pushes
  <1>2. stack # <<>> /\ n = Top.node
    BY DEF Pushes, Running
  <1>3. /\ m \in Nat /\ m > 0 /\ n = stack[m].node
        /\ \A k \in 1 .. m : stack[k].node \in Paths /\ Len(stack[k].got) \in Nat
    <2>1. Len(stack) \in Nat /\ Len(stack) > 0 /\ Top = stack[Len(stack)]
      BY <1>1, <1>2, TopFacts
    <2>2. \A k \in 1 .. Len(stack) : stack[k] \in Frames
      BY DEF StackOK
    <2>. QED
      BY <1>m, <1>2, <2>1, <2>2 DEF Frames
  <1>4. /\ n \in Paths' /\ got \in Seq(Types) /\ Len(got) \in Nat /\ c \in Paths'
        /\ Len(got) + 1 \in 1 .. Steps(NodeAt(n)')
        /\ stack' \in Seq(Frames') /\ Len(stack') = m + 1
        /\ \A k \in 1 .. m - 1 : stack'[k] = stack[k]
        /\ stack'[m].node = n /\ stack'[m].got = got
        /\ stack'[m + 1].node = c /\ stack'[m + 1].got = <<>>
    BY <1>0, <1>m, PushedFrames
  <1>5. /\ returned'.outcome = "none"
        /\ returned' \in [outcome : Outcomes, type : Types, located : BOOLEAN]
    BY DEF Pushes, Pending, Outcomes, Types
  <1>6. /\ Steps(NodeAt(n)') \in Nat /\ Steps(NodeAt(c)') \in Nat
        /\ Len(got) < Steps(NodeAt(n)') /\ Len(got) <= Steps(NodeAt(n)')
    BY <1>1, <1>4 DEF StepsLead
  <1>7. ASSUME NEW k \in 1 .. m - 1
        PROVE  /\ (Len(stack[k].got) < Steps(NodeAt(stack[k].node)))'
               /\ (Len(stack[k].got) <= Steps(NodeAt(stack[k].node)))'
               /\ StepPath(stack[k].node, Len(stack[k].got) + 1)' = stack[k + 1].node
    <2>1. k \in 1 .. Len(stack) /\ k \in 1 .. Len(stack) - 1
      BY <1>m, <1>3
    <2>2. PICK p : p = stack[k].node
      OBVIOUS
    <2>3. PICK l : l = Len(stack[k].got)
      OBVIOUS
    <2>4. p \in Paths /\ l \in Nat
      BY <1>3, <2>1, <2>2, <2>3
    <2>5. l < Steps(NodeAt(p)) /\ stack[k + 1].node = StepPath(p, l + 1)
      BY <2>1, <2>2, <2>3 DEF StackOK, StepsLeft
    <2>6. stack'[k].node = p /\ Len(stack'[k].got) = l
      BY <1>4, <2>2, <2>3
    <2>7. /\ Steps(NodeAt(p)) \in Nat /\ Steps(NodeAt(p)') \in Nat
          /\ Steps(NodeAt(p)) <= Steps(NodeAt(p)')
          /\ \A j \in 1 .. Steps(NodeAt(p)) : StepPath(p, j)' = StepPath(p, j)
      BY <2>4, StepsKept DEF Pushes
    <2>8. l + 1 \in 1 .. Steps(NodeAt(p)) /\ l < Steps(NodeAt(p)') /\ l <= Steps(NodeAt(p)')
      BY <2>4, <2>5, <2>7
    <2>9. StepPath(p, l + 1)' = StepPath(p, l + 1)
      BY <2>7, <2>8
    <2>. QED
      BY <2>5, <2>6, <2>8, <2>9
  <1>8. /\ (Len(stack[m].got) <= Steps(NodeAt(stack[m].node)))'
        /\ (Len(stack[m].got) < Steps(NodeAt(stack[m].node)))'
        /\ (StepPath(stack[m].node, Len(stack[m].got) + 1))' = c
    BY <1>0, <1>4, <1>6
  <1>9. (Len(stack[m + 1].got) <= Steps(NodeAt(stack[m + 1].node)))'
    <2>1. stack'[m + 1].got = <<>> /\ stack'[m + 1].node = c
      BY <1>4
    <2>. QED
      BY <1>6, <2>1
  <1>10. ASSUME NEW k \in 1 .. Len(stack')
         PROVE  (Len(stack[k].got) <= Steps(NodeAt(stack[k].node)))'
    <2>1. k \in 1 .. m - 1 \/ k = m \/ k = m + 1
      BY <1>3, <1>4
    <2>. QED
      BY <1>7, <1>8, <1>9, <2>1
  <1>11. ASSUME NEW k \in 1 .. Len(stack') - 1
         PROVE  (StepsLeft(k) /\ stack[k + 1].node = StepPath(stack[k].node, Len(stack[k].got) + 1))'
    <2>1. CASE k = m
      BY <1>4, <1>8, <2>1 DEF StepsLeft
    <2>2. CASE k # m
      <3>1. k \in 1 .. m - 1
        BY <1>3, <1>4, <2>2
      <3>2. stack'[k + 1].node = stack[k + 1].node
        <4>1. CASE k + 1 = m
          BY <1>3, <1>4, <4>1
        <4>2. CASE k + 1 # m
          <5>1. k + 1 \in 1 .. m - 1
            BY <1>3, <3>1, <4>2
          <5>. QED
            BY <1>4, <5>1
        <4>. QED
          BY <4>1, <4>2
      <3>. QED
        BY <1>7, <3>1, <3>2 DEF StepsLeft
    <2>. QED
      BY <2>1, <2>2
  <1>12. stack'[1].node = <<>>
    <2>1. stack[1].node = <<>>
      BY <1>2 DEF StackOK
    <2>2. 1 \in 1 .. m - 1 \/ m = 1
      BY <1>3
    <2>. QED
      BY <1>3, <1>4, <2>1, <2>2
  <1>13. stack' # <<>> /\ stack'[Len(stack')].got = <<>>
    BY <1>3, <1>4
  <1>. QED
    BY <1>4, <1>5, <1>10, <1>11, <1>12, <1>13 DEF StackOK

-----------------------------------------------------------------------------
\* The types that were set, and the table.

TypedOK ==
    /\ typed \in [DOMAIN typed -> Types]
    /\ DOMAIN typed \subseteq Paths
    /\ mishaps \subseteq {"refused", "stale"}

TableOK ==
    /\ Good(table)
    /\ \A s \in Held(table) :
          /\ s.decl # Unwritten => s.decl \in Paths
          /\ ~s.located => s \in {FloatSymbol, IntSymbol}

MachineOK == ProgramOK /\ StackOK /\ TypedOK /\ TableOK

\* What marking nodes with a type does.
LEMMA Marks ==
    ASSUME NEW ps, NEW type, Mark(ps, type)
    PROVE  /\ DOMAIN typed' = ps \cup DOMAIN typed
           /\ \A p \in ps : typed'[p] = type
           /\ \A p \in DOMAIN typed \ ps : typed'[p] = typed[p]
           /\ typed' = [p \in DOMAIN typed' |-> typed'[p]]
  BY DEF Mark

\* Marking nodes of the program keeps the marks in shape.
LEMMA MarksKeepTypes ==
    ASSUME TypedOK, UNCHANGED program, mishaps' \subseteq {"refused", "stale"},
           NEW ps \in SUBSET Paths, NEW type \in Types, Mark(ps, type)
    PROVE  TypedOK'
  <1>1. /\ DOMAIN typed' = ps \cup DOMAIN typed
        /\ \A p \in ps : typed'[p] = type
        /\ \A p \in DOMAIN typed \ ps : typed'[p] = typed[p]
        /\ typed' = [p \in DOMAIN typed' |-> typed'[p]]
    BY Marks
  <1>2. Paths' = Paths
    BY DEF Paths
  <1>3. \A p \in DOMAIN typed' : typed'[p] \in Types
    BY <1>1 DEF TypedOK
  <1>. QED
    BY <1>1, <1>2, <1>3 DEF TypedOK

\* Paths depend on the program alone.
LEMMA PathsSame ==
    ASSUME UNCHANGED program
    PROVE  /\ Paths' = Paths
           /\ \A p : NodeAt(p)' = NodeAt(p)
           /\ \A p, j : StepPath(p, j)' = StepPath(p, j)
           /\ ProgramOK' = ProgramOK
  BY DEF Paths, NodeAt, StepPath, ProgramOK

\* The table holds what it held, or one symbol more whose name was not found.
TableHolds == Good(table') /\ Held(table') = Held(table)

TableAdds(name, type, constant, node) ==
    /\ ~Found(table, name)
    /\ Good(table')
    /\ \E s : /\ Held(table') = Held(table) \cup {s}
              /\ s.name = name /\ s.located = TRUE /\ s.type = type
              /\ s.constant = constant /\ s.decl = node

\* A table that keeps its symbols, or gets one more, stays good.
LEMMA TableKept ==
    ASSUME TableOK, UNCHANGED program,
           \/ TableHolds
           \/ \E name, type, constant : \E node \in Paths \cup {Unwritten} :
                 TableAdds(name, type, constant, node)
    PROVE  TableOK'
  <1>1. Paths' = Paths
    BY PathsSame
  <1>2. CASE TableHolds
    BY <1>1, <1>2 DEF TableHolds, TableOK
  <1>3. ASSUME NEW name, NEW type, NEW constant, NEW node \in Paths \cup {Unwritten},
               TableAdds(name, type, constant, node)
        PROVE  TableOK'
    BY <1>1, <1>3 DEF TableAdds, TableOK
  <1>. QED
    BY <1>2, <1>3

\* The node a function is called for, and its children.
LEMMA TopChildren ==
    ASSUME PathsOK, StackOK, stack # <<>>
    PROVE  /\ Top.node \in Paths /\ Top.node \in Numbers /\ NodeAt(Top.node) = Here
           /\ HasShape(Here, Operators)
           /\ \A i \in DOMAIN Here.children :
                 /\ i \in Nat
                 /\ Child(Top.node, i) \in Paths
                 /\ NodeAt(Child(Top.node, i)) = Here.children[i]
                 /\ NodeAt(Child(Top.node, i)).type = Kind(Here, i)
  <1>1. Top.node \in Paths /\ Top.node \in Numbers /\ HasShape(Here, Operators)
    BY TopFacts
  <1>2. NodeAt(Top.node) = Here
    BY DEF Here
  <1>. QED
    BY <1>1, <1>2, ChildOf

\* Two steps down are a child of a child.
LEMMA TwoSteps ==
    ASSUME NEW p \in Numbers, NEW i \in Nat, NEW j \in Nat
    PROVE  p \o <<i, j>> = Child(Child(p, i), j)
  <1>1. <<i, j>> = <<i>> \o <<j>>
    <2>. DEFINE s == <<i>>
                t == <<j>>
                u == s \o t
    <2>1. s \in Seq(Nat) /\ t \in Seq(Nat) /\ Len(s) = 1 /\ Len(t) = 1 /\ s[1] = i /\ t[1] = j
      OBVIOUS
    <2>. HIDE DEF s, t
    <2>2. /\ u \in Seq(Nat) /\ Len(u) = Len(s) + Len(t)
          /\ \A k \in 1 .. Len(s) + Len(t) : u[k] = IF k <= Len(s) THEN s[k] ELSE t[k - Len(s)]
      BY <2>1, ConcatProperties
    <2>. HIDE DEF u
    <2>3. Len(u) = 2 /\ u[1] = i /\ u[2] = j
      BY <2>1, <2>2
    <2>. DEFINE v == <<i, j>>
    <2>4. v \in Seq(Nat) /\ Len(v) = 2 /\ v[1] = i /\ v[2] = j
      OBVIOUS
    <2>. HIDE DEF v
    <2>5. \A k \in 1 .. Len(u) : u[k] = v[k]
      BY <2>3, <2>4
    <2>6. u = v
      BY <2>2, <2>3, <2>4, <2>5, SeqEqual
    <2>. QED
      BY <2>6 DEF u, v, s, t
  <1>2. p \o (<<i>> \o <<j>>) = (p \o <<i>>) \o <<j>>
    BY ConcatAssociative DEF Numbers
  <1>. QED
    BY <1>1, <1>2 DEF Child

\* Entering the next node a step leads to is a call.
LEMMA EnterPushes ==
    ASSUME PathsOK, StackOK, Running, UNCHANGED program, NEW steps, Enter(steps),
           Len(Results) < Steps(Here),
           Top.node \o steps = StepPath(Top.node, Len(Results) + 1)
    PROVE  \E n, got : Pushes(n, got)
  <1>1. PICK n, got : n = Top.node /\ got = Results
    OBVIOUS
  <1>2. Len(got) < Steps(NodeAt(n)') /\ StepPath(n, Len(got) + 1)' = Top.node \o steps
    BY <1>1, PathsSame DEF Here
  <1>3. stack' = Below \o <<[node |-> n, got |-> got],
                            [node |-> StepPath(n, Len(got) + 1)', got |-> <<>>]>>
    BY <1>1, <1>2 DEF Enter
  <1>4. returned' = Pending
    BY DEF Enter
  <1>5. Pushes(n, got)
    BY <1>1, <1>2, <1>3, <1>4 DEF Pushes, Grows
  <1>. QED
    BY <1>5

\* The function that runs returns.
LEMMA ReturnPops ==
    ASSUME stack # <<>>, UNCHANGED program, NEW result, Return(result),
           result \in [outcome : Outcomes \ {"none"}, type : Types, located : BOOLEAN]
    PROVE  Pops
  BY DEF Pops, Return
\* What the functions return.
LEMMA ResultShapes ==
    ASSUME NEW type \in Types, NEW located \in BOOLEAN
    PROVE  /\ Success(type) \in [outcome : Outcomes \ {"none"}, type : Types, located : BOOLEAN]
           /\ Blame(located) \in [outcome : Outcomes \ {"none"}, type : Types, located : BOOLEAN]
           /\ Failure \in [outcome : Outcomes \ {"none"}, type : Types, located : BOOLEAN]
           /\ Crash \in [outcome : Outcomes \ {"none"}, type : Types, located : BOOLEAN]
           /\ Success(type).outcome = "success" /\ Success(type).type = type
           /\ Blame(located).outcome = "failure" /\ Failure.outcome = "failure"
           /\ Crash.outcome = "crash"
  BY DEF Success, Blame, Failure, Crash, Outcomes, Types

-----------------------------------------------------------------------------
\* The steps, one by one: each of them pushes or pops a frame.

\* The node is done, or an error was found.
Answers ==
    /\ Running
    /\ Pops
    /\ returned'.outcome = "success" => Len(Results) = Steps(Here)

PushesOnly ==
    /\ \E n, got : Pushes(n, got)
    /\ UNCHANGED <<table, typed, mishaps>>

DataKept == TypedOK' /\ TableOK'

\* A node whose children have been resolved.
LEMMA AtFacts ==
    ASSUME MachineOK, NEW kinds, At(kinds)
    PROVE  /\ PathsOK /\ StackOK /\ stack # <<>> /\ Running
           /\ Here.type \in kinds /\ HasShape(Here, Operators)
           /\ Len(Results) = Len(Order(Here))
           /\ Here.type # "call" => Len(Results) = Steps(Here)
           /\ Results \in Seq(Types)
           /\ Len(Results) \in Nat
           /\ \A j \in 1 .. Len(Results) : Results[j] \in Types
  <1>1. PathsOK /\ StackOK /\ stack # <<>> /\ Running
    BY PathsHold DEF MachineOK, At, Running
  <1>2. HasShape(Here, Operators) /\ Results \in Seq(Types)
    BY <1>1, TopFacts
  <1>3. Len(Order(Here)) \in Nat
    BY <1>2, OrderOf
  <1>. QED
    BY <1>1, <1>2, <1>3 DEF At, Steps

\* A step that writes no data keeps it in shape.
LEMMA DataSame ==
    ASSUME MachineOK, Grows, UNCHANGED <<table, typed, mishaps>>
    PROVE  DataKept
  <1>1. \A p \in Paths : p \in Paths'
    BY GrowthKeepsPaths DEF MachineOK, PathsKept
  <1>. QED
    BY <1>1 DEF MachineOK, DataKept, TypedOK, TableOK

\* So does one that marks nodes.
LEMMA TypesMarked ==
    ASSUME MachineOK, UNCHANGED <<program, table, mishaps>>,
           NEW ps \in SUBSET Paths, NEW type \in Types, Mark(ps, type)
    PROVE  DataKept
  <1>1. TypedOK'
    BY MarksKeepTypes DEF MachineOK, TypedOK
  <1>2. Paths' = Paths
    BY PathsSame
  <1>. QED
    BY <1>1, <1>2 DEF MachineOK, DataKept, TableOK

\* A child is resolved by a call, which changes no data.
LEMMA ResolveChildStep ==
    ASSUME MachineOK, ResolveChild
    PROVE  PushesOnly /\ DataKept
  <1>1. PathsOK /\ StackOK /\ stack # <<>> /\ Running /\ UNCHANGED <<program, table, typed, mishaps>>
    BY PathsHold DEF MachineOK, ResolveChild, Running
  <1>2. /\ Top.node \in Paths /\ HasShape(Here, Operators)
        /\ Results \in Seq(Types) /\ Len(Results) \in Nat
    BY <1>1, TopFacts
  <1>3. Len(Order(Here)) \in Nat /\ Len(Order(Here)) <= Steps(Here) /\ Steps(Here) \in Nat
    BY <1>1, <1>2, StepFacts DEF Here
  <1>4. Len(Results) < Len(Order(Here))
    BY DEF ResolveChild
  <1>5. Top.node \o <<Order(Here)[Len(Results) + 1]>> = StepPath(Top.node, Len(Results) + 1)
    <2>1. PICK j : j = Len(Results) + 1
      OBVIOUS
    <2>2. j <= Len(Order(Here))
      BY <1>2, <1>3, <1>4, <2>1
    <2>3. StepPath(Top.node, j) = Child(Top.node, Order(Here)[j])
      BY <2>2 DEF StepPath, Here
    <2>. QED
      BY <2>1, <2>3 DEF Child
  <1>6. \E n, got : Pushes(n, got)
    <2>1. PICK steps : steps = <<Order(Here)[Len(Results) + 1]>>
      OBVIOUS
    <2>2. Enter(steps)
      BY <2>1 DEF ResolveChild
    <2>3. Len(Results) < Steps(Here)
      BY <1>2, <1>3, <1>4
    <2>. QED
      BY <1>1, <1>5, <2>1, <2>2, <2>3, EnterPushes
  <1>7. DataKept
    BY <1>1, DataSame DEF Grows
  <1>. QED
    BY <1>1, <1>6, <1>7 DEF PushesOnly

\* So is the next statement of the file.
LEMMA ResolveStatementStep ==
    ASSUME MachineOK, ResolveStatement
    PROVE  PushesOnly /\ DataKept
  <1>1. /\ PathsOK /\ StackOK /\ stack # <<>> /\ Running
        /\ Len(Results) = Len(Order(Here)) /\ Len(Results) \in Nat
    BY AtFacts DEF ResolveStatement
  <1>2. Grows /\ UNCHANGED <<table, typed, mishaps>> /\ Top.node = <<>>
    BY DEF ResolveStatement, Grows
  <1>3. PathsOK' /\ ProgramOK' /\ Here = program /\ NodeAt(<<>>)' = program'
    BY <1>1, <1>2, GrowthKeepsPaths DEF MachineOK, Here, PathsOK
  <1>4. /\ program.type = "scope" /\ program'.type = "scope"
        /\ HasShape(program, Operators) /\ HasShape(program', Operators)
    BY <1>1, <1>2, <1>3, ProgramGrows, ProgramShape DEF PathsOK, MachineOK
  <1>5. /\ Len(Results) = Len(program.children)
        /\ Len(program'.children) = Len(program.children) + 1
        /\ Len(program.children) \in Nat
    <2>1. Len(Order(program)) = Len(program.children) /\ Len(program.children) \in Nat
      BY <1>4, OrderOf, ChildKinds DEF ListTypes
    <2>2. PICK statement \in Statements :
            program' = [program EXCEPT !.children = Append(@, statement)]
      BY DEF ResolveStatement
    <2>3. program.children \in Seq(Statements)
          /\ program'.children = Append(program.children, statement)
      BY <2>2 DEF MachineOK, ProgramOK
    <2>4. Len(program'.children) = Len(program.children) + 1
      BY <2>3
    <2>. QED
      BY <1>1, <1>3, <2>1, <2>4
  <1>6. /\ Len(Order(program')) = Len(program'.children)
        /\ DOMAIN program'.children = 1 .. Len(program'.children)
        /\ \A j \in DOMAIN program'.children : Order(program')[j] = j
    BY <1>4, OrderOf, ChildKinds DEF ListTypes
  <1>7. Steps(program') = Len(program'.children)
    BY <1>4, <1>5, <1>6 DEF Steps
  <1>8. PICK n, got : n = Top.node /\ got = Results
    OBVIOUS
  <1>9. n = <<>> /\ NodeAt(n)' = program' /\ Len(got) = Len(program.children)
    BY <1>2, <1>3, <1>5, <1>8
  <1>10. Len(got) < Steps(NodeAt(n)')
    BY <1>5, <1>7, <1>9
  <1>11. StepPath(n, Len(got) + 1)' = Top.node \o <<Len(program.children) + 1>>
    <2>1. Len(got) + 1 \in DOMAIN program'.children /\ Len(got) + 1 <= Len(Order(program'))
      BY <1>5, <1>6, <1>9
    <2>2. StepPath(n, Len(got) + 1)' = Child(n, Len(got) + 1)
      BY <1>6, <1>9, <2>1 DEF StepPath
    <2>. QED
      BY <1>8, <1>9, <2>2 DEF Child
  <1>12. Pushes(n, got)
    BY <1>1, <1>2, <1>8, <1>10, <1>11 DEF ResolveStatement, Enter, Pushes
  <1>13. DataKept
    BY <1>2, DataSame
  <1>. QED
    BY <1>2, <1>12, <1>13 DEF PushesOnly

\* A function whose return type was not found.
Skipping == Here.type = "function" /\ Len(Top.got) = 1

\* A failed child ends its node, but for a function without a return type.
LEMMA ChildFailedStep ==
    ASSUME MachineOK, ChildFailed
    PROVE  /\ Pops /\ DataKept
           /\ UNCHANGED <<table, typed, mishaps>>
           /\ returned.outcome = "failure"
           /\ Skipping => returned' = Success(Top.got[1]) /\ Top.got[1] \in Types
           /\ ~Skipping => returned' = returned
  <1>1. /\ PathsOK /\ StackOK /\ stack # <<>> /\ returned.outcome = "failure"
        /\ UNCHANGED <<program, table, typed, mishaps>>
    BY PathsHold DEF MachineOK, ChildFailed
  <1>2. Top.got \in Seq(Types)
    BY <1>1, TopFacts
  <1>3. Skipping => Top.got[1] \in Types
    BY <1>2 DEF Skipping
  <1>4. returned \in [outcome : Outcomes \ {"none"}, type : Types, located : BOOLEAN]
    BY <1>1 DEF StackOK, Outcomes
  <1>5. CASE Skipping
    <2>1. Return(Success(Top.got[1]))
      BY <1>5 DEF ChildFailed, Skipping
    <2>2. Success(Top.got[1]) \in [outcome : Outcomes \ {"none"}, type : Types, located : BOOLEAN]
      BY <1>3, <1>5, ResultShapes
    <2>3. Pops
      BY <1>1, <2>1, <2>2, ReturnPops
    <2>. QED
      BY <1>1, <1>3, <1>5, <2>1, <2>3, DataSame DEF Grows, Return
  <1>6. CASE ~Skipping
    <2>1. Return(returned)
      BY <1>6 DEF ChildFailed, Skipping
    <2>2. Pops
      BY <1>1, <1>4, <2>1, ReturnPops
    <2>. QED
      BY <1>1, <1>6, <2>1, <2>2, DataSame DEF Grows, Return
  <1>. QED
    BY <1>5, <1>6

\* A literal is named after its type.
LEMMA LiteralNames ==
    ASSUME ProgramOK, NEW p \in Paths, NodeAt(p).type = "literal"
    PROVE  NodeAt(p).name \in {"integer", "float", "string"}
  <1>1. p # <<>>
    BY PathsHold DEF PathsOK, ProgramOK
  <1>2. PICK i \in DOMAIN program.children : \E q \in PathsOf(program.children[i]) : p = <<i>> \o q
    BY <1>1 DEF Paths
  <1>3. PICK q \in PathsOf(program.children[i]) : p = <<i>> \o q
    BY <1>2
  <1>4. program.children[i] \in Statements
    BY ProgramShape
  <1>5. NodeAt(p) = Descendant(program.children[i], q)
    BY <1>3, StatementPaths
  <1>. QED
    BY <1>4, <1>5, LiteralsAssumption

\* A literal is marked with the type it has.
LEMMA LiteralStep ==
    ASSUME MachineOK, Literal
    PROVE  /\ Answers /\ DataKept /\ Here.type = "literal"
           /\ UNCHANGED <<table, mishaps>>
           /\ Mark({Top.node}, Here.name) /\ Here.name \in Types
           /\ returned' = Success(Here.name)
  <1>1. PathsOK /\ StackOK /\ stack # <<>> /\ Running /\ Here.type = "literal"
        /\ Len(Results) = Steps(Here)
    BY AtFacts DEF Literal
  <1>2. Top.node \in Paths /\ NodeAt(Top.node) = Here
    BY <1>1, TopChildren
  <1>3. Here.name \in Types
    BY <1>1, <1>2, LiteralNames DEF MachineOK, Types
  <1>4. UNCHANGED <<program, table, mishaps>> /\ Mark({Top.node}, Here.name) /\ Return(Success(Here.name))
    BY DEF Literal
  <1>5. Pops
    BY <1>1, <1>3, <1>4, ReturnPops, ResultShapes
  <1>6. DataKept
    BY <1>2, <1>3, <1>4, TypesMarked
  <1>. QED
    BY <1>1, <1>3, <1>4, <1>5, <1>6 DEF Answers, Return

\* What is found in the table is one of its symbols.
LEMMA FoundSymbol ==
    ASSUME TableOK, NEW name, Found(table, name)
    PROVE  /\ SymbolOf(table, name) \in Held(table)
           /\ SymbolOf(table, name).name = name
           /\ SymbolOf(table, name).type \in Types
           /\ SymbolOf(table, name).constant \in BOOLEAN
           /\ SymbolOf(table, name).located \in BOOLEAN
           /\ ~SymbolOf(table, name).located => SymbolOf(table, name) \in {FloatSymbol, IntSymbol}
  <1>1. Good(table)
    BY DEF TableOK
  <1>2. SymbolOf(table, name) \in Held(table) /\ SymbolOf(table, name).name = name
    BY <1>1, FoundHeld
  <1>3. IsSymbol(SymbolOf(table, name))
    BY <1>1, <1>2, HeldSymbols
  <1>. QED
    BY <1>2, <1>3 DEF IsSymbol, TableOK

\* A result is returned and nothing else happens, or the node's type is set.
LEMMA AnswerPlain ==
    ASSUME MachineOK, stack # <<>>, Running, UNCHANGED <<program, table, typed, mishaps>>,
           NEW result, Return(result),
           result \in [outcome : Outcomes \ {"none"}, type : Types, located : BOOLEAN],
           result.outcome = "success" => Len(Results) = Steps(Here)
    PROVE  Answers /\ DataKept
  <1>1. Pops
    BY ReturnPops
  <1>. QED
    BY <1>1, DataSame DEF Answers, Grows, Return

\* Marking a node and returning the type answers for it.
LEMMA AnswerMarked ==
    ASSUME MachineOK, stack # <<>>, Running, UNCHANGED <<program, table, mishaps>>,
           NEW type \in Types, Mark({Top.node}, type), Return(Success(type)),
           Len(Results) = Steps(Here)
    PROVE  Answers /\ DataKept /\ returned' = Success(type)
  <1>1. Pops
    BY ReturnPops, ResultShapes
  <1>2. Top.node \in Paths
    BY PathsHold, TopFacts DEF MachineOK
  <1>. QED
    BY <1>1, <1>2, TypesMarked DEF Answers, Return

\* An operator has the type of its operands, or fails.
LEMMA OperatorStep ==
    ASSUME MachineOK, Operator
    PROVE  /\ Answers /\ DataKept /\ Here.type \in Operators
           /\ UNCHANGED <<table, typed, mishaps>>
           /\ \/ returned'.outcome = "failure"
              \/ returned' = Success(Results[1]) /\ Results[1] = Results[2]
  <1>1. /\ stack # <<>> /\ Running /\ Here.type \in Operators
        /\ Len(Results) = Len(Order(Here)) /\ HasShape(Here, Operators)
        /\ \A j \in 1 .. Len(Results) : Results[j] \in Types
        /\ Here.type # "call" => Len(Results) = Steps(Here)
    BY AtFacts DEF Operator
  <1>2. Len(Results) = 2 /\ Len(Results) = Steps(Here)
    BY <1>1, OrderOf, OperatorsApart
  <1>3. Results[1] \in Types
    BY <1>1, <1>2
  <1>4. UNCHANGED <<program, table, typed, mishaps>>
    BY DEF Operator
  <1>5. CASE Results[1] = Results[2]
    <2>1. Return(Success(Results[1]))
      BY <1>5 DEF Operator
    <2>. QED
      BY <1>1, <1>2, <1>3, <1>4, <1>5, <2>1, AnswerPlain, ResultShapes DEF Return
  <1>6. CASE Results[1] # Results[2]
    <2>1. Return(Failure)
      BY <1>6 DEF Operator
    <2>. QED
      BY <1>1, <1>4, <2>1, AnswerPlain, ResultShapes DEF Return, Types
  <1>. QED
    BY <1>5, <1>6

\* An identifier has the type of its symbol, or fails.
LEMMA IdentifierStep ==
    ASSUME MachineOK, Identifier
    PROVE  /\ Answers /\ DataKept /\ Here.type = "identifier"
           /\ UNCHANGED <<table, mishaps>>
           /\ \/ /\ Found(table, Here.name)
                 /\ Mark({Top.node}, SymbolOf(table, Here.name).type)
                 /\ returned' = Success(SymbolOf(table, Here.name).type)
              \/ /\ ~Found(table, Here.name)
                 /\ returned'.outcome = "failure"
                 /\ UNCHANGED typed
  <1>1. /\ stack # <<>> /\ Running /\ Here.type = "identifier" /\ Len(Results) = Steps(Here)
    BY AtFacts DEF Identifier
  <1>2. UNCHANGED <<program, table, mishaps>>
    BY DEF Identifier
  <1>3. CASE Found(table, Here.name)
    <2>1. SymbolOf(table, Here.name).type \in Types
      BY <1>3, FoundSymbol DEF MachineOK
    <2>2. /\ Mark({Top.node}, SymbolOf(table, Here.name).type)
          /\ Return(Success(SymbolOf(table, Here.name).type))
      BY <1>3 DEF Identifier
    <2>. QED
      BY <1>1, <1>2, <1>3, <2>1, <2>2, AnswerMarked
  <1>4. CASE ~Found(table, Here.name)
    <2>1. Return(Failure) /\ UNCHANGED typed
      BY <1>4 DEF Identifier
    <2>. QED
      BY <1>1, <1>2, <1>4, <2>1, AnswerPlain, ResultShapes DEF Return, Types
  <1>. QED
    BY <1>3, <1>4

\* An error that names an earlier declaration: a crash if that has no place.
LEMMA Complaints ==
    ASSUME NEW symbol, Complain(symbol)
    PROVE  /\ \E result \in {Failure, Crash} : Return(result)
           /\ returned'.outcome # "success"
           /\ returned'.outcome = "crash" => ~symbol.located
  BY DEF Complain, Return, Failure, Blame, Crash

\* A failure and a crash answer too.
LEMMA AnswerError ==
    ASSUME MachineOK, stack # <<>>, Running, UNCHANGED <<program, table, typed, mishaps>>,
           \E result \in {Failure, Crash} : Return(result)
    PROVE  Answers /\ DataKept /\ returned'.outcome \in {"failure", "crash"}
  <1>1. PICK result \in {Failure, Crash} : Return(result)
    OBVIOUS
  <1>2. /\ result \in [outcome : Outcomes \ {"none"}, type : Types, located : BOOLEAN]
        /\ result.outcome \in {"failure", "crash"}
    BY <1>1, ResultShapes DEF Types
  <1>. QED
    BY <1>1, <1>2, AnswerPlain DEF Return

\* An assignment has the type of its variable, or fails.
LEMMA AssignVariableStep ==
    ASSUME MachineOK, AssignVariable
    PROVE  LET symbol == SymbolOf(table, Here.children[1].name) IN
           /\ Answers /\ DataKept
           /\ Here.type = "assign" /\ Kind(Here, 1) = "identifier"
           /\ UNCHANGED <<table, mishaps>>
           /\ \/ /\ returned'.outcome # "success"
                 /\ UNCHANGED typed
                 /\ returned'.outcome = "crash" => symbol.constant /\ ~symbol.located
              \/ /\ ~symbol.constant /\ symbol.type = Results[1]
                 /\ Mark({Top.node}, symbol.type)
                 /\ returned' = Success(symbol.type)
  <1>. DEFINE symbol == SymbolOf(table, Here.children[1].name)
  <1>1. /\ stack # <<>> /\ Running /\ Here.type = "assign"
        /\ Len(Results) = Len(Order(Here)) /\ HasShape(Here, Operators)
        /\ \A j \in 1 .. Len(Results) : Results[j] \in Types
        /\ Here.type # "call" => Len(Results) = Steps(Here)
    BY AtFacts DEF AssignVariable
  <1>2. Len(Results) = 2 /\ Len(Results) = Steps(Here)
    BY <1>1, OrderOf
  <1>3. Results[1] \in Types
    BY <1>1, <1>2
  <1>4. UNCHANGED <<program, table, mishaps>> /\ Kind(Here, 1) = "identifier"
    BY DEF AssignVariable, Kind
  <1>5. CASE symbol.constant /\ Complain(symbol) /\ UNCHANGED typed
    <2>1. /\ \E result \in {Failure, Crash} : Return(result)
          /\ returned'.outcome # "success"
          /\ returned'.outcome = "crash" => ~symbol.located
      BY <1>5, Complaints
    <2>2. Answers /\ DataKept
      BY <1>1, <1>4, <1>5, <2>1, AnswerError
    <2>. QED
      BY <1>1, <1>4, <1>5, <2>1, <2>2
  <1>6. CASE Return(Failure) /\ UNCHANGED typed
    <2>1. Answers /\ DataKept /\ returned' = Failure
      BY <1>1, <1>4, <1>6, AnswerError DEF Return
    <2>. QED
      BY <1>1, <1>4, <1>6, <2>1, ResultShapes DEF Types
  <1>7. CASE /\ ~symbol.constant /\ symbol.type = Results[1]
             /\ Mark({Top.node}, symbol.type) /\ Return(Success(symbol.type))
    <2>1. Answers /\ DataKept /\ returned' = Success(symbol.type)
      BY <1>1, <1>2, <1>3, <1>4, <1>7, AnswerMarked
    <2>. QED
      BY <1>1, <1>4, <1>7, <2>1
  <1>. QED
    BY <1>5, <1>6, <1>7 DEF AssignVariable

\* A declaration that gives a type agrees with its value, or fails.
LEMMA DeclareTypedStep ==
    ASSUME MachineOK, DeclareTyped
    PROVE  /\ Answers /\ DataKept
           /\ Here.type \in {"assign", "constant"} /\ Kind(Here, 1) = "typed"
           /\ UNCHANGED <<table, typed, mishaps>>
           /\ Results[2] # "unknown"
           /\ \/ returned'.outcome = "failure"
              \/ /\ Here.type = "assign" /\ Results[1] = Results[2]
                 /\ returned' = Success(Results[1])
  <1>1. /\ stack # <<>> /\ Running /\ Here.type \in {"assign", "constant"}
        /\ Len(Results) = Len(Order(Here)) /\ HasShape(Here, Operators)
        /\ \A j \in 1 .. Len(Results) : Results[j] \in Types
        /\ Here.type # "call" => Len(Results) = Steps(Here)
    BY AtFacts DEF DeclareTyped
  <1>2. Len(Results) = 2 /\ Len(Results) = Steps(Here)
    BY <1>1, OrderOf
  <1>3. Results[1] \in Types
    BY <1>1, <1>2
  <1>4. UNCHANGED <<program, table, typed, mishaps>> /\ Kind(Here, 1) = "typed" /\ Results[2] # "unknown"
    BY DEF DeclareTyped, Kind
  <1>5. CASE Here.type = "assign" /\ Results[1] = Results[2]
    <2>1. Return(Success(Results[1]))
      BY <1>5 DEF DeclareTyped
    <2>. QED
      BY <1>1, <1>2, <1>3, <1>4, <1>5, <2>1, AnswerPlain, ResultShapes DEF Return
  <1>6. CASE ~(Here.type = "assign" /\ Results[1] = Results[2])
    <2>1. Return(Failure)
      BY <1>6 DEF DeclareTyped
    <2>. QED
      BY <1>1, <1>4, <2>1, AnswerPlain, ResultShapes DEF Return, Types
  <1>. QED
    BY <1>5, <1>6

\* A function is marked as one.
LEMMA FunctionStep ==
    ASSUME MachineOK, Function
    PROVE  /\ Answers /\ DataKept /\ Here.type = "function"
           /\ UNCHANGED <<table, mishaps>>
           /\ Mark({Top.node}, "function")
           /\ returned' = Success("function")
  <1>1. stack # <<>> /\ Running /\ Here.type = "function" /\ Len(Results) = Steps(Here)
    BY AtFacts DEF Function
  <1>2. /\ UNCHANGED <<program, table, mishaps>> /\ "function" \in Types
        /\ Mark({Top.node}, "function") /\ Return(Success("function"))
    BY DEF Function, Types
  <1>. QED
    BY <1>1, <1>2, AnswerMarked

\* A call that stands alone has the type of the call.
LEMMA CallStatementStep ==
    ASSUME MachineOK, CallStatement
    PROVE  /\ Answers /\ DataKept /\ Here.type = "callStatement"
           /\ UNCHANGED <<table, mishaps>>
           /\ Mark({Top.node}, Results[1]) /\ Results[1] \in Types
           /\ returned' = Success(Results[1])
  <1>1. /\ stack # <<>> /\ Running /\ Here.type = "callStatement" /\ Len(Results) = Steps(Here)
        /\ HasShape(Here, Operators) /\ Len(Results) = Len(Order(Here))
        /\ \A j \in 1 .. Len(Results) : Results[j] \in Types
    BY AtFacts DEF CallStatement
  <1>2. Len(Results) = 1
    BY <1>1, OrderOf
  <1>3. Results[1] \in Types
    BY <1>1, <1>2
  <1>4. /\ UNCHANGED <<program, table, mishaps>>
        /\ Mark({Top.node}, Results[1]) /\ Return(Success(Results[1]))
    BY DEF CallStatement
  <1>. QED
    BY <1>1, <1>3, <1>4, AnswerMarked

UntypedKinds == {"parameters", "scope", "if", "while", "comment", "EOF"}

\* The other nodes are resolved as unknown.
LEMMA UntypedStep ==
    ASSUME MachineOK, Untyped
    PROVE  /\ Answers /\ DataKept /\ Here.type \in UntypedKinds
           /\ UNCHANGED <<table, typed, mishaps>>
           /\ returned' = Success("unknown")
  <1>1. /\ stack # <<>> /\ Running /\ Here.type \in UntypedKinds
        /\ Here.type # "call" => Len(Results) = Steps(Here)
    BY AtFacts DEF Untyped, UntypedKinds
  <1>2. UNCHANGED <<program, table, typed, mishaps>> /\ Return(Success("unknown")) /\ "unknown" \in Types
    BY DEF Untyped, Types
  <1>3. Len(Results) = Steps(Here)
    BY <1>1 DEF UntypedKinds
  <1>. QED
    BY <1>1, <1>2, <1>3, AnswerPlain, ResultShapes DEF Return

\* The name in a declaration and what it is told to be.
DeclaringName == Here.children[1].name
DeclaringType == Here.children[2].name

\* A name with a type was added, or refused and no one noticed.
NameAdded(its, read) ==
    /\ Found(table, DeclaringType) /\ its = SymbolOf(table, DeclaringType).type
    /\ ~Found(table, DeclaringName)
    /\ \/ TableAdds(DeclaringName, its, FALSE, Unwritten)
       \/ TableHolds /\ "refused" \in mishaps'
    /\ read = its \/ "stale" \in mishaps'
    /\ mishaps \subseteq mishaps'
    /\ Mark({Top.node, Child(Top.node, 1)}, read)
    /\ returned' = Success(read)

\* A name with a type is added to the table, or fails.
LEMMA TypeAssignmentStep ==
    ASSUME MachineOK, TypeAssignment
    PROVE  /\ Answers /\ DataKept /\ Here.type = "typed"
           /\ \/ /\ Kind(Here, 2) = "null"
                 /\ returned' = Success("unknown")
                 /\ UNCHANGED <<table, typed, mishaps>>
              \/ /\ Kind(Here, 2) # "null"
                 /\ returned'.outcome # "success"
                 /\ returned'.outcome = "crash" =>
                       Found(table, DeclaringName) /\ ~SymbolOf(table, DeclaringName).located
                 /\ ~Skipping
                 /\ UNCHANGED <<table, typed, mishaps>>
              \/ /\ Kind(Here, 2) # "null"
                 /\ \E its, read \in Types : NameAdded(its, read)
  <1>1. /\ PathsOK /\ StackOK /\ stack # <<>> /\ Running /\ Here.type = "typed"
        /\ HasShape(Here, Operators)
        /\ Here.type # "call" => Len(Results) = Steps(Here)
    BY AtFacts DEF TypeAssignment
  <1>2. Len(Results) = Steps(Here) /\ UNCHANGED program /\ ~Skipping
    BY <1>1 DEF TypeAssignment, Skipping
  <1>3. /\ Top.node \in Paths /\ Child(Top.node, 1) \in Paths
        /\ Top.node \o <<1>> = Child(Top.node, 1)
    BY <1>1, TopChildren, StatementKinds, ChildKinds DEF Child
  <1>4. CASE /\ Here.children[2].type = "null"
             /\ Return(Success("unknown"))
             /\ UNCHANGED <<table, typed, mishaps>>
    <2>1. "unknown" \in Types
      BY DEF Types
    <2>2. Answers /\ DataKept
      BY <1>1, <1>2, <1>4, <2>1, AnswerPlain, ResultShapes
    <2>. QED
      BY <1>1, <1>4, <2>2 DEF Kind, Return
  <1>5. CASE /\ Here.children[2].type # "null"
             /\ Return(Failure)
             /\ UNCHANGED <<table, typed, mishaps>>
    <2>1. Answers /\ DataKept /\ returned' = Failure
      BY <1>1, <1>2, <1>5, AnswerError DEF Return
    <2>. QED
      BY <1>1, <1>2, <1>5, <2>1, ResultShapes DEF Kind, Types
  <1>6. CASE /\ Here.children[2].type # "null"
             /\ Found(table, DeclaringName)
             /\ Complain(SymbolOf(table, DeclaringName))
             /\ UNCHANGED <<table, typed, mishaps>>
    <2>1. /\ \E result \in {Failure, Crash} : Return(result)
          /\ returned'.outcome # "success"
          /\ returned'.outcome = "crash" => ~SymbolOf(table, DeclaringName).located
      BY <1>6, Complaints
    <2>2. Answers /\ DataKept
      BY <1>1, <1>2, <1>6, <2>1, AnswerError
    <2>. QED
      BY <1>1, <1>2, <1>6, <2>1, <2>2 DEF Kind
  <1>7. ASSUME Here.children[2].type # "null",
               Found(table, DeclaringType), ~Found(table, DeclaringName),
               \E its \in {SymbolOf(table, DeclaringType).type} :
               \E added \in Added(table, Symbol(DeclaringName, TRUE, its, FALSE)) :
               \E read \in IF added.table.block = table.block THEN {its} ELSE Types :
                  /\ table' = added.table
                  /\ Mark({Top.node, Top.node \o << 1 >>}, read)
                  /\ Return(Success(read))
                  /\ mishaps' = mishaps \cup (IF added.ok THEN {} ELSE {"refused"})
                                        \cup (IF read = its THEN {} ELSE {"stale"})
        PROVE  Answers /\ DataKept /\ \E its, read \in Types : NameAdded(its, read)
    <2>1. PICK its : its = SymbolOf(table, DeclaringType).type
      OBVIOUS
    <2>2. PICK added \in Added(table, Symbol(DeclaringName, TRUE, its, FALSE)) :
             \E read \in IF added.table.block = table.block THEN {its} ELSE Types :
                  /\ table' = added.table
                  /\ Mark({Top.node, Top.node \o <<1>>}, read)
                  /\ Return(Success(read))
                  /\ mishaps' = mishaps \cup (IF added.ok THEN {} ELSE {"refused"})
                                        \cup (IF read = its THEN {} ELSE {"stale"})
      BY <1>7, <2>1
    <2>3. PICK read \in IF added.table.block = table.block THEN {its} ELSE Types :
                  /\ table' = added.table
                  /\ Mark({Top.node, Top.node \o <<1>>}, read)
                  /\ Return(Success(read))
                  /\ mishaps' = mishaps \cup (IF added.ok THEN {} ELSE {"refused"})
                                        \cup (IF read = its THEN {} ELSE {"stale"})
      BY <2>2
    <2>4. its \in Types
      BY <1>7, <2>1, FoundSymbol DEF MachineOK
    <2>5. read \in Types
      BY <2>3, <2>4
    <2>. DEFINE new == Symbol(DeclaringName, TRUE, its, FALSE)
    <2>6. /\ IsSymbol(new) /\ new.name = DeclaringName /\ new.located = TRUE /\ new.type = its
          /\ new.constant = FALSE /\ new.decl = Unwritten
      BY <2>4 DEF IsSymbol, Symbol
    <2>. HIDE DEF new
    <2>7. /\ added.ok \in BOOLEAN /\ Good(added.table)
          /\ added.ok => ~Found(table, new.name) /\ Held(added.table) = Held(table) \cup {new}
          /\ ~added.ok => Held(added.table) = Held(table)
      BY <2>2, <2>6, AddedHeld DEF new, MachineOK, TableOK
    <2>8. \/ TableHolds /\ "refused" \in mishaps'
          \/ TableAdds(DeclaringName, its, FALSE, Unwritten)
      <3>1. CASE added.ok
        BY <2>3, <2>6, <2>7, <3>1 DEF TableAdds
      <3>2. CASE ~added.ok
        BY <2>3, <2>7, <3>2 DEF TableHolds
      <3>. QED
        BY <3>1, <3>2
    <2>9. /\ mishaps \subseteq mishaps' /\ mishaps' \subseteq {"refused", "stale"}
          /\ read = its \/ "stale" \in mishaps'
      BY <2>3 DEF MachineOK, TypedOK
    <2>10. Mark({Top.node, Child(Top.node, 1)}, read) /\ Return(Success(read))
      BY <1>3, <2>3
    <2>11. returned' = Success(read)
      BY <2>10 DEF Return
    <2>12. NameAdded(its, read)
      BY <1>7, <2>1, <2>8, <2>9, <2>10, <2>11 DEF NameAdded
    <2>13. Pops
      BY <1>1, <1>2, <2>5, <2>10, ReturnPops, ResultShapes
    <2>14. Answers
      BY <1>1, <1>2, <2>13 DEF Answers
    <2>15. TypedOK'
      <3>1. {Top.node, Child(Top.node, 1)} \in SUBSET Paths
        BY <1>3
      <3>. QED
        BY <1>2, <2>5, <2>9, <2>10, <3>1, MarksKeepTypes DEF MachineOK
    <2>16. TableOK'
      BY <1>2, <2>8, TableKept DEF MachineOK
    <2>. QED
      BY <2>4, <2>5, <2>12, <2>14, <2>15, <2>16 DEF DataKept
  <1>. QED
    BY <1>1, <1>4, <1>5, <1>6, <1>7 DEF TypeAssignment, DeclaringName, DeclaringType, Kind

\* The name in the declaration an assignment or a constant makes.
NewName == Here.children[1].children[1].name

NameDeclared(type) ==
    /\ ~Found(table, NewName)
    /\ TableAdds(NewName, type, Here.type = "constant",
                 IF type = "function" THEN Child(Top.node, 2) ELSE Unwritten)
    /\ Mark({Child(Top.node, 1), Child(Child(Top.node, 1), 1), Top.node}, type)
    /\ returned' = Success(type)

\* So is a name that takes the type of its value.
LEMMA DeclareDeducedStep ==
    ASSUME MachineOK, DeclareDeduced
    PROVE  /\ Answers /\ DataKept
           /\ Here.type \in {"assign", "constant"} /\ Kind(Here, 1) = "typed"
           /\ UNCHANGED mishaps
           /\ Results[1] \in Types /\ Results[2] = "unknown"
           /\ \/ /\ returned'.outcome # "success"
                 /\ TableHolds
                 /\ returned'.outcome = "crash" =>
                       /\ Found(table, NewName) /\ ~SymbolOf(table, NewName).located
                       /\ UNCHANGED <<table, typed>>
                 /\ \/ UNCHANGED typed
                    \/ Mark({Child(Top.node, 1), Child(Child(Top.node, 1), 1)}, Results[1])
              \/ NameDeclared(Results[1])
  <1>1. /\ PathsOK /\ StackOK /\ stack # <<>> /\ Running /\ Here.type \in {"assign", "constant"}
        /\ Len(Results) = Len(Order(Here)) /\ HasShape(Here, Operators)
        /\ \A j \in 1 .. Len(Results) : Results[j] \in Types
        /\ Here.type # "call" => Len(Results) = Steps(Here)
    BY AtFacts DEF DeclareDeduced
  <1>2. Len(Results) = 2 /\ Len(Results) = Steps(Here)
    BY <1>1, OrderOf
  <1>3. PICK type \in Types : type = Results[1]
    BY <1>1, <1>2
  <1>4. /\ UNCHANGED <<program, mishaps>> /\ Kind(Here, 1) = "typed" /\ Results[2] = "unknown"
        /\ TableHolds <=> Good(table') /\ Held(table') = Held(table)
    BY DEF DeclareDeduced, Kind, TableHolds
  <1>5. /\ Top.node \in Paths /\ Child(Top.node, 1) \in Paths /\ Child(Top.node, 2) \in Paths
        /\ Child(Child(Top.node, 1), 1) \in Paths
        /\ Top.node \o <<1>> = Child(Top.node, 1)
        /\ Top.node \o <<1>> \o <<1>> = Child(Child(Top.node, 1), 1)
        /\ Top.node \o <<2>> = Child(Top.node, 2)
    <2>1. /\ DOMAIN Here.children = 1 .. 2
      BY <1>1, StatementKinds, ChildKinds
    <2>2. /\ Child(Top.node, 1) \in Paths /\ Child(Top.node, 2) \in Paths
          /\ NodeAt(Child(Top.node, 1)).type = "typed"
      BY <1>1, <1>4, <2>1, TopChildren
    <2>3. 1 \in DOMAIN NodeAt(Child(Top.node, 1)).children
      <3>1. HasShape(NodeAt(Child(Top.node, 1)), Operators)
        BY <1>1, <2>2 DEF PathsOK
      <3>. QED
        BY <2>2, <3>1, StatementKinds, ChildKinds
    <2>4. Child(Child(Top.node, 1), 1) \in Paths
      BY <1>1, <2>2, <2>3, ChildOf
    <2>. QED
      BY <1>1, <2>2, <2>4, TopChildren DEF Child
  <1>6. CASE /\ Found(table, NewName)
             /\ Complain(SymbolOf(table, NewName))
             /\ UNCHANGED <<table, typed>>
    <2>1. /\ \E result \in {Failure, Crash} : Return(result)
          /\ returned'.outcome # "success"
          /\ returned'.outcome = "crash" => ~SymbolOf(table, NewName).located
      BY <1>6, Complaints
    <2>2. Answers /\ DataKept
      BY <1>1, <1>4, <1>6, <2>1, AnswerError
    <2>3. TableHolds
      BY <1>4, <1>6 DEF MachineOK, TableOK
    <2>. QED
      BY <1>1, <1>3, <1>4, <1>6, <2>1, <2>2, <2>3
  <1>7. ASSUME ~Found(table, NewName),
               \E added \in Added(table, Symbol(NewName, TRUE, type, Here.type = "constant")) :
                \/ /\ ~added.ok
                   /\ table' = added.table
                   /\ Mark({Top.node \o << 1 >>, Top.node \o << 1 >> \o << 1 >>}, type)
                   /\ Return(Failure)
                \/ /\ added.ok
                   /\ table' = Completed(added.table, NewName, type, Top.node \o << 2 >>)
                   /\ Mark({Top.node \o << 1 >>, Top.node \o << 1 >> \o << 1 >>, Top.node}, type)
                   /\ Return(Success(type))
        PROVE  /\ Answers /\ DataKept
               /\ \/ /\ returned' = Failure
                     /\ TableHolds
                     /\ Mark({Child(Top.node, 1), Child(Child(Top.node, 1), 1)}, type)
                  \/ NameDeclared(type)
    <2>. DEFINE new == Symbol(NewName, TRUE, type, Here.type = "constant")
                value == Child(Top.node, 2)
    <2>1. PICK added \in Added(table, new) :
                \/ /\ ~added.ok
                   /\ table' = added.table
                   /\ Mark({Child(Top.node, 1), Child(Child(Top.node, 1), 1)}, type)
                   /\ Return(Failure)
                \/ /\ added.ok
                   /\ table' = Completed(added.table, NewName, type, value)
                   /\ Mark({Child(Top.node, 1), Child(Child(Top.node, 1), 1), Top.node}, type)
                   /\ Return(Success(type))
      BY <1>5, <1>7
    <2>2. /\ IsSymbol(new) /\ new.name = NewName /\ new.located = TRUE /\ new.type = type
          /\ new.constant = (Here.type = "constant") /\ new.decl = Unwritten
      BY <1>3 DEF IsSymbol, Symbol
    <2>. HIDE DEF new, value
    <2>3. /\ added.ok \in BOOLEAN /\ Good(added.table)
          /\ added.ok => ~Found(table, new.name) /\ Held(added.table) = Held(table) \cup {new}
          /\ ~added.ok => Held(added.table) = Held(table)
      BY <2>1, <2>2, AddedHeld DEF MachineOK, TableOK
    <2>4. CASE /\ ~added.ok
               /\ table' = added.table
               /\ Mark({Child(Top.node, 1), Child(Child(Top.node, 1), 1)}, type)
               /\ Return(Failure)
      <3>1. TableHolds /\ returned' = Failure
        BY <2>3, <2>4 DEF TableHolds, Return
      <3>2. Pops
        BY <1>1, <1>3, <1>4, <2>4, ReturnPops, ResultShapes
      <3>3. TableOK'
        BY <1>4, <3>1, TableKept DEF MachineOK
      <3>4. {Child(Top.node, 1), Child(Child(Top.node, 1), 1)} \in SUBSET Paths
        BY <1>5
      <3>5. TypedOK'
        BY <1>3, <1>4, <2>4, <3>4, MarksKeepTypes DEF MachineOK, TypedOK
      <3>. QED
        BY <1>1, <1>2, <2>4, <3>1, <3>2, <3>3, <3>5 DEF DataKept, Answers
    <2>5. CASE /\ added.ok
               /\ table' = Completed(added.table, NewName, type, value)
               /\ Mark({Child(Top.node, 1), Child(Child(Top.node, 1), 1), Top.node}, type)
               /\ Return(Success(type))
      <3>. DEFINE node == IF type = "function" THEN value ELSE Unwritten
      <3>1. TableAdds(NewName, type, Here.type = "constant", node)
        <4>1. CASE type # "function"
          <5>1. table' = added.table
            BY <2>5, <4>1 DEF Completed
          <5>. QED
            BY <2>2, <2>3, <2>5, <4>1, <5>1 DEF TableAdds
        <4>2. CASE type = "function"
          <5>1. table' = Declared(added.table, Index(added.table, NewName), value)
            BY <2>5, <4>2 DEF Completed
          <5>2. Found(added.table, NewName) /\ SymbolOf(added.table, NewName) = new
            <6>1. new \in Held(added.table)
              BY <2>3, <2>5
            <6>. QED
              BY <2>2, <2>3, <6>1, FoundHeld
          <5>3. /\ Good(table')
                /\ \E d : /\ Held(table') = (Held(added.table) \ {new}) \cup {d}
                          /\ d.name = new.name /\ d.located = new.located /\ d.type = new.type
                          /\ d.constant = new.constant /\ d.decl = value
            BY <2>3, <5>1, <5>2, DeclaredHeld
          <5>4. PICK d : /\ Held(table') = (Held(added.table) \ {new}) \cup {d}
                         /\ d.name = new.name /\ d.located = new.located /\ d.type = new.type
                         /\ d.constant = new.constant /\ d.decl = value
            BY <5>3
          <5>5. new \notin Held(table)
            BY <1>7, <2>2, FoundHeld DEF MachineOK, TableOK
          <5>6. Held(table') = Held(table) \cup {d}
            BY <2>3, <2>5, <5>4, <5>5
          <5>7. node = value
            BY <4>2
          <5>. QED
            BY <1>7, <2>2, <5>3, <5>4, <5>6, <5>7 DEF TableAdds
        <4>. QED
          BY <4>1, <4>2
      <3>2. node \in Paths \cup {Unwritten}
        BY <1>5 DEF value
      <3>3. TableOK'
        BY <1>4, <3>1, <3>2, TableKept DEF MachineOK
      <3>4. {Child(Top.node, 1), Child(Child(Top.node, 1), 1), Top.node} \in SUBSET Paths
        BY <1>5
      <3>5. TypedOK'
        BY <1>3, <1>4, <2>5, <3>4, MarksKeepTypes DEF MachineOK, TypedOK
      <3>6. Pops
        BY <1>1, <1>3, <1>4, <2>5, ReturnPops, ResultShapes
      <3>7. NameDeclared(type)
        BY <1>7, <2>5, <3>1 DEF NameDeclared, value, Return
      <3>. QED
        BY <1>1, <1>2, <3>3, <3>5, <3>6, <3>7 DEF DataKept, Answers
    <2>. QED
      BY <2>1, <2>4, <2>5
  <1>8. Failure.outcome = "failure"
    BY DEF Failure, Blame
  <1>9. \/ /\ Found(table, NewName)
           /\ Complain(SymbolOf(table, NewName))
           /\ UNCHANGED <<table, typed>>
        \/ /\ ~Found(table, NewName)
           /\ \E added \in Added(table, Symbol(NewName, TRUE, type, Here.type = "constant")) :
                \/ /\ ~added.ok
                   /\ table' = added.table
                   /\ Mark({Top.node \o <<1>>, Top.node \o <<1>> \o <<1>>}, type)
                   /\ Return(Failure)
                \/ /\ added.ok
                   /\ table' = Completed(added.table, NewName, type, Top.node \o <<2>>)
                   /\ Mark({Top.node \o <<1>>, Top.node \o <<1>> \o <<1>>, Top.node}, type)
                   /\ Return(Success(type))
    BY <1>3 DEF DeclareDeduced, NewName
  <1>. QED
    BY <1>1, <1>3, <1>4, <1>6, <1>7, <1>8, <1>9

\* What a node was typed as is a type.
LEMMA TypedInTypes ==
    ASSUME TypedOK, NEW p
    PROVE  Typed(p) \in Types
  BY DEF TypedOK, Typed, Types

\* The function whose call is resolved was declared with as many parameters.
CallMatches ==
    /\ Callee.type = "function"
    /\ Written
    /\ NodeAt(Callee.decl).children # <<>>
    /\ Parameters(NodeAt(Callee.decl).children[1]) = Len(Arguments)

\* The steps of a call are its name and its arguments.
LEMMA CallFacts ==
    ASSUME MachineOK, Running, Here.type = "call"
    PROVE  /\ PathsOK /\ StackOK /\ stack # <<>>
           /\ Top.node \in Paths /\ Top.node \in Numbers /\ HasShape(Here, Operators)
           /\ Results \in Seq(Types) /\ Len(Results) \in Nat /\ Len(Results) <= Steps(Here)
           /\ Len(Order(Here)) = 1 /\ Len(Arguments) \in Nat /\ Steps(Here) = 1 + Len(Arguments)
           /\ Arguments = <<>> <=> Len(Arguments) = 0
           /\ \A i \in 1 .. Len(Arguments) :
                 /\ Top.node \o <<2, i>> = Child(Child(Top.node, 2), i)
                 /\ StepPath(Top.node, i + 1) = Child(Child(Top.node, 2), i)
                 /\ NodeAt(Child(Child(Top.node, 2), i)) = Arguments[i]
  <1>1. PathsOK /\ StackOK /\ stack # <<>>
    BY PathsHold DEF MachineOK, Running
  <1>2. /\ Top.node \in Paths /\ Top.node \in Numbers /\ HasShape(Here, Operators)
        /\ Results \in Seq(Types) /\ Len(Results) \in Nat /\ Len(Results) <= Steps(Here)
    BY <1>1, TopFacts
  <1>3. NodeAt(Top.node) = Here
    BY DEF Here
  <1>4. /\ Order(Here) = <<1>>
        /\ Len(Arguments) \in Nat
        /\ DOMAIN Arguments = 1 .. Len(Arguments)
        /\ \A i \in DOMAIN Arguments : NodeAt(Child(Child(Top.node, 2), i)) = Arguments[i]
    BY <1>1, <1>2, <1>3, CallArguments DEF Arguments
  <1>5. Len(Order(Here)) = 1
    BY <1>4
  <1>6. Steps(Here) = 1 + Len(Arguments)
    BY <1>5 DEF Steps, Arguments
  <1>7. Arguments = <<>> <=> Len(Arguments) = 0
    <2>1. HasShape(NodeAt(Child(Top.node, 2)), Operators) /\ NodeAt(Child(Top.node, 2)) = Here.children[2]
      BY <1>1, <1>2, <1>3, CallArguments DEF PathsOK
    <2>2. Arguments \in Seq({Arguments[i] : i \in DOMAIN Arguments})
      BY <2>1 DEF HasShape, Arguments
    <2>. QED
      BY <2>2
  <1>8. ASSUME NEW i \in 1 .. Len(Arguments)
        PROVE  /\ Top.node \o <<2, i>> = Child(Child(Top.node, 2), i)
               /\ StepPath(Top.node, i + 1) = Child(Child(Top.node, 2), i)
    <2>1. i \in Nat /\ 2 \in Nat /\ ~(i + 1 <= 1) /\ (i + 1) - 1 = i
      BY <1>4
    <2>2. Top.node \o <<2, i>> = Child(Child(Top.node, 2), i)
      BY <1>2, <2>1, TwoSteps
    <2>. QED
      BY <1>3, <1>5, <2>1, <2>2 DEF StepPath
  <1>. QED
    BY <1>1, <1>2, <1>4, <1>5, <1>6, <1>7, <1>8

\* The next argument is entered.
LEMMA ArgumentEntered ==
    ASSUME MachineOK, Running, Here.type = "call", UNCHANGED <<program, table, typed, mishaps>>,
           Len(Results) \in 1 .. Len(Arguments), NEW i, i = Len(Results), Enter(<<2, i>>)
    PROVE  PushesOnly /\ DataKept
  <1>1. /\ PathsOK /\ StackOK
        /\ Len(Results) \in Nat /\ Steps(Here) = 1 + Len(Arguments) /\ Len(Arguments) \in Nat
        /\ \A j \in 1 .. Len(Arguments) :
                 /\ Top.node \o <<2, j>> = Child(Child(Top.node, 2), j)
                 /\ StepPath(Top.node, j + 1) = Child(Child(Top.node, 2), j)
    BY CallFacts
  <1>2. Top.node \o <<2, i>> = StepPath(Top.node, Len(Results) + 1) /\ Len(Results) < Steps(Here)
    BY <1>1
  <1>3. PICK steps : steps = <<2, i>>
    OBVIOUS
  <1>4. \E n, got : Pushes(n, got)
    BY <1>1, <1>2, <1>3, EnterPushes
  <1>5. DataKept
    BY DataSame DEF Grows
  <1>. QED
    BY <1>4, <1>5 DEF PushesOnly

\* A call whose name was resolved counts its arguments.
LEMMA CallStep ==
    ASSUME MachineOK, Call
    PROVE  /\ DataKept /\ Running /\ Here.type = "call" /\ Len(Results) = 1
           /\ UNCHANGED <<program, table, typed, mishaps>>
           /\ \/ Answers /\ returned'.outcome = "failure"
              \/ /\ Answers /\ returned'.outcome = "crash"
                 /\ Callee.type = "function"
                 /\ Written => NodeAt(Callee.decl).children = <<>>
              \/ ~Written /\ (Answers \/ PushesOnly)
              \/ /\ CallMatches
                 /\ \/ /\ Answers /\ Len(Arguments) = 0
                       /\ returned' = Success(CallType(Callee.decl))
                    \/ PushesOnly
  <1>1. stack # <<>> /\ Running /\ Here.type = "call" /\ Len(Results) = Len(Order(Here))
    BY AtFacts DEF Call
  <1>2. /\ Len(Order(Here)) = 1 /\ Len(Arguments) \in Nat /\ Steps(Here) = 1 + Len(Arguments)
        /\ Arguments = <<>> <=> Len(Arguments) = 0
    BY <1>1, CallFacts
  <1>3. Len(Results) = 1 /\ UNCHANGED <<program, table, typed, mishaps>>
    BY <1>1, <1>2 DEF Call
  <1>4. CASE Return(Failure)
    BY <1>1, <1>3, <1>4, AnswerError, ResultShapes DEF Return, Types
  <1>5. CASE /\ Callee.type = "function"
             /\ Written => NodeAt(Callee.decl).children = <<>>
             /\ Return(Crash)
    <2>1. returned'.outcome = "crash"
      BY <1>5 DEF Return, Crash
    <2>2. Answers /\ DataKept
      BY <1>1, <1>3, <1>5, AnswerError
    <2>. QED
      BY <1>1, <1>3, <1>5, <2>1, <2>2
  <1>6. ASSUME NEW type \in CallTypes, Arguments = <<>>, Return(Success(type))
        PROVE  Answers /\ DataKept /\ Len(Arguments) = 0 /\ returned' = Success(type)
    <2>1. type \in Types
      BY <1>6, TypedInTypes DEF MachineOK, CallTypes, CallType
    <2>2. Len(Results) = Steps(Here)
      BY <1>2, <1>3, <1>6
    <2>3. Answers /\ DataKept
      BY <1>1, <1>3, <1>6, <2>1, <2>2, AnswerPlain, ResultShapes
    <2>. QED
      BY <1>2, <1>6, <2>3 DEF Return
  <1>7. ASSUME Arguments # <<>>, Enter(<<2, 1>>)
        PROVE  PushesOnly /\ DataKept
    <2>1. Len(Results) \in 1 .. Len(Arguments)
      BY <1>2, <1>3, <1>7
    <2>. QED
      BY <1>1, <1>3, <1>7, <2>1, ArgumentEntered
  <1>8. \/ Return(Failure)
        \/ /\ Callee.type = "function"
           /\ Written => NodeAt(Callee.decl).children = <<>>
           /\ Return(Crash)
        \/ /\ Callee.type = "function"
           /\ Written => CallMatches
           /\ IF Arguments = <<>>
              THEN \E type \in CallTypes : Return(Success(type)) ELSE Enter(<<2, 1>>)
    BY DEF Call, CallMatches
  <1>9. CASE /\ Written => CallMatches
             /\ IF Arguments = <<>>
                THEN \E type \in CallTypes : Return(Success(type)) ELSE Enter(<<2, 1>>)
    <2>1. \/ \E type \in CallTypes :
                Answers /\ DataKept /\ Len(Arguments) = 0 /\ returned' = Success(type)
          \/ PushesOnly /\ DataKept
      BY <1>6, <1>7, <1>9
    <2>2. CASE Written
      <3>1. CallTypes = {CallType(Callee.decl)}
        BY <2>2 DEF CallTypes
      <3>. QED
        BY <1>1, <1>3, <1>9, <2>1, <2>2, <3>1
    <2>3. CASE ~Written
      BY <1>1, <1>3, <2>1, <2>3
    <2>. QED
      BY <2>2, <2>3
  <1>. QED
    BY <1>4, <1>5, <1>8, <1>9

\* A call compares the argument that was resolved.
LEMMA ArgumentStep ==
    ASSUME MachineOK, Argument
    PROVE  LET i == Len(Results) - 1 IN
           /\ DataKept /\ Running /\ Here.type = "call" /\ i \in 1 .. Len(Arguments)
           /\ UNCHANGED <<program, table, typed, mishaps>>
           /\ \/ Answers /\ returned'.outcome = "failure"
              \/ ~Written /\ (Answers \/ PushesOnly)
              \/ /\ Written
                 /\ Typed(Callee.decl \o <<1, i>>) = Typed(Child(Child(Top.node, 2), i))
                 /\ \/ /\ Answers /\ i = Len(Arguments)
                       /\ returned' = Success(CallType(Callee.decl))
                    \/ PushesOnly
  <1>1. /\ Running /\ Here.type = "call" /\ stack # <<>>
        /\ UNCHANGED <<program, table, typed, mishaps>>
    BY DEF Argument, Running
  <1>2. PICK i : i = Len(Results) - 1
    OBVIOUS
  <1>3. /\ Len(Results) \in Nat /\ Len(Results) <= Steps(Here)
        /\ Len(Arguments) \in Nat /\ Steps(Here) = 1 + Len(Arguments)
        /\ \A j \in 1 .. Len(Arguments) :
                 Top.node \o <<2, j>> = Child(Child(Top.node, 2), j)
    BY <1>1, CallFacts
  <1>4. i \in 1 .. Len(Arguments) /\ Len(Results) = i + 1
    BY <1>2, <1>3 DEF Argument
  <1>5. Top.node \o <<2, i>> = Child(Child(Top.node, 2), i)
    BY <1>3, <1>4
  <1>6. \/ Return(Blame(Arguments[i].type # "call"))
        \/ ~Written /\ Return(Crash)
        \/ /\ Written => Typed(Callee.decl \o <<1, i>>) = Typed(Child(Child(Top.node, 2), i))
           /\ IF i = Len(Arguments)
              THEN \E type \in CallTypes : Return(Success(type)) ELSE Enter(<<2, i + 1>>)
    BY <1>2, <1>5 DEF Argument
  <1>7. CASE Return(Blame(Arguments[i].type # "call"))
    <2>1. (Arguments[i].type # "call") \in BOOLEAN
      OBVIOUS
    <2>2. PICK located \in BOOLEAN : Return(Blame(located))
      BY <1>7, <2>1
    <2>3. /\ Blame(located) \in [outcome : Outcomes \ {"none"}, type : Types, located : BOOLEAN]
          /\ Blame(located).outcome = "failure"
      BY ResultShapes DEF Types
    <2>. QED
      BY <1>1, <1>2, <1>4, <2>2, <2>3, AnswerPlain DEF Return
  <1>8. CASE ~Written /\ Return(Crash)
    <2>1. Answers /\ DataKept
      BY <1>1, <1>8, AnswerError
    <2>. QED
      BY <1>1, <1>2, <1>4, <1>8, <2>1
  <1>9. ASSUME NEW type \in CallTypes, i = Len(Arguments), Return(Success(type))
        PROVE  Answers /\ DataKept /\ returned' = Success(type)
    <2>1. type \in Types
      BY <1>9, TypedInTypes DEF MachineOK, CallTypes, CallType
    <2>2. Len(Results) = Steps(Here)
      BY <1>3, <1>4, <1>9
    <2>3. Answers /\ DataKept
      BY <1>1, <1>9, <2>1, <2>2, AnswerPlain, ResultShapes
    <2>. QED
      BY <1>9, <2>3 DEF Return
  <1>10. ASSUME i # Len(Arguments), Enter(<<2, i + 1>>)
         PROVE  PushesOnly /\ DataKept
    <2>1. Len(Results) \in 1 .. Len(Arguments) /\ i + 1 = Len(Results)
      BY <1>3, <1>4, <1>10
    <2>. QED
      BY <1>1, <1>10, <2>1, ArgumentEntered
  <1>11. CASE /\ Written => Typed(Callee.decl \o <<1, i>>) = Typed(Child(Child(Top.node, 2), i))
              /\ IF i = Len(Arguments)
                 THEN \E type \in CallTypes : Return(Success(type)) ELSE Enter(<<2, i + 1>>)
    <2>1. \/ \E type \in CallTypes :
                Answers /\ DataKept /\ i = Len(Arguments) /\ returned' = Success(type)
          \/ PushesOnly /\ DataKept
      BY <1>9, <1>10, <1>11
    <2>2. CASE Written
      <3>1. CallTypes = {CallType(Callee.decl)}
        BY <2>2 DEF CallTypes
      <3>. QED
        BY <1>1, <1>2, <1>4, <1>11, <2>1, <2>2, <3>1
    <2>3. CASE ~Written
      BY <1>1, <1>2, <1>4, <2>1, <2>3
    <2>. QED
      BY <2>2, <2>3
  <1>. QED
    BY <1>6, <1>7, <1>8, <1>11

\* A step pushes or pops a frame; in the second case a node is done, or an
\* error is handed on.
LEMMA StepKinds ==
    ASSUME MachineOK, Step
    PROVE  DataKept /\ (PushesOnly \/ Answers \/ ChildFailed)
  <1>1. CASE ResolveChild
    BY <1>1, ResolveChildStep
  <1>2. CASE ResolveStatement
    BY <1>2, ResolveStatementStep
  <1>3. CASE ChildFailed
    BY <1>3, ChildFailedStep
  <1>4. CASE Literal
    BY <1>4, LiteralStep
  <1>5. CASE Operator
    BY <1>5, OperatorStep
  <1>6. CASE Identifier
    BY <1>6, IdentifierStep
  <1>7. CASE TypeAssignment
    BY <1>7, TypeAssignmentStep
  <1>8. CASE AssignVariable
    BY <1>8, AssignVariableStep
  <1>9. CASE DeclareDeduced
    BY <1>9, DeclareDeducedStep
  <1>10. CASE DeclareTyped
    BY <1>10, DeclareTypedStep
  <1>11. CASE Function
    BY <1>11, FunctionStep
  <1>12. CASE Call
    BY <1>12, CallStep
  <1>13. CASE Argument
    BY <1>13, ArgumentStep
  <1>14. CASE CallStatement
    BY <1>14, CallStatementStep
  <1>15. CASE Untyped
    BY <1>15, UntypedStep
  <1>. QED
    BY <1>1, <1>2, <1>3, <1>4, <1>5, <1>6, <1>7, <1>8, <1>9, <1>10, <1>11, <1>12, <1>13,
       <1>14, <1>15 DEF Step

\* Every step keeps the machine in shape.
LEMMA MachineKept ==
    ASSUME MachineOK, Step
    PROVE  MachineOK'
  <1>1. PathsOK /\ ProgramOK /\ StackOK
    BY PathsHold DEF MachineOK
  <1>2. DataKept /\ (PushesOnly \/ Answers \/ ChildFailed)
    BY StepKinds
  <1>3. CASE PushesOnly
    <2>1. PICK n, got : Pushes(n, got)
      BY <1>3 DEF PushesOnly
    <2>2. StackOK' /\ ProgramOK'
      BY <1>1, <2>1, PushesKeepStack, ProgramGrows DEF Pushes
    <2>. QED
      BY <1>2, <2>2 DEF MachineOK, DataKept
  <1>4. CASE Pops
    <2>1. StackOK' /\ ProgramOK'
      BY <1>1, <1>4, PopsKeepStack DEF Pops, ProgramOK
    <2>. QED
      BY <1>2, <2>1 DEF MachineOK, DataKept
  <1>. QED
    BY <1>2, <1>3, <1>4, ChildFailedStep DEF Answers

\* It is in shape at the start.
LEMMA MachineStarts == Init => MachineOK
  <1>. SUFFICES ASSUME Init PROVE MachineOK
    OBVIOUS
  <1>1. ProgramOK
    <2>1. <<>> \in Seq(Statements)
      OBVIOUS
    <2>. QED
      BY <2>1 DEF Init, ProgramOK
  <1>2. PathsOK
    BY <1>1, PathsHold
  <1>3. TypedOK
    <2>1. typed = <<>> /\ mishaps = {}
      BY DEF Init
    <2>2. typed \in Seq(Types) /\ Len(typed) = 0
      BY <2>1
    <2>3. typed \in [1 .. Len(typed) -> Types] /\ DOMAIN typed = 1 .. Len(typed)
      BY <2>2, LenProperties
    <2>. QED
      BY <2>1, <2>2, <2>3 DEF TypedOK
  <1>4. TableOK
    <2>1. table \in Created(FloatSymbol, IntSymbol)
      BY DEF Init, FloatSymbol, IntSymbol
    <2>2. Good(table) /\ Held(table) \subseteq {FloatSymbol, IntSymbol}
      BY <2>1, CreatedHeld
    <2>3. FloatSymbol.decl = Unwritten /\ IntSymbol.decl = Unwritten
      BY DEF FloatSymbol, IntSymbol, Builtin, Symbol
    <2>. QED
      BY <2>2, <2>3 DEF TableOK
  <1>5. StackOK
    <2>. DEFINE first == [node |-> <<>>, got |-> <<>>]
    <2>1. first \in Frames /\ first.node = <<>> /\ first.got = <<>>
      BY <1>2 DEF Frames, PathsOK
    <2>2. Steps(NodeAt(<<>>)) \in Nat
      BY <1>2, StepFacts DEF PathsOK
    <2>3. stack = <<first>> /\ returned = Pending
      BY DEF Init
    <2>. HIDE DEF first
    <2>4. /\ stack \in Seq(Frames) /\ Len(stack) = 1 /\ stack[1] = first /\ stack # <<>>
      BY <2>1, <2>3
    <2>5. returned \in [outcome : Outcomes, type : Types, located : BOOLEAN] /\ returned.outcome = "none"
      BY <2>3 DEF Pending, Outcomes, Types
    <2>. QED
      BY <2>1, <2>2, <2>4, <2>5 DEF StackOK
  <1>. QED
    BY <1>1, <1>3, <1>4, <1>5 DEF MachineOK

\* Whatever is resolved, whatever malloc answers: the frames are on the way to
\* a node of the tree, each waiting for the next; the table has one symbol of
\* a name; types are set on nodes of the tree (type_info.c:35-354).
THEOREM MachineSafe == Spec => []MachineOK
  <1>1. MachineOK /\ [Next]_vars => MachineOK'
    <2>1. ASSUME MachineOK, UNCHANGED vars PROVE MachineOK'
      <3>1. UNCHANGED <<program, table, typed, stack, returned, mishaps>>
        BY <2>1 DEF vars
      <3>2. ProgramOK'
        BY <2>1, <3>1 DEF MachineOK, ProgramOK
      <3>3. /\ Paths' = Paths
            /\ \A p : NodeAt(p)' = NodeAt(p)
            /\ \A p, j : StepPath(p, j)' = StepPath(p, j)
        BY <3>1, PathsSame
      <3>4. StackOK'
        <4>1. StackOK /\ Frames' = Frames /\ \A k : StepsLeft(k)' = StepsLeft(k)
          BY <2>1, <3>1, <3>3 DEF MachineOK, Frames, StepsLeft
        <4>. QED
          BY <3>1, <3>3, <4>1 DEF StackOK
      <3>5. TypedOK'
        BY <2>1, <3>1, <3>3 DEF MachineOK, TypedOK
      <3>6. TableOK'
        BY <2>1, <3>1, <3>3 DEF MachineOK, TableOK
      <3>. QED
        BY <3>2, <3>4, <3>5, <3>6 DEF MachineOK
    <2>. QED
      BY <2>1, MachineKept DEF Next, Finished
  <1>. QED
    BY <1>1, MachineStarts, PTL DEF Spec

\* A machine in shape has the types that are checked.
LEMMA MachineTypes == MachineOK => TypeOK
  <1>. SUFFICES ASSUME MachineOK PROVE TypeOK
    OBVIOUS
  <1>1. table.size \in 0 .. table.capacity
    BY DEF MachineOK, TableOK, Good, Shaped
  <1>2. ASSUME NEW i \in 0 .. table.size - 1
        PROVE  /\ table.buffer[i].type \in Types
               /\ table.buffer[i].decl # Unwritten => table.buffer[i].decl \in Paths
    <2>1. table.buffer[i] \in Held(table) /\ IsSymbol(table.buffer[i])
      BY DEF MachineOK, TableOK, Good, Held, Counted
    <2>. QED
      BY <2>1 DEF IsSymbol, MachineOK, TableOK
  <1>3. \A i \in DOMAIN stack : stack[i].node \in Paths
    <2>1. stack \in Seq(Frames)
      BY DEF MachineOK, StackOK
    <2>2. \A i \in DOMAIN stack : stack[i] \in Frames
      BY <2>1
    <2>. QED
      BY <2>2 DEF Frames
  <1>4. returned \in [outcome : {"none", "success", "failure", "crash"}, type : Types,
                      located : BOOLEAN]
    BY DEF MachineOK, StackOK, Outcomes
  <1>. QED
    BY <1>1, <1>2, <1>3, <1>4 DEF TypeOK, MachineOK, TypedOK

\* The table, the frames and the types that were set keep their types.
THEOREM TypeSafe == Spec => []TypeOK
  BY MachineSafe, MachineTypes, PTL

-----------------------------------------------------------------------------
\* The nodes that were resolved, as the frames know them: with their results.

Reached(k) ==
    Len(stack[k].got) + IF k = Len(stack) /\ returned.outcome = "success" THEN 1 ELSE 0

Got(k, j) == IF j <= Len(stack[k].got) THEN stack[k].got[j] ELSE returned.type

\* The node at p was resolved with that type, and its frame's caller still runs.
Resolved(p, type) ==
    \E k \in 1 .. Len(stack) : \E j \in 1 .. Reached(k) :
       p = StepPath(stack[k].node, j) /\ type = Got(k, j)

\* The results of a frame are no more than its steps.
LEMMA ReachedSteps ==
    ASSUME MachineOK, NEW k \in 1 .. Len(stack)
    PROVE  /\ stack[k].node \in Paths
           /\ Len(stack[k].got) \in Nat
           /\ stack[k].got \in Seq(Types)
           /\ Reached(k) \in Nat /\ Reached(k) <= Steps(NodeAt(stack[k].node))
           /\ Steps(NodeAt(stack[k].node)) \in Nat
           /\ k < Len(stack) => Reached(k) = Len(stack[k].got)
  <1>1. /\ PathsOK /\ StackOK
    BY PathsHold DEF MachineOK
  <1>2. stack[k] \in Frames /\ Len(stack) \in Nat
    BY <1>1 DEF StackOK
  <1>3. /\ stack[k].node \in Paths /\ stack[k].got \in Seq(Types) /\ Len(stack[k].got) \in Nat
    BY <1>2 DEF Frames
  <1>4. Steps(NodeAt(stack[k].node)) \in Nat
    BY <1>1, <1>3, StepFacts
  <1>5. Len(stack[k].got) <= Steps(NodeAt(stack[k].node))
    BY <1>1 DEF StackOK
  <1>6. CASE k = Len(stack) /\ returned.outcome = "success"
    <2>1. StepsLeft(k)
      BY <1>1, <1>6 DEF StackOK
    <2>2. Reached(k) = Len(stack[k].got) + 1
      BY <1>6 DEF Reached
    <2>. QED
      BY <1>2, <1>3, <1>4, <1>6, <2>1, <2>2 DEF StepsLeft
  <1>7. CASE ~(k = Len(stack) /\ returned.outcome = "success")
    <2>1. (IF k = Len(stack) /\ returned.outcome = "success" THEN 1 ELSE 0) = 0
      BY <1>7
    <2>2. Reached(k) = Len(stack[k].got) + 0
      BY <2>1 DEF Reached
    <2>. QED
      BY <1>3, <1>4, <1>5, <2>2
  <1>. QED
    BY <1>6, <1>7

\* What was resolved are nodes of the program.
LEMMA ResolvedNodes ==
    ASSUME MachineOK, NEW p, NEW type, Resolved(p, type)
    PROVE  p \in Paths /\ type \in Types
  <1>1. PathsOK /\ StackOK
    BY PathsHold DEF MachineOK
  <1>2. PICK k \in 1 .. Len(stack) : \E j \in 1 .. Reached(k) :
           p = StepPath(stack[k].node, j) /\ type = Got(k, j)
    BY DEF Resolved
  <1>3. PICK j \in 1 .. Reached(k) : p = StepPath(stack[k].node, j) /\ type = Got(k, j)
    BY <1>2
  <1>4. /\ stack[k].node \in Paths /\ stack[k].got \in Seq(Types)
        /\ Reached(k) \in Nat /\ Reached(k) <= Steps(NodeAt(stack[k].node))
        /\ Steps(NodeAt(stack[k].node)) \in Nat
    BY ReachedSteps
  <1>5. j \in 1 .. Steps(NodeAt(stack[k].node))
    BY <1>4
  <1>6. p \in Paths
    BY <1>1, <1>3, <1>4, <1>5, StepFacts
  <1>7. type \in Types
    <2>1. returned.type \in Types
      BY <1>1 DEF StackOK
    <2>2. CASE j <= Len(stack[k].got)
      <3>1. j \in 1 .. Len(stack[k].got)
        BY <1>4, <2>2
      <3>. QED
        BY <1>3, <1>4, <2>2, <3>1 DEF Got
    <2>. QED
      BY <1>3, <2>1, <2>2 DEF Got
  <1>. QED
    BY <1>6, <1>7

\* What the function that runs has of its node's children.
LEMMA ResultsResolved ==
    ASSUME MachineOK, Running
    PROVE  \A j \in 1 .. Len(Results) : Resolved(StepPath(Top.node, j), Results[j])
  <1>1. /\ PathsOK /\ StackOK /\ stack # <<>>
    BY PathsHold DEF MachineOK, Running
  <1>2. PICK m : m = Len(stack)
    OBVIOUS
  <1>3. /\ m \in Nat /\ m > 0 /\ Top = stack[m]
        /\ Len(Top.got) \in Nat
        /\ Len(Results) = Len(Top.got) + IF returned.outcome = "success" THEN 1 ELSE 0
        /\ \A j \in 1 .. Len(Top.got) : Results[j] = Top.got[j]
        /\ returned.outcome = "success" => Results[Len(Results)] = returned.type
    BY <1>1, <1>2, TopFacts
  <1>4. Reached(m) = Len(Results)
    BY <1>2, <1>3 DEF Reached
  <1>5. ASSUME NEW j \in 1 .. Len(Results) PROVE Results[j] = Got(m, j)
    <2>1. CASE j <= Len(Top.got)
      <3>1. j \in 1 .. Len(Top.got)
        BY <1>3, <2>1
      <3>. QED
        BY <1>3, <2>1, <3>1 DEF Got
    <2>2. CASE ~(j <= Len(Top.got))
      <3>1. returned.outcome = "success" /\ j = Len(Results)
        <4>1. CASE returned.outcome = "success"
          <5>1. Len(Results) = Len(Top.got) + 1
            BY <1>3, <4>1
          <5>. QED
            BY <1>3, <2>2, <4>1, <5>1
        <4>2. CASE returned.outcome # "success"
          <5>1. Len(Results) = Len(Top.got) /\ Len(Top.got) \in Nat
            BY <1>3, <4>2
          <5>2. j \in 1 .. Len(Top.got)
            BY <5>1
          <5>. QED
            BY <2>2, <5>1, <5>2
        <4>. QED
          BY <4>1, <4>2
      <3>. QED
        BY <1>3, <2>2, <3>1 DEF Got
    <2>. QED
      BY <2>1, <2>2
  <1>6. m \in 1 .. Len(stack)
    BY <1>2, <1>3
  <1>. QED
    BY <1>3, <1>4, <1>5, <1>6 DEF Resolved

\* A call resolves nothing and forgets nothing.
LEMMA PushesResolve ==
    ASSUME MachineOK, NEW n, NEW got, Pushes(n, got), NEW p, NEW type
    PROVE  Resolved(p, type)' <=> Resolved(p, type)
  <1>1. /\ PathsOK /\ StackOK /\ stack # <<>> /\ Running /\ n = Top.node /\ got = Results
        /\ returned'.outcome = "none"
    BY PathsHold DEF MachineOK, Pushes, Running, Pending
  <1>2. PICK m : m = Len(stack)
    OBVIOUS
  <1>3. /\ m \in Nat /\ m > 0 /\ Len(got) \in Nat
        /\ Len(stack') = m + 1
        /\ \A k \in 1 .. m - 1 : stack'[k] = stack[k]
        /\ stack'[m].node = n /\ stack'[m].got = got
        /\ stack'[m + 1].got = <<>>
    BY <1>2, PushedFrames DEF MachineOK
  <1>4. /\ Top = stack[m] /\ Len(Top.got) \in Nat
        /\ Len(Results) = Len(Top.got) + IF returned.outcome = "success" THEN 1 ELSE 0
        /\ \A j \in 1 .. Len(Top.got) : Results[j] = Top.got[j]
        /\ returned.outcome = "success" => Results[Len(Results)] = returned.type
    BY <1>1, <1>2, TopFacts
  <1>5. /\ Reached(m) = Len(got)
        /\ \A k \in 1 .. m - 1 : Reached(k) = Len(stack[k].got)
        /\ \A k \in 1 .. m : k \in 1 .. Len(stack) /\ Reached(k) \in Nat
                             /\ stack[k].node \in Paths
                             /\ Reached(k) <= Steps(NodeAt(stack[k].node))
                             /\ Steps(NodeAt(stack[k].node)) \in Nat
    <2>1. \A k \in 1 .. m : k \in 1 .. Len(stack)
      BY <1>2
    <2>2. Reached(m) = Len(got)
      BY <1>1, <1>2, <1>4 DEF Reached
    <2>3. \A k \in 1 .. m - 1 : k \in 1 .. Len(stack) /\ k < Len(stack)
      BY <1>2, <1>3
    <2>. QED
      BY <2>1, <2>2, <2>3, ReachedSteps
  <1>6. /\ \A k \in 1 .. m : Reached(k)' = Reached(k)
        /\ Reached(m + 1)' = 0
    <2>1. \A k \in 1 .. m - 1 : Reached(k)' = Len(stack[k].got)
      BY <1>1, <1>3, <1>5 DEF Reached
    <2>2. Reached(m)' = Len(got)
      BY <1>1, <1>3 DEF Reached
    <2>3. Reached(m + 1)' = 0
      BY <1>1, <1>3 DEF Reached
    <2>4. \A k \in 1 .. m : k = m \/ k \in 1 .. m - 1
      BY <1>3
    <2>. QED
      BY <1>5, <2>1, <2>2, <2>3, <2>4
  <1>7. \A k \in 1 .. m : stack'[k].node = stack[k].node
    BY <1>1, <1>3, <1>4
  <1>8. ASSUME NEW k \in 1 .. m, NEW j \in 1 .. Reached(k)
        PROVE  Got(k, j)' = Got(k, j)
    <2>1. CASE k \in 1 .. m - 1
      <3>1. j <= Len(stack[k].got) /\ stack'[k] = stack[k]
        BY <1>3, <1>5, <2>1
      <3>. QED
        BY <3>1 DEF Got
    <2>2. CASE k = m
      <3>1. j \in 1 .. Len(got) /\ j <= Len(got)
        BY <1>3, <1>5, <2>2
      <3>2. Got(k, j)' = got[j]
        BY <1>3, <2>2, <3>1 DEF Got
      <3>3. CASE j <= Len(Top.got)
        <4>1. j \in 1 .. Len(Top.got)
          BY <1>4, <3>1, <3>3
        <4>. QED
          BY <1>1, <1>4, <2>2, <3>2, <3>3, <4>1 DEF Got
      <3>4. CASE ~(j <= Len(Top.got))
        <4>1. returned.outcome = "success" /\ j = Len(Results)
          <5>1. CASE returned.outcome = "success"
            <6>1. Len(got) = Len(Top.got) + 1
              BY <1>1, <1>4, <5>1
            <6>. QED
              BY <1>1, <1>4, <3>1, <3>4, <5>1, <6>1
          <5>2. CASE returned.outcome # "success"
            <6>1. Len(got) = Len(Top.got)
              BY <1>1, <1>4, <5>2
            <6>. QED
              BY <1>1, <1>4, <3>1, <3>4, <6>1
          <5>. QED
            BY <5>1, <5>2
        <4>. QED
          BY <1>1, <1>4, <2>2, <3>2, <3>4, <4>1 DEF Got
      <3>. QED
        BY <3>3, <3>4
    <2>. QED
      BY <1>3, <2>1, <2>2
  <1>9. ASSUME NEW k \in 1 .. m, NEW j \in 1 .. Reached(k)
        PROVE  StepPath(stack[k].node, j)' = StepPath(stack[k].node, j)
    <2>1. PICK q : q = stack[k].node
      OBVIOUS
    <2>2. q \in Paths /\ j \in 1 .. Steps(NodeAt(q))
      BY <1>5, <2>1
    <2>3. StepPath(q, j)' = StepPath(q, j)
      BY <2>2, StepsKept DEF Pushes, MachineOK
    <2>. QED
      BY <1>7, <2>1, <2>3
  <1>10. ASSUME Resolved(p, type) PROVE Resolved(p, type)'
    <2>1. PICK k \in 1 .. m : \E j \in 1 .. Reached(k) :
             p = StepPath(stack[k].node, j) /\ type = Got(k, j)
      BY <1>2, <1>10 DEF Resolved
    <2>2. PICK j \in 1 .. Reached(k) : p = StepPath(stack[k].node, j) /\ type = Got(k, j)
      BY <2>1
    <2>3. p = StepPath(stack[k].node, j)' /\ type = Got(k, j)'
      BY <1>8, <1>9, <2>2
    <2>4. k \in 1 .. Len(stack') /\ j \in 1 .. Reached(k)'
      BY <1>3, <1>6
    <2>. QED
      BY <2>3, <2>4 DEF Resolved
  <1>11. ASSUME Resolved(p, type)' PROVE Resolved(p, type)
    <2>1. PICK k \in 1 .. m + 1 : \E j \in 1 .. Reached(k)' :
             p = StepPath(stack[k].node, j)' /\ type = Got(k, j)'
      BY <1>3, <1>11 DEF Resolved
    <2>2. PICK j \in 1 .. Reached(k)' : p = StepPath(stack[k].node, j)' /\ type = Got(k, j)'
      BY <2>1
    <2>3. k \in 1 .. m
      BY <1>3, <1>6, <2>2
    <2>4. j \in 1 .. Reached(k)
      BY <1>6, <2>3
    <2>5. p = StepPath(stack[k].node, j) /\ type = Got(k, j)
      BY <1>8, <1>9, <2>2, <2>3, <2>4
    <2>. QED
      BY <1>2, <2>3, <2>4, <2>5 DEF Resolved
  <1>. QED
    BY <1>10, <1>11

\* A return resolves the node it was called for, if it succeeds, and forgets
\* what was below it.
LEMMA PopsResolve ==
    ASSUME MachineOK, Pops, NEW p, NEW type
    PROVE  /\ Resolved(p, type)' =>
                 \/ Resolved(p, type)
                 \/ p = Top.node /\ type = returned'.type /\ returned'.outcome = "success"
           /\ /\ stack' # <<>> /\ returned'.outcome = "success"
              /\ p = Top.node /\ type = returned'.type
              => Resolved(p, type)'
           /\ Resolved(p, type) => \/ Resolved(p, type)'
                                   \/ \E j \in 1 .. Reached(Len(stack)) : p = StepPath(Top.node, j)
  <1>1. /\ PathsOK /\ StackOK /\ stack # <<>> /\ UNCHANGED program
    BY PathsHold DEF MachineOK, Pops
  <1>2. PICK m : m = Len(stack)
    OBVIOUS
  <1>3. /\ m \in Nat /\ m > 0 /\ Top = stack[m]
        /\ stack' \in Seq(Frames) /\ Len(stack') = m - 1
        /\ \A k \in 1 .. m - 1 : stack'[k] = stack[k]
    BY <1>1, <1>2, TopFacts DEF Pops
  <1>4. \A k \in 1 .. m - 1 : k \in 1 .. Len(stack) /\ Reached(k) = Len(stack[k].got)
                              /\ Reached(k) \in Nat
    <2>1. \A k \in 1 .. m - 1 : k \in 1 .. Len(stack) /\ k < Len(stack)
      BY <1>2, <1>3
    <2>. QED
      BY <2>1, ReachedSteps
  <1>5. \A k \in 1 .. m - 1 :
           Reached(k)' = Reached(k) + IF k = m - 1 /\ returned'.outcome = "success" THEN 1 ELSE 0
    BY <1>3, <1>4 DEF Reached
  <1>6. \A q, j : StepPath(q, j)' = StepPath(q, j)
    BY <1>1, PathsSame
  <1>7. ASSUME NEW k \in 1 .. m - 1, NEW j \in 1 .. Reached(k)
        PROVE  Got(k, j)' = Got(k, j) /\ StepPath(stack[k].node, j)' = StepPath(stack[k].node, j)
    BY <1>3, <1>4, <1>6 DEF Got
  <1>8. ASSUME m - 1 \in 1 .. m - 1, NEW j, j = Reached(m - 1) + 1
        PROVE  Got(m - 1, j)' = returned'.type /\ StepPath(stack[m - 1].node, j)' = Top.node
    <2>1. j = Len(stack[m - 1].got) + 1 /\ ~(j <= Len(stack[m - 1].got)) /\ stack'[m - 1] = stack[m - 1]
      BY <1>3, <1>4, <1>8
    <2>2. m - 1 \in 1 .. Len(stack) - 1 /\ (m - 1) + 1 = m
      BY <1>2, <1>8, <1>3
    <2>3. stack[m].node = StepPath(stack[m - 1].node, Len(stack[m - 1].got) + 1)
      BY <1>1, <2>2 DEF StackOK
    <2>4. Got(m - 1, j)' = returned'.type
      BY <2>1 DEF Got
    <2>. QED
      BY <1>3, <1>6, <2>1, <2>3, <2>4
  <1>9. ASSUME Resolved(p, type)'
        PROVE  \/ Resolved(p, type)
               \/ p = Top.node /\ type = returned'.type /\ returned'.outcome = "success"
    <2>1. PICK k \in 1 .. m - 1 : \E j \in 1 .. Reached(k)' :
             p = StepPath(stack[k].node, j)' /\ type = Got(k, j)'
      BY <1>3, <1>9 DEF Resolved
    <2>2. PICK j \in 1 .. Reached(k)' : p = StepPath(stack[k].node, j)' /\ type = Got(k, j)'
      BY <2>1
    <2>3. CASE j \in 1 .. Reached(k)
      <3>1. p = StepPath(stack[k].node, j) /\ type = Got(k, j)
        BY <1>7, <2>2, <2>3
      <3>. QED
        BY <1>4, <2>3, <3>1 DEF Resolved
    <2>4. CASE j \notin 1 .. Reached(k)
      <3>1. k = m - 1 /\ returned'.outcome = "success" /\ j = Reached(k) + 1
        BY <1>4, <1>5, <2>2, <2>4
      <3>. QED
        BY <1>8, <2>2, <3>1
    <2>. QED
      BY <2>3, <2>4
  <1>10. ASSUME stack' # <<>>, returned'.outcome = "success",
                p = Top.node, type = returned'.type
         PROVE  Resolved(p, type)'
    <2>1. m - 1 \in 1 .. m - 1
      BY <1>3, <1>10
    <2>2. PICK j : j = Reached(m - 1) + 1
      OBVIOUS
    <2>3. j \in 1 .. Reached(m - 1)' /\ m - 1 \in 1 .. Len(stack')
      BY <1>3, <1>4, <1>5, <1>10, <2>1, <2>2
    <2>4. p = StepPath(stack[m - 1].node, j)' /\ type = Got(m - 1, j)'
      BY <1>8, <1>10, <2>1, <2>2
    <2>. QED
      BY <2>3, <2>4 DEF Resolved
  <1>11. ASSUME Resolved(p, type)
         PROVE  Resolved(p, type)' \/ \E j \in 1 .. Reached(Len(stack)) : p = StepPath(Top.node, j)
    <2>1. PICK k \in 1 .. m : \E j \in 1 .. Reached(k) :
             p = StepPath(stack[k].node, j) /\ type = Got(k, j)
      BY <1>2, <1>11 DEF Resolved
    <2>2. PICK j \in 1 .. Reached(k) : p = StepPath(stack[k].node, j) /\ type = Got(k, j)
      BY <2>1
    <2>3. CASE k = m
      BY <1>2, <1>3, <2>2, <2>3
    <2>4. CASE k # m
      <3>1. k \in 1 .. m - 1
        BY <1>3, <2>4
      <3>2. p = StepPath(stack[k].node, j)' /\ type = Got(k, j)'
        BY <1>7, <2>2, <3>1
      <3>3. k \in 1 .. Len(stack') /\ j \in 1 .. Reached(k)'
        BY <1>3, <1>4, <1>5, <3>1
      <3>. QED
        BY <3>2, <3>3 DEF Resolved
    <2>. QED
      BY <2>3, <2>4
  <1>. QED
    BY <1>9, <1>10, <1>11

-----------------------------------------------------------------------------
\* What is typed stays typed, and what is in the table stays there.

DataGrows ==
    /\ DOMAIN typed \subseteq DOMAIN typed'
    /\ Held(table) \subseteq Held(table')
    /\ \A name : Found(table, name) =>
          Found(table', name) /\ SymbolOf(table', name) = SymbolOf(table, name)

\* The node that is left decides which function body was at work.
LEMMA AnsweredBy ==
    ASSUME MachineOK, Step, Answers
    PROVE  /\ Here.type = "literal" => Literal
           /\ Here.type = "identifier" => Identifier
           /\ Here.type \in Operators => Operator
           /\ Here.type = "typed" => TypeAssignment
           /\ Here.type = "function" => Function
           /\ Here.type = "call" => Call \/ Argument
           /\ Here.type = "callStatement" => CallStatement
           /\ Here.type \in UntypedKinds => Untyped
           /\ Here.type = "constant" => DeclareDeduced \/ DeclareTyped
           /\ Here.type = "assign" => AssignVariable \/ DeclareDeduced \/ DeclareTyped
  <1>1. Running /\ returned'.outcome # "none"
    BY DEF Answers, Pops
  <1>2. ~ResolveChild /\ ~ResolveStatement
    BY <1>1 DEF ResolveChild, ResolveStatement, Enter, Pending
  <1>3. ~ChildFailed
    BY <1>1 DEF ChildFailed, Running
  <1>4. /\ Literal => Here.type = "literal"
        /\ Operator => Here.type \in Operators
        /\ Identifier => Here.type = "identifier"
        /\ TypeAssignment => Here.type = "typed"
        /\ AssignVariable => Here.type = "assign"
        /\ DeclareDeduced => Here.type \in {"assign", "constant"}
        /\ DeclareTyped => Here.type \in {"assign", "constant"}
        /\ Function => Here.type = "function"
        /\ Call => Here.type = "call"
        /\ Argument => Here.type = "call"
        /\ CallStatement => Here.type = "callStatement"
        /\ Untyped => Here.type \in UntypedKinds
    BY DEF Literal, Operator, Identifier, TypeAssignment, AssignVariable, DeclareDeduced,
           DeclareTyped, Function, Call, Argument, CallStatement, Untyped, At, UntypedKinds
  <1>5. \/ Literal \/ Operator \/ Identifier \/ TypeAssignment \/ AssignVariable
        \/ DeclareDeduced \/ DeclareTyped \/ Function \/ Call \/ Argument \/ CallStatement
        \/ Untyped
    BY <1>2, <1>3 DEF Step
  <1>. QED
    BY <1>4, <1>5, OperatorsApart DEF UntypedKinds

\* Marks are not removed.
LEMMA MarksGrow ==
    ASSUME NEW ps, NEW type, Mark(ps, type)
    PROVE  DOMAIN typed \subseteq DOMAIN typed'
  BY Marks

\* What a step does to the table and to the types.
LEMMA DataSteps ==
    ASSUME MachineOK, Step
    PROVE  /\ \/ UNCHANGED table
              \/ TableHolds
              \/ /\ Answers /\ TypeAssignment /\ Kind(Here, 2) # "null"
                 /\ \E its, read \in Types :
                       NameAdded(its, read) /\ TableAdds(DeclaringName, its, FALSE, Unwritten)
              \/ Answers /\ DeclareDeduced /\ NameDeclared(Results[1])
           /\ \/ UNCHANGED typed
              \/ /\ Answers /\ Here.type \notin {"typed", "constant"}
                 /\ \E type \in Types : Mark({Top.node}, type)
              \/ /\ Answers /\ TypeAssignment
                 /\ \E its, read \in Types :
                       NameAdded(its, read) /\ Mark({Top.node, Child(Top.node, 1)}, read)
              \/ /\ Answers /\ DeclareDeduced
                 /\ Mark({Child(Top.node, 1), Child(Child(Top.node, 1), 1)}, Results[1])
                 /\ returned'.outcome # "success"
              \/ /\ Answers /\ DeclareDeduced /\ NameDeclared(Results[1])
  <1>1. CASE ResolveChild
    BY <1>1 DEF ResolveChild
  <1>2. CASE ResolveStatement
    BY <1>2 DEF ResolveStatement
  <1>3. CASE ChildFailed
    BY <1>3 DEF ChildFailed
  <1>4. CASE Literal
    BY <1>4, LiteralStep
  <1>5. CASE Operator
    BY <1>5 DEF Operator
  <1>6. CASE Identifier
    <2>1. /\ Answers /\ Here.type = "identifier" /\ UNCHANGED table
          /\ \/ UNCHANGED typed
             \/ /\ Found(table, Here.name)
                /\ Mark({Top.node}, SymbolOf(table, Here.name).type)
      BY <1>6, IdentifierStep
    <2>2. Found(table, Here.name) => SymbolOf(table, Here.name).type \in Types
      BY FoundSymbol DEF MachineOK
    <2>. QED
      BY <2>1, <2>2
  <1>7. CASE TypeAssignment
    <2>1. /\ Answers
          /\ \/ UNCHANGED <<table, typed>>
             \/ Kind(Here, 2) # "null" /\ \E its, read \in Types : NameAdded(its, read)
      BY <1>7, TypeAssignmentStep
    <2>2. CASE UNCHANGED <<table, typed>>
      BY <2>2
    <2>3. ASSUME Kind(Here, 2) # "null", NEW its \in Types, NEW read \in Types, NameAdded(its, read)
          PROVE  /\ TableHolds \/ TableAdds(DeclaringName, its, FALSE, Unwritten)
                 /\ Mark({Top.node, Child(Top.node, 1)}, read)
      BY <2>3 DEF NameAdded
    <2>. QED
      BY <1>7, <2>1, <2>2, <2>3
  <1>8. CASE AssignVariable
    <2>1. /\ Answers /\ Here.type = "assign" /\ UNCHANGED table
          /\ \/ UNCHANGED typed
             \/ /\ SymbolOf(table, Here.children[1].name).type = Results[1]
                /\ Mark({Top.node}, SymbolOf(table, Here.children[1].name).type)
      BY <1>8, AssignVariableStep
    <2>2. Results[1] \in Types
      <3>1. /\ Len(Results) = Len(Order(Here)) /\ HasShape(Here, Operators)
            /\ \A j \in 1 .. Len(Results) : Results[j] \in Types
        BY <1>8, AtFacts DEF AssignVariable
      <3>2. Len(Results) = 2
        BY <2>1, <3>1, OrderOf
      <3>. QED
        BY <3>1, <3>2
    <2>. QED
      BY <2>1, <2>2
  <1>9. CASE DeclareDeduced
    BY <1>9, DeclareDeducedStep
  <1>10. CASE DeclareTyped
    BY <1>10 DEF DeclareTyped
  <1>11. CASE Function
    BY <1>11, FunctionStep DEF Types
  <1>12. CASE Call
    BY <1>12 DEF Call
  <1>13. CASE Argument
    BY <1>13 DEF Argument
  <1>14. CASE CallStatement
    BY <1>14, CallStatementStep
  <1>15. CASE Untyped
    BY <1>15 DEF Untyped
  <1>. QED
    BY <1>1, <1>2, <1>3, <1>4, <1>5, <1>6, <1>7, <1>8, <1>9, <1>10, <1>11, <1>12, <1>13,
       <1>14, <1>15 DEF Step

\* A step removes no mark and no symbol.
LEMMA StepGrows ==
    ASSUME MachineOK, Step
    PROVE  DataGrows
  <1>1. DOMAIN typed \subseteq DOMAIN typed'
    <2>1. UNCHANGED typed \/ \E ps, type : Mark(ps, type)
      BY DataSteps DEF NameDeclared
    <2>. QED
      BY <2>1, MarksGrow
  <1>2. Held(table) \subseteq Held(table')
    BY DataSteps DEF TableHolds, TableAdds, NameDeclared
  <1>3. Good(table) /\ Good(table')
    BY StepKinds DEF MachineOK, TableOK, DataKept
  <1>4. ASSUME NEW name, Found(table, name)
        PROVE  Found(table', name) /\ SymbolOf(table', name) = SymbolOf(table, name)
    <2>1. PICK s : s = SymbolOf(table, name)
      OBVIOUS
    <2>2. s \in Held(table) /\ s.name = name
      BY <1>3, <1>4, <2>1, FoundHeld
    <2>3. s \in Held(table')
      BY <1>2, <2>2
    <2>4. Found(table', s.name) /\ SymbolOf(table', s.name) = s
      BY <1>3, <2>3, FoundHeld
    <2>. QED
      BY <2>1, <2>2, <2>4
  <1>. QED
    BY <1>1, <1>2, <1>4 DEF DataGrows

\* A step adds at most a statement, and changes no node but the scope it is added to.
LEMMA StepProgram ==
    ASSUME MachineOK, Step
    PROVE  /\ PathsOK /\ PathsOK' /\ PathsKept /\ MachineOK' /\ Grows
           /\ \A p \in Paths : NodeAt(p).type # "scope" => NodeAt(p)' = NodeAt(p)
  <1>1. Grows
    BY StepKinds DEF PushesOnly, Pushes, Answers, Pops, ChildFailed, Grows
  <1>2. PathsOK /\ PathsOK' /\ PathsKept
    BY <1>1, GrowthKeepsPaths DEF MachineOK
  <1>3. NodeAt(<<>>).type = "scope"
    BY <1>2 DEF PathsOK, MachineOK, ProgramOK
  <1>. QED
    BY <1>1, <1>2, <1>3, MachineKept DEF PathsKept

-----------------------------------------------------------------------------
\* What is not in a body that was skipped.

Visible(p) == \A f \in Skipped : ~Within(p, Child(f, 3))

\* A node that can be seen can be seen after a step.
LEMMA VisibleKept ==
    ASSUME MachineOK, Step, NEW p \in Paths, Visible(p)
    PROVE  Visible(p)'
  <1>1. PathsOK /\ PathsOK' /\ PathsKept /\ DataGrows
    BY StepProgram, StepGrows
  <1>2. SUFFICES ASSUME NEW f \in Skipped', Within(p, Child(f, 3)) PROVE FALSE
    BY DEF Visible
  <1>3. f \in Paths' /\ NodeAt(f)'.type = "function" /\ Child(f, 2) \notin DOMAIN typed'
    BY DEF Skipped
  <1>4. f \in Numbers /\ Child(f, 3) \in Numbers
    BY <1>1, <1>3, ChildPath DEF PathsOK
  <1>5. Child(f, 3) \in Paths
    BY <1>1, <1>2, <1>4, PrefixesLead
  <1>6. Within(Child(f, 3), f)
    BY <1>4, WithinChild, WithinItself
  <1>7. f \in Paths
    BY <1>1, <1>4, <1>5, <1>6, PrefixesLead
  <1>8. f \in Skipped
    BY <1>1, <1>3, <1>7 DEF Skipped, PathsKept, DataGrows
  <1>. QED
    BY <1>2, <1>8 DEF Visible

\* So can its children, but for the body of a skipped function.
LEMMA VisibleChild ==
    ASSUME PathsOK, NEW p \in Paths, Visible(p), NEW i \in DOMAIN NodeAt(p).children,
           NodeAt(p).type = "function" /\ i = 3 => Child(p, 2) \in DOMAIN typed
    PROVE  Visible(Child(p, i))
  <1>1. SUFFICES ASSUME NEW f \in Skipped, Within(Child(p, i), Child(f, 3)) PROVE FALSE
    BY DEF Visible
  <1>2. f \in Paths /\ NodeAt(f).type = "function" /\ Child(f, 2) \notin DOMAIN typed
    BY DEF Skipped
  <1>3. f \in Numbers /\ p \in Numbers /\ i \in Nat
    BY <1>2 DEF PathsOK
  <1>4. Child(f, 3) \in Numbers
    BY <1>3, ChildPath
  <1>5. Within(p, Child(f, 3)) \/ Child(p, i) = Child(f, 3)
    BY <1>1, <1>3, <1>4, WithinChild
  <1>6. Child(p, i) = Child(f, 3)
    BY <1>5 DEF Visible
  <1>7. p = f /\ i = 3
    BY <1>3, <1>6, ChildInjective
  <1>. QED
    BY <1>2, <1>7

-----------------------------------------------------------------------------
\* The children of the nodes that declare something.

\* The nodes a function is made of.
LEMMA FunctionChildren ==
    ASSUME PathsOK, NEW f \in Paths, NodeAt(f).type = "function"
    PROVE  /\ f \in Numbers /\ Steps(NodeAt(f)) = 3
           /\ Child(f, 1) \in Paths /\ Child(f, 2) \in Paths /\ Child(f, 3) \in Paths
           /\ NodeAt(Child(f, 1)) = NodeAt(f).children[1]
           /\ NodeAt(Child(f, 2)) = NodeAt(f).children[2]
           /\ NodeAt(Child(f, 1)).type = "parameters"
           /\ NodeAt(Child(f, 2)).type = "identifier"
           /\ StepPath(f, 1) = Child(f, 1) /\ StepPath(f, 2) = Child(f, 2)
           /\ StepPath(f, 3) = Child(f, 3)
           /\ DOMAIN NodeAt(f).children = 1 .. 3
  <1>1. HasShape(NodeAt(f), Operators) /\ f \in Numbers
    BY DEF PathsOK
  <1>2. /\ Len(NodeAt(f).children) = 3
        /\ DOMAIN NodeAt(f).children = 1 .. 3
        /\ Kind(NodeAt(f), 1) = "parameters" /\ Kind(NodeAt(f), 2) = "identifier"
        /\ Len(Order(NodeAt(f))) = 3
        /\ \A j \in 1 .. 3 : Order(NodeAt(f))[j] = j
    BY <1>1, StatementKinds, ChildKinds, OrderOf DEF ListTypes
  <1>3. Steps(NodeAt(f)) = 3
    BY <1>2 DEF Steps
  <1>4. 1 \in 1 .. 3 /\ 2 \in 1 .. 3 /\ 3 \in 1 .. 3 /\ 1 <= 3 /\ 2 <= 3 /\ 3 <= 3
    OBVIOUS
  <1>5. StepPath(f, 1) = Child(f, 1) /\ StepPath(f, 2) = Child(f, 2) /\ StepPath(f, 3) = Child(f, 3)
    BY <1>2, <1>4 DEF StepPath
  <1>. QED
    BY <1>1, <1>2, <1>3, <1>4, <1>5, ChildOf

\* The nodes an assignment or a constant is made of.
LEMMA PairChildren ==
    ASSUME PathsOK, NEW p \in Paths, NodeAt(p).type \in {"assign", "constant"}
    PROVE  /\ p \in Numbers /\ Steps(NodeAt(p)) = 2
           /\ DOMAIN NodeAt(p).children = 1 .. 2
           /\ Child(p, 1) \in Paths /\ Child(p, 2) \in Paths
           /\ NodeAt(Child(p, 1)) = NodeAt(p).children[1]
           /\ NodeAt(Child(p, 2)) = NodeAt(p).children[2]
           /\ NodeAt(Child(p, 1)).type = Kind(NodeAt(p), 1)
           /\ NodeAt(Child(p, 2)).type = Kind(NodeAt(p), 2)
           /\ Kind(NodeAt(p), 1) \in {"identifier", "typed"}
           /\ NodeAt(p).type = "constant" => Kind(NodeAt(p), 1) = "typed"
           /\ Kind(NodeAt(p), 2) \in Values
           /\ Kind(NodeAt(p), 1) = "identifier" => Kind(NodeAt(p), 2) \in Expressions(Operators)
           /\ StepPath(p, 1) = Child(p, 2) /\ StepPath(p, 2) = Child(p, 1)
  <1>1. HasShape(NodeAt(p), Operators) /\ p \in Numbers
    BY DEF PathsOK
  <1>2. /\ Len(NodeAt(p).children) = 2
        /\ DOMAIN NodeAt(p).children = 1 .. 2
        /\ Order(NodeAt(p)) = <<2, 1>>
        /\ Kind(NodeAt(p), 1) \in {"identifier", "typed"}
        /\ NodeAt(p).type = "constant" => Kind(NodeAt(p), 1) = "typed"
        /\ Kind(NodeAt(p), 2) \in Values
        /\ Kind(NodeAt(p), 1) = "identifier" => Kind(NodeAt(p), 2) \in Expressions(Operators)
    BY <1>1, StatementKinds, ChildKinds, OrderOf DEF Values
  <1>3. Len(Order(NodeAt(p))) = 2 /\ Order(NodeAt(p))[1] = 2 /\ Order(NodeAt(p))[2] = 1
    BY <1>2
  <1>4. Steps(NodeAt(p)) = 2
    BY <1>3 DEF Steps
  <1>5. 1 \in 1 .. 2 /\ 2 \in 1 .. 2 /\ 1 <= 2 /\ 2 <= 2
    OBVIOUS
  <1>6. StepPath(p, 1) = Child(p, 2) /\ StepPath(p, 2) = Child(p, 1)
    BY <1>3, <1>5 DEF StepPath
  <1>. QED
    BY <1>1, <1>2, <1>4, <1>5, <1>6, ChildOf

\* The nodes a declaration is made of.
LEMMA TypedChildren ==
    ASSUME PathsOK, NEW p \in Paths, NodeAt(p).type = "typed"
    PROVE  /\ p \in Numbers /\ Steps(NodeAt(p)) = 0
           /\ DOMAIN NodeAt(p).children = 1 .. 2
           /\ Child(p, 1) \in Paths /\ Child(p, 2) \in Paths
           /\ NodeAt(Child(p, 1)) = NodeAt(p).children[1]
           /\ NodeAt(Child(p, 2)) = NodeAt(p).children[2]
           /\ NodeAt(Child(p, 1)).type = "identifier"
           /\ NodeAt(Child(p, 2)).type = Kind(NodeAt(p), 2)
           /\ Kind(NodeAt(p), 2) \in {"identifier", "null"}
  <1>1. HasShape(NodeAt(p), Operators) /\ p \in Numbers
    BY DEF PathsOK
  <1>2. /\ Len(NodeAt(p).children) = 2
        /\ DOMAIN NodeAt(p).children = 1 .. 2
        /\ Order(NodeAt(p)) = <<>>
        /\ Kind(NodeAt(p), 1) = "identifier" /\ Kind(NodeAt(p), 2) \in {"identifier", "null"}
    BY <1>1, StatementKinds, ChildKinds, OrderOf
  <1>3. Steps(NodeAt(p)) = 0
    BY <1>2 DEF Steps
  <1>4. 1 \in 1 .. 2 /\ 2 \in 1 .. 2
    OBVIOUS
  <1>. QED
    BY <1>1, <1>2, <1>3, <1>4, ChildOf

\* Which nodes' types a step sets.
LEMMA NewlyTyped ==
    ASSUME MachineOK, Step, NEW q \in DOMAIN typed', q \notin DOMAIN typed
    PROVE  /\ Answers /\ UNCHANGED program
           /\ \/ q = Top.node /\ Here.type \notin {"typed", "constant"}
              \/ Here.type = "typed" /\ q \in {Top.node, Child(Top.node, 1)}
              \/ /\ Here.type \in {"assign", "constant"} /\ Kind(Here, 1) = "typed"
                 /\ q \in {Top.node, Child(Top.node, 1), Child(Child(Top.node, 1), 1)}
  <1>1. CASE /\ Answers /\ Here.type \notin {"typed", "constant"}
             /\ \E type \in Types : Mark({Top.node}, type)
    <2>1. DOMAIN typed' = {Top.node} \cup DOMAIN typed
      BY <1>1, Marks
    <2>. QED
      BY <1>1, <2>1 DEF Answers, Pops
  <1>2. CASE /\ Answers /\ TypeAssignment
             /\ \E its, read \in Types :
                   NameAdded(its, read) /\ Mark({Top.node, Child(Top.node, 1)}, read)
    <2>1. Here.type = "typed"
      BY <1>2, TypeAssignmentStep
    <2>2. DOMAIN typed' = {Top.node, Child(Top.node, 1)} \cup DOMAIN typed
      BY <1>2, Marks
    <2>. QED
      BY <1>2, <2>1, <2>2 DEF Answers, Pops
  <1>3. CASE /\ Answers /\ DeclareDeduced
             /\ \/ Mark({Child(Top.node, 1), Child(Child(Top.node, 1), 1)}, Results[1])
                \/ NameDeclared(Results[1])
    <2>1. Here.type \in {"assign", "constant"} /\ Kind(Here, 1) = "typed"
      BY <1>3, DeclareDeducedStep
    <2>2. \/ Mark({Child(Top.node, 1), Child(Child(Top.node, 1), 1)}, Results[1])
          \/ Mark({Child(Top.node, 1), Child(Child(Top.node, 1), 1), Top.node}, Results[1])
      BY <1>3 DEF NameDeclared
    <2>3. \A ps : Mark(ps, Results[1]) => DOMAIN typed' = ps \cup DOMAIN typed
      BY Marks
    <2>4. q \in {Top.node, Child(Top.node, 1), Child(Child(Top.node, 1), 1)}
      BY <2>2, <2>3
    <2>. QED
      BY <1>3, <2>1, <2>4 DEF Answers, Pops
  <1>. QED
    BY <1>1, <1>2, <1>3, DataSteps

\* The return type of a function is typed when its own node is left.
LEMMA ReturnTypeMarked ==
    ASSUME MachineOK, Step, NEW f \in Paths, NodeAt(f).type = "function",
           Child(f, 2) \in DOMAIN typed', Child(f, 2) \notin DOMAIN typed
    PROVE  /\ Answers /\ UNCHANGED program
           /\ Top.node = Child(f, 2) /\ Here.type = "identifier"
           /\ Found(table, Here.name)
           /\ Mark({Top.node}, SymbolOf(table, Here.name).type)
           /\ returned'.outcome = "success"
  <1>1. /\ Answers /\ UNCHANGED program
        /\ \/ Child(f, 2) = Top.node /\ Here.type \notin {"typed", "constant"}
           \/ Here.type = "typed" /\ Child(f, 2) \in {Top.node, Child(Top.node, 1)}
           \/ /\ Here.type \in {"assign", "constant"} /\ Kind(Here, 1) = "typed"
              /\ Child(f, 2) \in {Top.node, Child(Top.node, 1), Child(Child(Top.node, 1), 1)}
    BY NewlyTyped
  <1>2. PathsOK /\ StackOK /\ stack # <<>>
    BY <1>1, PathsHold DEF MachineOK, Answers, Pops
  <1>3. Top.node \in Numbers /\ NodeAt(Top.node) = Here /\ Child(Top.node, 1) \in Numbers
    BY <1>2, TopChildren, ChildPath
  <1>4. f \in Numbers /\ NodeAt(Child(f, 2)).type = "identifier"
    BY <1>2, FunctionChildren
  <1>5. Child(f, 2) # Child(Top.node, 1) /\ Child(f, 2) # Child(Child(Top.node, 1), 1)
    BY <1>3, <1>4, ChildInjective
  <1>6. Child(f, 2) = Top.node /\ Here.type = "identifier"
    BY <1>1, <1>3, <1>4, <1>5
  <1>7. Identifier
    BY <1>1, <1>6, AnsweredBy
  <1>8. typed' # typed
    OBVIOUS
  <1>. QED
    BY <1>1, <1>6, <1>7, <1>8, IdentifierStep DEF Success

-----------------------------------------------------------------------------
\* What the frames know of the nodes they have left behind.

NamesResolved ==
    \A p \in Paths : \A type \in Types :
        Resolved(p, type) /\ NodeAt(p).type = "identifier" =>
            p \in DOMAIN typed /\ Found(table, NameAt(p))

NullsUnknown ==
    \A p \in Paths : \A type \in Types :
        Resolved(p, type) /\ NodeAt(p).type = "typed" /\ Kind(NodeAt(p), 2) = "null" =>
            type = "unknown"

ReturnTypesFound ==
    \A f \in Paths : NodeAt(f).type = "function" /\ Child(f, 2) \in DOMAIN typed =>
        Found(table, NameAt(Child(f, 2)))

\* Why a function's body is skipped.
SkipReason ==
    stack # <<>> /\ returned.outcome = "failure" /\ Skipping =>
        ~Found(table, NameAt(Child(Top.node, 2)))

FramesVisible == \A k \in 1 .. Len(stack) : Visible(stack[k].node)

WayOK == NamesResolved /\ NullsUnknown /\ ReturnTypesFound /\ SkipReason /\ FramesVisible

\* Nothing is resolved at the start.
LEMMA NothingResolved ==
    ASSUME Init, NEW p, NEW type, Resolved(p, type)
    PROVE  FALSE
  <1>1. returned.outcome = "none" /\ stack = <<[node |-> <<>>, got |-> <<>>]>>
    BY DEF Init, Pending
  <1>2. Len(stack) = 1 /\ Len(stack[1].got) = 0
    BY <1>1
  <1>3. PICK k \in 1 .. Len(stack) : \E j \in 1 .. Reached(k) : p = StepPath(stack[k].node, j)
    BY DEF Resolved
  <1>4. k = 1
    BY <1>2, <1>3
  <1>5. Reached(k) = 0
    BY <1>1, <1>2, <1>4 DEF Reached
  <1>. QED
    BY <1>3, <1>5

\* The frames know nothing wrong at the start.
LEMMA WayStarts == Init => WayOK
  <1>. SUFFICES ASSUME Init PROVE WayOK
    OBVIOUS
  <1>1. NamesResolved /\ NullsUnknown
    BY NothingResolved DEF NamesResolved, NullsUnknown
  <1>2. DOMAIN typed = {}
    <2>1. typed = <<>>
      BY DEF Init
    <2>2. typed \in Seq(Types) /\ Len(typed) = 0
      BY <2>1
    <2>3. DOMAIN typed = 1 .. Len(typed)
      BY <2>2, LenProperties
    <2>. QED
      BY <2>2, <2>3
  <1>3. ReturnTypesFound
    BY <1>2 DEF ReturnTypesFound
  <1>4. SkipReason
    BY DEF Init, Pending, SkipReason
  <1>5. FramesVisible
    <2>1. stack = <<[node |-> <<>>, got |-> <<>>]>>
      BY DEF Init
    <2>2. \A k \in 1 .. Len(stack) : stack[k].node = <<>>
      BY <2>1
    <2>3. PathsOK
      BY MachineStarts, PathsHold DEF MachineOK
    <2>4. ASSUME NEW f \in Skipped PROVE ~Within(<<>>, Child(f, 3))
      <3>1. f \in Numbers
        BY <2>3 DEF Skipped, PathsOK
      <3>2. Len(Child(f, 3)) = Len(f) + 1
        BY <3>1, ChildPath
      <3>3. Len(f) \in Nat
        BY <3>1 DEF Numbers
      <3>. QED
        BY <3>2, <3>3 DEF Within
    <2>. QED
      BY <2>2, <2>4 DEF FramesVisible, Visible
  <1>. QED
    BY <1>1, <1>3, <1>4, <1>5 DEF WayOK

\* A step leads to a node that can be seen, if it is not into the body of a
\* function whose return type was not found.
LEMMA VisibleStep ==
    ASSUME PathsOK, NEW n \in Paths, Visible(n), NEW j \in 1 .. Steps(NodeAt(n)),
           NodeAt(n).type = "function" /\ j = 3 => Child(n, 2) \in DOMAIN typed
    PROVE  Visible(StepPath(n, j))
  <1>1. n \in Numbers /\ HasShape(NodeAt(n), Operators)
    BY DEF PathsOK
  <1>2. /\ Len(Order(NodeAt(n))) \in Nat
        /\ \A i \in 1 .. Len(Order(NodeAt(n))) : Order(NodeAt(n))[i] \in DOMAIN NodeAt(n).children
    BY <1>1, OrderOf
  <1>3. CASE NodeAt(n).type = "call"
    <2>1. /\ Order(NodeAt(n)) = <<1>> /\ Len(NodeAt(n).children[2].children) \in Nat
          /\ DOMAIN NodeAt(n).children[2].children = 1 .. Len(NodeAt(n).children[2].children)
          /\ Child(n, 2) \in Paths /\ NodeAt(Child(n, 2)).type = "parameters"
          /\ NodeAt(Child(n, 2)) = NodeAt(n).children[2]
      BY <1>3, CallArguments
    <2>2. Len(Order(NodeAt(n))) = 1 /\ 1 \in DOMAIN NodeAt(n).children /\ 2 \in DOMAIN NodeAt(n).children
      BY <1>1, <1>3, <2>1, ChildKinds
    <2>3. Visible(Child(n, 1)) /\ Visible(Child(n, 2))
      BY <1>3, <2>2, VisibleChild
    <2>4. CASE j = 1
      BY <2>1, <2>2, <2>3, <2>4 DEF StepPath
    <2>5. CASE j # 1
      <3>1. j - 1 \in DOMAIN NodeAt(Child(n, 2)).children /\ ~(j <= 1)
        BY <1>3, <2>1, <2>2, <2>5 DEF Steps
      <3>2. StepPath(n, j) = Child(Child(n, 2), j - 1)
        BY <2>2, <3>1 DEF StepPath
      <3>. QED
        BY <2>1, <2>3, <3>1, <3>2, VisibleChild
    <2>. QED
      BY <2>4, <2>5
  <1>4. CASE NodeAt(n).type = "function"
    <2>1. /\ Steps(NodeAt(n)) = 3 /\ DOMAIN NodeAt(n).children = 1 .. 3
          /\ StepPath(n, 1) = Child(n, 1) /\ StepPath(n, 2) = Child(n, 2)
          /\ StepPath(n, 3) = Child(n, 3)
      BY <1>4, FunctionChildren
    <2>2. j \in 1 .. 3 /\ StepPath(n, j) = Child(n, j)
      BY <2>1
    <2>. QED
      BY <2>1, <2>2, VisibleChild
  <1>5. CASE NodeAt(n).type # "call" /\ NodeAt(n).type # "function"
    <2>1. j \in 1 .. Len(Order(NodeAt(n)))
      BY <1>2, <1>5 DEF Steps
    <2>2. StepPath(n, j) = Child(n, Order(NodeAt(n))[j])
      BY <1>2, <2>1 DEF StepPath
    <2>. QED
      BY <1>2, <1>5, <2>1, <2>2, VisibleChild
  <1>. QED
    BY <1>3, <1>4, <1>5

VisibleBelow ==
    \A p \in Paths : Visible(p) =>
        \A i \in DOMAIN NodeAt(p).children : NodeAt(p).type # "function" => Visible(Child(p, i))

\* What is below a visible node is visible, but for functions.
LEMMA VisibleBelowHolds == PathsOK => VisibleBelow
  BY VisibleChild DEF VisibleBelow

\* The same after a step.
LEMMA VisibleBelowNext == PathsOK' => VisibleBelow'
  BY VisibleBelowHolds, PTL

\* A call keeps what the frames know: it enters a node that can be seen.
LEMMA PushesWay ==
    ASSUME MachineOK, WayOK, Step, PushesOnly
    PROVE  WayOK'
  <1>1. PICK n, got : Pushes(n, got)
    BY DEF PushesOnly
  <1>2. /\ PathsOK /\ PathsOK' /\ PathsKept /\ MachineOK'
        /\ \A p \in Paths : NodeAt(p).type # "scope" => NodeAt(p)' = NodeAt(p)
        /\ UNCHANGED <<table, typed, mishaps>>
        /\ DataGrows
    BY StepProgram, StepGrows DEF PushesOnly
  <1>3. ASSUME NEW p, NEW type, Resolved(p, type)'
        PROVE  Resolved(p, type) /\ p \in Paths /\ type \in Types
    BY <1>1, <1>3, PushesResolve, ResolvedNodes
  <1>4. NamesResolved'
    <2>1. SUFFICES ASSUME NEW p \in Paths', NEW type \in Types', Resolved(p, type)',
                          NodeAt(p)'.type = "identifier"
                   PROVE  p \in DOMAIN typed' /\ Found(table', NameAt(p)')
      BY DEF NamesResolved
    <2>2. Resolved(p, type) /\ p \in Paths /\ type \in Types
      BY <1>3, <2>1
    <2>3. NodeAt(p)'.type = NodeAt(p).type
      BY <1>2, <2>2 DEF PathsKept
    <2>4. NodeAt(p)' = NodeAt(p)
      BY <1>2, <2>1, <2>2, <2>3
    <2>. QED
      BY <1>2, <2>1, <2>2, <2>4 DEF WayOK, NamesResolved, NameAt
  <1>5. NullsUnknown'
    <2>1. SUFFICES ASSUME NEW p \in Paths', NEW type \in Types', Resolved(p, type)',
                          NodeAt(p)'.type = "typed", Kind(NodeAt(p)', 2) = "null"
                   PROVE  type = "unknown"
      BY DEF NullsUnknown
    <2>2. Resolved(p, type) /\ p \in Paths /\ type \in Types
      BY <1>3, <2>1
    <2>3. NodeAt(p)'.type = NodeAt(p).type
      BY <1>2, <2>2 DEF PathsKept
    <2>4. NodeAt(p)' = NodeAt(p)
      BY <1>2, <2>1, <2>2, <2>3
    <2>. QED
      BY <2>1, <2>2, <2>4 DEF WayOK, NullsUnknown
  <1>6. ReturnTypesFound'
    <2>1. SUFFICES ASSUME NEW f \in Paths', NodeAt(f)'.type = "function", Child(f, 2) \in DOMAIN typed'
                   PROVE  Found(table', NameAt(Child(f, 2))')
      BY DEF ReturnTypesFound
    <2>2. Child(f, 2) \in Paths
      BY <1>2, <2>1 DEF MachineOK, TypedOK
    <2>3. f \in Numbers
      BY <1>2, <2>1 DEF PathsOK
    <2>4. Within(Child(f, 2), f)
      BY <2>3, WithinChild, WithinItself
    <2>5. f \in Paths
      BY <1>2, <2>2, <2>3, <2>4, PrefixesLead
    <2>6. NodeAt(f).type = "function"
      BY <1>2, <2>1, <2>5 DEF PathsKept
    <2>7. Found(table, NameAt(Child(f, 2))) /\ NodeAt(Child(f, 2)).type = "identifier"
      BY <1>2, <2>1, <2>5, <2>6, FunctionChildren DEF WayOK, ReturnTypesFound
    <2>8. NodeAt(Child(f, 2))' = NodeAt(Child(f, 2))
      BY <1>2, <2>2, <2>7
    <2>. QED
      BY <1>2, <2>7, <2>8 DEF NameAt
  <1>7. SkipReason'
    BY <1>1 DEF Pushes, Pending, SkipReason
  <1>8. PICK m : m = Len(stack)
    OBVIOUS
  <1>9. PICK c : c = StepPath(n, Len(got) + 1)'
    OBVIOUS
  <1>10. /\ m \in Nat /\ m > 0 /\ n \in Paths' /\ Len(got) \in Nat /\ c \in Paths'
         /\ Len(got) + 1 \in 1 .. Steps(NodeAt(n)')
         /\ Len(stack') = m + 1
         /\ \A k \in 1 .. m - 1 : stack'[k] = stack[k]
         /\ stack'[m].node = n /\ stack'[m + 1].node = c
    BY <1>1, <1>8, <1>9, PushedFrames DEF MachineOK
  <1>11. /\ n = Top.node /\ n = stack[m].node /\ got = Results /\ Running
         /\ \A k \in 1 .. m : stack[k].node \in Paths /\ Visible(stack[k].node)
    <2>1. \A k \in 1 .. m : stack[k].node \in Paths
      BY <1>8, ReachedSteps
    <2>. QED
      BY <1>1, <1>8, <2>1 DEF Pushes, Top, WayOK, FramesVisible
  <1>12. n \in Paths /\ Visible(n)'
    <2>1. n \in Paths /\ Visible(n)
      BY <1>10, <1>11
    <2>. QED
      BY <2>1, VisibleKept
  <1>13. Visible(c)'
    <2>1. /\ NodeAt(n)'.type = NodeAt(n).type
          /\ HasShape(NodeAt(n)', Operators)
      BY <1>2, <1>10, <1>12 DEF PathsKept, PathsOK
    <2>2. PICK j : j = Len(got) + 1
      OBVIOUS
    <2>3. CASE NodeAt(n).type = "scope"
      <3>1. /\ Len(Order(NodeAt(n)')) = Len(NodeAt(n)'.children)
            /\ \A i \in DOMAIN NodeAt(n)'.children : Order(NodeAt(n)')[i] = i
            /\ Len(NodeAt(n)'.children) \in Nat
            /\ DOMAIN NodeAt(n)'.children = 1 .. Len(NodeAt(n)'.children)
        BY <2>1, <2>3, OrderOf, ChildKinds DEF ListTypes
      <3>2. j \in DOMAIN NodeAt(n)'.children /\ j <= Len(Order(NodeAt(n)'))
        BY <1>10, <2>1, <2>2, <2>3, <3>1 DEF Steps
      <3>3. c = Child(n, j)
        BY <1>9, <2>2, <3>1, <3>2 DEF StepPath
      <3>4. VisibleBelow'
        BY <1>2, VisibleBelowNext
      <3>. QED
        BY <1>10, <1>12, <2>1, <2>3, <3>2, <3>3, <3>4 DEF VisibleBelow
    <2>4. CASE NodeAt(n).type # "scope"
      <3>1. NodeAt(n)' = NodeAt(n)
        BY <1>2, <1>12, <2>4
      <3>2. c = StepPath(n, j) /\ j \in 1 .. Steps(NodeAt(n))
        BY <1>9, <1>10, <2>2, <3>1 DEF StepPath
      <3>3. NodeAt(n).type = "function" /\ j = 3 => Child(n, 2) \in DOMAIN typed
        <4>1. SUFFICES ASSUME NodeAt(n).type = "function", j = 3 PROVE Child(n, 2) \in DOMAIN typed
          OBVIOUS
        <4>2. StepPath(n, 2) = Child(n, 2) /\ NodeAt(Child(n, 2)).type = "identifier"
          BY <1>2, <1>12, <4>1, FunctionChildren
        <4>3. 2 \in 1 .. Len(Results)
          BY <1>10, <1>11, <2>2, <4>1
        <4>4. Resolved(Child(n, 2), Results[2])
          BY <1>11, <4>2, <4>3, ResultsResolved
        <4>5. Child(n, 2) \in Paths /\ Results[2] \in Types
          BY <4>4, ResolvedNodes
        <4>. QED
          BY <4>2, <4>4, <4>5 DEF WayOK, NamesResolved
      <3>4. n \in Paths /\ Visible(n)
        BY <1>10, <1>11
      <3>5. Visible(c)
        BY <1>2, <3>2, <3>3, <3>4, VisibleStep
      <3>6. c \in Paths
        BY <1>2, <3>2, <3>4, StepFacts
      <3>. QED
        BY <3>5, <3>6, VisibleKept
    <2>. QED
      BY <2>3, <2>4
  <1>14. FramesVisible'
    <2>1. ASSUME NEW k \in 1 .. m + 1 PROVE Visible(stack[k].node)'
      <3>1. CASE k = m + 1
        BY <1>10, <1>13, <3>1
      <3>2. CASE k = m
        BY <1>10, <1>12, <3>2
      <3>3. CASE k \in 1 .. m - 1
        <4>1. PICK q : q = stack[k].node
          OBVIOUS
        <4>2. q \in Paths /\ Visible(q) /\ stack'[k].node = q
          BY <1>10, <1>11, <3>3, <4>1
        <4>3. Visible(q)'
          BY <4>2, VisibleKept
        <4>. QED
          BY <4>2, <4>3
      <3>. QED
        BY <1>10, <3>1, <3>2, <3>3
    <2>2. \A k \in 1 .. Len(stack') : Visible(stack[k].node)'
      BY <1>10, <2>1
    <2>. QED
      BY <2>2 DEF FramesVisible
  <1>. QED
    BY <1>4, <1>5, <1>6, <1>7, <1>14 DEF WayOK

\* The frame below the top, when a function returns to it.
LEMMA Caller ==
    ASSUME MachineOK, Pops, stack' # <<>>
    PROVE  LET m == Len(stack) IN
           /\ m - 1 \in 1 .. m - 1 /\ m \in Nat
           /\ Top' = stack[m - 1] /\ stack[m - 1].node \in Paths
           /\ Here' = NodeAt(stack[m - 1].node)
           /\ Top.node = StepPath(stack[m - 1].node, Len(stack[m - 1].got) + 1)
           /\ Len(stack[m - 1].got) + 1 \in 1 .. Steps(NodeAt(stack[m - 1].node))
  <1>1. PathsOK /\ StackOK /\ stack # <<>> /\ UNCHANGED program
    BY PathsHold DEF MachineOK, Pops
  <1>2. PICK m : m = Len(stack)
    OBVIOUS
  <1>3. /\ m \in Nat /\ m > 0 /\ Top = stack[m]
        /\ stack' \in Seq(Frames) /\ Len(stack') = m - 1
        /\ \A k \in 1 .. m - 1 : stack'[k] = stack[k]
    BY <1>1, <1>2, TopFacts DEF Pops
  <1>4. m - 1 \in 1 .. m - 1
    BY <1>1, <1>3
  <1>5. Top' = stack[m - 1]
    BY <1>3, <1>4 DEF Top
  <1>6. stack[m - 1].node \in Paths /\ Len(stack[m - 1].got) \in Nat
        /\ Steps(NodeAt(stack[m - 1].node)) \in Nat
    <2>1. m - 1 \in 1 .. Len(stack)
      BY <1>2, <1>3, <1>4
    <2>. QED
      BY <2>1, ReachedSteps
  <1>7. Here' = NodeAt(stack[m - 1].node)
    <2>1. PICK q : q = stack[m - 1].node
      OBVIOUS
    <2>2. Here' = NodeAt(q)'
      BY <1>5, <2>1 DEF Here
    <2>. QED
      BY <1>1, <2>1, <2>2, PathsSame
  <1>8. /\ StepsLeft(m - 1)
        /\ stack[(m - 1) + 1].node = StepPath(stack[m - 1].node, Len(stack[m - 1].got) + 1)
    BY <1>1, <1>2, <1>4 DEF StackOK
  <1>9. Top.node = StepPath(stack[m - 1].node, Len(stack[m - 1].got) + 1)
    BY <1>3, <1>4, <1>8
  <1>. QED
    BY <1>2, <1>3, <1>4, <1>5, <1>6, <1>7, <1>8, <1>9 DEF StepsLeft

\* A return keeps what the frames know.
LEMMA PopsWay ==
    ASSUME MachineOK, WayOK, Step, Answers \/ ChildFailed
    PROVE  WayOK'
  <1>1. /\ PathsOK /\ StackOK /\ Pops /\ stack # <<>> /\ UNCHANGED program
        /\ DataGrows /\ NodeAt(Top.node) = Here /\ HasShape(Here, Operators)
    <2>1. Pops
      BY ChildFailedStep DEF Answers
    <2>. QED
      BY <2>1, StepProgram, StepGrows, TopChildren DEF Pops, MachineOK
  <1>2. Paths' = Paths /\ \A p : NodeAt(p)' = NodeAt(p)
    BY <1>1, PathsSame
  <1>3. ASSUME NEW p, NEW type, Resolved(p, type)'
        PROVE  \/ Resolved(p, type) /\ p \in Paths /\ type \in Types
               \/ p = Top.node /\ type = returned'.type /\ returned'.outcome = "success"
    BY <1>1, <1>3, PopsResolve, ResolvedNodes
  <1>4. Here.type # "function" /\ returned'.outcome = "success" => Answers
    BY ChildFailedStep DEF Skipping
  <1>5. NamesResolved'
    <2>1. SUFFICES ASSUME NEW p \in Paths, NEW type \in Types', Resolved(p, type)',
                          NodeAt(p).type = "identifier"
                   PROVE  p \in DOMAIN typed' /\ Found(table', NameAt(p))
      BY <1>2 DEF NamesResolved, NameAt
    <2>2. CASE Resolved(p, type) /\ type \in Types
      <3>1. p \in DOMAIN typed /\ Found(table, NameAt(p))
        BY <2>1, <2>2 DEF WayOK, NamesResolved
      <3>. QED
        BY <1>1, <3>1 DEF DataGrows
    <2>3. CASE p = Top.node /\ returned'.outcome = "success"
      <3>1. Here.type = "identifier" /\ Answers
        BY <1>1, <1>4, <2>1, <2>3
      <3>2. Identifier
        BY <3>1, AnsweredBy
      <3>3. /\ Found(table, Here.name) /\ UNCHANGED table
            /\ Mark({Top.node}, SymbolOf(table, Here.name).type)
        BY <2>3, <3>2, IdentifierStep
      <3>4. Top.node \in DOMAIN typed'
        BY <3>3, Marks
      <3>. QED
        BY <1>1, <2>3, <3>3, <3>4 DEF NameAt
    <2>. QED
      BY <1>3, <2>1, <2>2, <2>3
  <1>6. NullsUnknown'
    <2>1. SUFFICES ASSUME NEW p \in Paths, NEW type \in Types', Resolved(p, type)',
                          NodeAt(p).type = "typed", Kind(NodeAt(p), 2) = "null"
                   PROVE  type = "unknown"
      BY <1>2 DEF NullsUnknown, Kind
    <2>2. CASE Resolved(p, type) /\ type \in Types
      BY <2>1, <2>2 DEF WayOK, NullsUnknown
    <2>3. CASE p = Top.node /\ type = returned'.type /\ returned'.outcome = "success"
      <3>1. Here.type = "typed" /\ Answers /\ Kind(Here, 2) = "null"
        BY <1>1, <1>4, <2>1, <2>3
      <3>2. TypeAssignment
        BY <3>1, AnsweredBy
      <3>3. returned' = Success("unknown")
        BY <3>1, <3>2, TypeAssignmentStep
      <3>. QED
        BY <2>3, <3>3 DEF Success
    <2>. QED
      BY <1>3, <2>1, <2>2, <2>3
  <1>7. ReturnTypesFound'
    <2>1. SUFFICES ASSUME NEW f \in Paths, NodeAt(f).type = "function", Child(f, 2) \in DOMAIN typed'
                   PROVE  Found(table', NameAt(Child(f, 2)))
      BY <1>2 DEF ReturnTypesFound, NameAt
    <2>2. Found(table, NameAt(Child(f, 2)))
      <3>1. CASE Child(f, 2) \in DOMAIN typed
        BY <2>1, <3>1 DEF WayOK, ReturnTypesFound
      <3>2. CASE Child(f, 2) \notin DOMAIN typed
        <4>1. Top.node = Child(f, 2) /\ Found(table, Here.name)
          BY <2>1, <3>2, ReturnTypeMarked
        <4>. QED
          BY <1>1, <4>1 DEF NameAt
      <3>. QED
        BY <3>1, <3>2
    <2>. QED
      BY <1>1, <2>2 DEF DataGrows
  <1>8. SkipReason'
    <2>1. SUFFICES ASSUME stack' # <<>>, returned'.outcome = "failure", Skipping'
                   PROVE  ~Found(table, NameAt(Child(Top.node, 2)))'
      BY DEF SkipReason
    <2>2. PICK m, n : m = Len(stack) /\ n = stack[m - 1].node
      OBVIOUS
    <2>3. /\ Top' = stack[m - 1] /\ n \in Paths /\ Here' = NodeAt(n)
          /\ Top.node = StepPath(n, Len(stack[m - 1].got) + 1)
      BY <1>1, <2>1, <2>2, Caller
    <2>4. NodeAt(n).type = "function" /\ Len(stack[m - 1].got) = 1
      BY <2>1, <2>3 DEF Skipping
    <2>5. /\ Top.node = Child(n, 2) /\ Here.type = "identifier"
      BY <1>1, <2>3, <2>4, FunctionChildren
    <2>6. Answers
      <3>1. Steps(Here) = 0
        BY <1>1, <2>5, OrderOf DEF Steps, Childless
      <3>2. returned.outcome # "failure"
        <4>1. returned.outcome = "failure" => StepsLeft(Len(stack))
          BY <1>1 DEF StackOK
        <4>2. Top = stack[Len(stack)] /\ Len(Top.got) \in Nat
          BY <1>1, TopFacts
        <4>. QED
          BY <3>1, <4>1, <4>2 DEF StepsLeft, Here
      <3>. QED
        BY <3>2, ChildFailedStep
    <2>7. ~Found(table, Here.name) /\ UNCHANGED table
      <3>1. Identifier
        BY <2>5, <2>6, AnsweredBy
      <3>2. returned'.outcome # "success"
        BY <2>1
      <3>. QED
        BY <3>1, <3>2, IdentifierStep DEF Success
    <2>8. Top'.node = n /\ NodeAt(Child(n, 2))' = Here
      BY <1>1, <1>2, <2>2, <2>3, <2>5
    <2>9. PICK q : q = Child(n, 2)
      OBVIOUS
    <2>10. NameAt(q)' = Here.name /\ Child(Top.node, 2)' = q
      BY <2>8, <2>9 DEF NameAt, Child
    <2>. QED
      BY <2>7, <2>10
  <1>9. FramesVisible'
    <2>1. /\ Len(stack) \in Nat /\ Len(stack') = Len(stack) - 1
          /\ \A k \in 1 .. Len(stack) - 1 : stack'[k] = stack[k]
      BY <1>1, TopFacts DEF Pops
    <2>2. ASSUME NEW k \in 1 .. Len(stack') PROVE Visible(stack[k].node)'
      <3>1. k \in 1 .. Len(stack) - 1 /\ k \in 1 .. Len(stack)
        BY <2>1
      <3>2. PICK q : q = stack[k].node
        OBVIOUS
      <3>3. q \in Paths /\ Visible(q) /\ stack'[k].node = q
        BY <2>1, <3>1, <3>2, ReachedSteps DEF WayOK, FramesVisible
      <3>4. Visible(q)'
        BY <3>3, VisibleKept
      <3>. QED
        BY <3>3, <3>4
    <2>. QED
      BY <2>2 DEF FramesVisible
  <1>. QED
    BY <1>5, <1>6, <1>7, <1>8, <1>9 DEF WayOK

\* Every step keeps what the frames know.
LEMMA WayKept ==
    ASSUME MachineOK, WayOK, Step
    PROVE  WayOK'
  BY StepKinds, PushesWay, PopsWay

\* What was resolved depends on the variables alone.
LEMMA ResolvedSame ==
    ASSUME UNCHANGED vars
    PROVE  \A p, type : Resolved(p, type)' = Resolved(p, type)
  <1>1. UNCHANGED <<program, typed, stack, returned>>
    BY DEF vars
  <1>2. \A p, j : StepPath(p, j)' = StepPath(p, j)
    BY <1>1, PathsSame
  <1>3. \A k : Reached(k)' = Reached(k)
    BY <1>1 DEF Reached
  <1>4. \A k, j : Got(k, j)' = Got(k, j)
    BY <1>1 DEF Got
  <1>5. \A k, j : StepPath(stack[k].node, j)' = StepPath(stack[k].node, j)
    BY <1>1, <1>2
  <1>. QED
    BY <1>1, <1>3, <1>4, <1>5 DEF Resolved

\* So does what the frames know.
LEMMA WaySame ==
    ASSUME WayOK, UNCHANGED vars
    PROVE  WayOK'
  <1>1. UNCHANGED <<program, table, typed, stack, returned>>
    BY DEF vars
  <1>2. /\ Paths' = Paths /\ \A p : NodeAt(p)' = NodeAt(p)
        /\ \A p, type : Resolved(p, type)' = Resolved(p, type)
    BY <1>1, PathsSame, ResolvedSame
  <1>3. Top' = Top /\ Here' = Here /\ Skipping' = Skipping
    BY <1>1, <1>2 DEF Top, Here, Skipping
  <1>4. Skipped' = Skipped
    BY <1>1, <1>2 DEF Skipped
  <1>5. \A p : Visible(p)' = Visible(p)
    BY <1>4 DEF Visible
  <1>6. NamesResolved'
    BY <1>1, <1>2 DEF WayOK, NamesResolved, NameAt
  <1>7. NullsUnknown'
    BY <1>2 DEF WayOK, NullsUnknown
  <1>8. ReturnTypesFound'
    BY <1>1, <1>2 DEF WayOK, ReturnTypesFound, NameAt
  <1>9. SkipReason'
    BY <1>1, <1>2, <1>3 DEF WayOK, SkipReason, NameAt
  <1>10. FramesVisible'
    BY <1>1, <1>5 DEF WayOK, FramesVisible
  <1>. QED
    BY <1>6, <1>7, <1>8, <1>9, <1>10 DEF WayOK

-----------------------------------------------------------------------------
\* Where the symbols come from, and why type resolution crashes.

\* A symbol with a location is that of a declaration that can be seen; when it
\* is a function that the declaration declares, it points to it.
Origin ==
    \A s \in Held(table) : s.located =>
        \E p \in Declarations :
            /\ DeclaredName(p) = s.name
            /\ s.type = "function" =>
                  \A d \in Paths : DeclaresFunction(d) /\ Child(d, 1) = p => s.decl = Child(d, 2)

\* The nodes of some types are those that can be seen.
LEMMA OfVisible ==
    ASSUME NEW kinds, NEW p
    PROVE  p \in Of(kinds) <=> p \in Paths /\ NodeAt(p).type \in kinds /\ Visible(p)
  BY DEF Of, Visible

\* They stay so.
LEMMA OfKept ==
    ASSUME MachineOK, Step, NEW kinds, NEW p \in Of(kinds)
    PROVE  /\ p \in Paths' /\ NodeAt(p)'.type = NodeAt(p).type /\ Visible(p)'
           /\ p \in Of(kinds)'
  <1>1. p \in Paths /\ NodeAt(p).type \in kinds /\ Visible(p)
    BY OfVisible
  <1>2. p \in Paths' /\ NodeAt(p)'.type = NodeAt(p).type
    BY <1>1, StepProgram DEF PathsKept
  <1>3. Visible(p)'
    BY <1>1, VisibleKept
  <1>. QED
    BY <1>1, <1>2, <1>3 DEF Of, Visible

\* A declaration stays as it is.
LEMMA DeclarationKept ==
    ASSUME MachineOK, Step, NEW p \in Paths, NodeAt(p).type = "typed"
    PROVE  /\ NodeAt(p)' = NodeAt(p) /\ p \in Paths'
           /\ NodeAt(Child(p, 1))' = NodeAt(Child(p, 1))
           /\ DeclaredName(p)' = DeclaredName(p)
  <1>1. PathsOK /\ NodeAt(p)' = NodeAt(p) /\ p \in Paths'
    BY StepProgram DEF PathsKept
  <1>2. Child(p, 1) \in Paths /\ NodeAt(Child(p, 1)).type = "identifier"
    BY <1>1, TypedChildren
  <1>3. NodeAt(Child(p, 1))' = NodeAt(Child(p, 1))
    BY <1>2, StepProgram
  <1>. QED
    BY <1>1, <1>3 DEF DeclaredName, NameAt

\* The node above another one was there before.
LEMMA AboveKept ==
    ASSUME MachineOK, Step, NEW d \in Paths', NEW i \in Nat, Child(d, i) \in Paths
    PROVE  /\ d \in Paths /\ NodeAt(d)'.type = NodeAt(d).type
           /\ NodeAt(d).type # "scope" => NodeAt(d)' = NodeAt(d)
  <1>1. PathsOK /\ PathsOK' /\ PathsKept
    BY StepProgram
  <1>2. d \in Numbers
    BY <1>1 DEF PathsOK
  <1>3. Within(Child(d, i), d)
    BY <1>2, WithinChild, WithinItself
  <1>4. d \in Paths
    BY <1>1, <1>2, <1>3, PrefixesLead
  <1>. QED
    BY <1>4, StepProgram DEF PathsKept

\* A node that declares a function has the shape that says so.
LEMMA Declares ==
    ASSUME PathsOK, NEW d \in Paths, DeclaresFunction(d)
    PROVE  /\ d \in Numbers
           /\ Child(d, 1) \in Paths /\ NodeAt(Child(d, 1)).type = "typed"
           /\ Kind(NodeAt(Child(d, 1)), 2) = "null"
           /\ Child(d, 2) \in Paths /\ NodeAt(Child(d, 2)).type = "function"
           /\ NodeAt(d).type \in {"assign", "constant"}
  <1>1. NodeAt(d).type \in {"assign", "constant"}
    BY DEF DeclaresFunction
  <1>2. /\ d \in Numbers
        /\ Child(d, 1) \in Paths /\ Child(d, 2) \in Paths
        /\ NodeAt(Child(d, 1)) = NodeAt(d).children[1]
        /\ NodeAt(Child(d, 2)) = NodeAt(d).children[2]
    BY <1>1, PairChildren
  <1>. QED
    BY <1>1, <1>2 DEF DeclaresFunction, Kind

\* The declaration an assignment or a constant makes, when it is resolved.
LEMMA NewDeclaration ==
    ASSUME MachineOK, WayOK, Running, Here.type \in {"assign", "constant"}, Kind(Here, 1) = "typed"
    PROVE  /\ Top.node \in Paths /\ Top.node \in Numbers /\ NodeAt(Top.node) = Here
           /\ Visible(Top.node)
           /\ Child(Top.node, 1) \in Declarations /\ Child(Top.node, 1) \in Paths
           /\ NodeAt(Child(Top.node, 1)) = Here.children[1]
           /\ NodeAt(Child(Top.node, 1)).type = "typed"
           /\ DeclaredName(Child(Top.node, 1)) = NewName
           /\ Child(Child(Top.node, 1), 1) \in Paths
           /\ NodeAt(Child(Child(Top.node, 1), 1)).type = "identifier"
  <1>1. PathsOK /\ StackOK /\ stack # <<>>
    BY PathsHold DEF MachineOK, Running
  <1>2. /\ Top.node \in Paths /\ Top.node \in Numbers /\ NodeAt(Top.node) = Here
        /\ Len(stack) \in Nat /\ Len(stack) > 0 /\ Top = stack[Len(stack)]
    BY <1>1, TopChildren, TopFacts
  <1>3. Visible(Top.node)
    BY <1>2 DEF WayOK, FramesVisible
  <1>4. /\ Child(Top.node, 1) \in Paths
        /\ NodeAt(Child(Top.node, 1)) = Here.children[1]
        /\ NodeAt(Child(Top.node, 1)).type = "typed"
        /\ 1 \in DOMAIN Here.children
    BY <1>1, <1>2, PairChildren
  <1>5. Visible(Child(Top.node, 1))
    BY <1>1, <1>2, <1>3, <1>4, VisibleChild
  <1>6. Child(Top.node, 1) \in Declarations
    BY <1>4, <1>5, OfVisible DEF Declarations
  <1>7. /\ Child(Child(Top.node, 1), 1) \in Paths
        /\ NodeAt(Child(Child(Top.node, 1), 1)) = Here.children[1].children[1]
        /\ NodeAt(Child(Child(Top.node, 1), 1)).type = "identifier"
    BY <1>1, <1>4, TypedChildren
  <1>. QED
    BY <1>2, <1>3, <1>4, <1>6, <1>7 DEF DeclaredName, NameAt, NewName

\* The same for a name with a type.
LEMMA OldDeclaration ==
    ASSUME MachineOK, WayOK, Running, Here.type = "typed"
    PROVE  /\ Top.node \in Declarations /\ Top.node \in Paths /\ NodeAt(Top.node) = Here
           /\ DeclaredName(Top.node) = DeclaringName
           /\ Child(Top.node, 1) \in Paths
  <1>1. PathsOK /\ StackOK /\ stack # <<>>
    BY PathsHold DEF MachineOK, Running
  <1>2. /\ Top.node \in Paths /\ NodeAt(Top.node) = Here
        /\ Len(stack) \in Nat /\ Len(stack) > 0 /\ Top = stack[Len(stack)]
    BY <1>1, TopChildren, TopFacts
  <1>3. Visible(Top.node)
    BY <1>2 DEF WayOK, FramesVisible
  <1>4. NodeAt(Child(Top.node, 1)) = Here.children[1] /\ Child(Top.node, 1) \in Paths
    BY <1>1, <1>2, TypedChildren
  <1>. QED
    BY <1>2, <1>3, <1>4, OfVisible DEF Declarations, DeclaredName, NameAt, DeclaringName

\* Every step keeps where the symbols come from.
LEMMA OriginKept ==
    ASSUME MachineOK, WayOK, Origin, Step
    PROVE  Origin'
  <1>1. PathsOK /\ PathsOK' /\ MachineOK' /\ Good(table) /\ Good(table')
    BY StepProgram DEF MachineOK, TableOK
  <1>2. ASSUME NEW p \in Declarations
        PROVE  p \in Declarations' /\ DeclaredName(p)' = DeclaredName(p)
    <2>1. p \in Paths /\ NodeAt(p).type = "typed"
      BY OfVisible DEF Declarations
    <2>. QED
      BY <2>1, DeclarationKept, OfKept DEF Declarations
  <1>3. ASSUME NEW p \in Paths, NEW d \in Paths', DeclaresFunction(d)', Child(d, 1) = p
        PROVE  d \in Paths /\ DeclaresFunction(d)
    <2>1. /\ d \in Paths /\ NodeAt(d)'.type = NodeAt(d).type
          /\ NodeAt(d).type # "scope" => NodeAt(d)' = NodeAt(d)
      BY <1>3, AboveKept
    <2>2. NodeAt(d)'.type \in {"assign", "constant"}
      BY <1>3 DEF DeclaresFunction
    <2>3. NodeAt(d)' = NodeAt(d)
      BY <2>1, <2>2
    <2>. QED
      BY <1>3, <2>1, <2>3 DEF DeclaresFunction
  <1>4. ASSUME NEW s \in Held(table), s.located
        PROVE  \E p \in Declarations' :
                 /\ DeclaredName(p)' = s.name
                 /\ s.type = "function" =>
                       \A d \in Paths' : DeclaresFunction(d)' /\ Child(d, 1) = p => s.decl = Child(d, 2)
    <2>1. PICK p \in Declarations :
            /\ DeclaredName(p) = s.name
            /\ s.type = "function" =>
                  \A d \in Paths : DeclaresFunction(d) /\ Child(d, 1) = p => s.decl = Child(d, 2)
      BY <1>4 DEF Origin
    <2>2. p \in Paths
      BY OfVisible DEF Declarations
    <2>. QED
      BY <1>2, <1>3, <2>1, <2>2
  <1>5. ASSUME NEW s, s \in Held(table'), s \notin Held(table), s.located
        PROVE  \E p \in Declarations' :
                 /\ DeclaredName(p)' = s.name
                 /\ s.type = "function" =>
                       \A d \in Paths' : DeclaresFunction(d)' /\ Child(d, 1) = p => s.decl = Child(d, 2)
    <2>1. \/ /\ Answers /\ TypeAssignment /\ Kind(Here, 2) # "null"
             /\ \E its \in Types : TableAdds(DeclaringName, its, FALSE, Unwritten)
          \/ Answers /\ DeclareDeduced /\ NameDeclared(Results[1])
      BY <1>5, DataSteps DEF TableHolds
    <2>2. CASE /\ Answers /\ TypeAssignment /\ Kind(Here, 2) # "null"
               /\ \E its \in Types : TableAdds(DeclaringName, its, FALSE, Unwritten)
      <3>1. Here.type = "typed" /\ Running
        BY <2>2, TypeAssignmentStep DEF Answers
      <3>2. s.name = DeclaringName
        BY <1>5, <2>2 DEF TableAdds
      <3>3. /\ Top.node \in Declarations /\ Top.node \in Paths /\ NodeAt(Top.node) = Here
            /\ DeclaredName(Top.node) = DeclaringName
        BY <3>1, OldDeclaration
      <3>4. ASSUME NEW d \in Paths', DeclaresFunction(d)', Child(d, 1) = Top.node PROVE FALSE
        <4>1. d \in Paths /\ DeclaresFunction(d)
          BY <1>3, <3>3, <3>4
        <4>. QED
          BY <1>1, <2>2, <3>3, <3>4, <4>1, Declares
      <3>5. PICK p : p = Top.node
        OBVIOUS
      <3>6. p \in Declarations /\ DeclaredName(p) = s.name
        BY <3>2, <3>3, <3>5
      <3>7. p \in Declarations' /\ DeclaredName(p)' = s.name
        BY <1>2, <3>6
      <3>8. \A d \in Paths' : DeclaresFunction(d)' /\ Child(d, 1) = p => s.decl = Child(d, 2)
        BY <3>4, <3>5
      <3>. QED
        BY <3>7, <3>8
    <2>3. CASE Answers /\ DeclareDeduced /\ NameDeclared(Results[1])
      <3>1. Here.type \in {"assign", "constant"} /\ Kind(Here, 1) = "typed" /\ Running
        BY <2>3, DeclareDeducedStep DEF Answers
      <3>2. /\ s.name = NewName /\ s.type = Results[1]
            /\ s.type = "function" => s.decl = Child(Top.node, 2)
        BY <1>5, <2>3 DEF NameDeclared, TableAdds
      <3>3. /\ Top.node \in Numbers
            /\ Child(Top.node, 1) \in Declarations /\ Child(Top.node, 1) \in Paths
            /\ DeclaredName(Child(Top.node, 1)) = NewName
        BY <3>1, NewDeclaration
      <3>4. PICK p, n : n = Top.node /\ p = Child(n, 1)
        OBVIOUS
      <3>5. ASSUME NEW d \in Paths', Child(d, 1) = p PROVE d = n
        BY <1>1, <3>3, <3>4, <3>5, ChildInjective DEF PathsOK
      <3>. QED
        BY <1>2, <3>2, <3>3, <3>4, <3>5
    <2>. QED
      BY <2>1, <2>2, <2>3
  <1>. QED
    BY <1>4, <1>5 DEF Origin

\* The symbols of the start are those of the built-in types.
LEMMA OriginStarts == Init => Origin
  <1>. SUFFICES ASSUME Init PROVE Origin
    OBVIOUS
  <1>1. table \in Created(FloatSymbol, IntSymbol)
    BY DEF Init, FloatSymbol, IntSymbol
  <1>2. Held(table) \subseteq {FloatSymbol, IntSymbol}
    BY <1>1, CreatedHeld
  <1>3. FloatSymbol.located = FALSE /\ IntSymbol.located = FALSE
    BY DEF FloatSymbol, IntSymbol, Builtin, Symbol
  <1>. QED
    BY <1>2, <1>3 DEF Origin

\* The symbols of the built-in types.
LEMMA Builtins ==
    /\ FloatSymbol.name = "float" /\ IntSymbol.name = "int"
    /\ FloatSymbol.type = "float" /\ IntSymbol.type = "integer"
    /\ FloatSymbol.constant = TRUE /\ IntSymbol.constant = TRUE
    /\ FloatSymbol.located = FALSE /\ IntSymbol.located = FALSE
  BY DEF FloatSymbol, IntSymbol, Builtin, Symbol

\* A symbol without a location is that of a built-in type.
LEMMA FoundBuiltin ==
    ASSUME TableOK, NEW name, Found(table, name), ~SymbolOf(table, name).located
    PROVE  /\ name \in BuiltinNames
           /\ SymbolOf(table, name).constant
           /\ SymbolOf(table, name).type # "function"
  BY FoundSymbol, Builtins DEF BuiltinNames

\* What a name that was resolved says.
LEMMA NameResolved ==
    ASSUME MachineOK, WayOK, Running, NEW j \in 1 .. Len(Results),
           NodeAt(StepPath(Top.node, j)).type = "identifier"
    PROVE  /\ StepPath(Top.node, j) \in DOMAIN typed
           /\ Found(table, NameAt(StepPath(Top.node, j)))
  <1>1. Resolved(StepPath(Top.node, j), Results[j])
    BY ResultsResolved
  <1>. QED
    BY <1>1, ResolvedNodes DEF WayOK, NamesResolved

\* The variable that is assigned to was found, and so was the function called.
LEMMA VariableFound ==
    ASSUME MachineOK, WayOK, Running, Here.type = "assign", Kind(Here, 1) = "identifier",
           Len(Results) = 2
    PROVE  /\ Top.node \in Of({"assign"}) /\ NodeAt(Top.node) = Here
           /\ Child(Top.node, 1) \in Paths
           /\ NodeAt(Child(Top.node, 1)) = Here.children[1]
           /\ NodeAt(Child(Top.node, 1)).type = "identifier"
           /\ Found(table, Here.children[1].name)
  <1>1. PathsOK /\ StackOK /\ stack # <<>>
    BY PathsHold DEF MachineOK, Running
  <1>2. /\ Top.node \in Paths /\ NodeAt(Top.node) = Here
        /\ Len(stack) \in Nat /\ Len(stack) > 0 /\ Top = stack[Len(stack)]
    BY <1>1, TopChildren, TopFacts
  <1>3. Visible(Top.node)
    BY <1>2 DEF WayOK, FramesVisible
  <1>4. /\ Child(Top.node, 1) \in Paths
        /\ NodeAt(Child(Top.node, 1)) = Here.children[1]
        /\ NodeAt(Child(Top.node, 1)).type = "identifier"
        /\ StepPath(Top.node, 2) = Child(Top.node, 1)
    BY <1>1, <1>2, PairChildren
  <1>5. Found(table, NameAt(Child(Top.node, 1)))
    BY <1>4, NameResolved
  <1>. QED
    BY <1>2, <1>3, <1>4, <1>5, OfVisible DEF NameAt

\* The name that is called was found.
LEMMA CalleeFound ==
    ASSUME MachineOK, WayOK, Running, Here.type = "call", Len(Results) >= 1
    PROVE  /\ Top.node \in Of({"call"}) /\ NodeAt(Top.node) = Here
           /\ NodeAt(Child(Top.node, 1)) = Here.children[1]
           /\ Found(table, NameAt(Child(Top.node, 1)))
           /\ Callee = SymbolOf(table, NameAt(Child(Top.node, 1)))
           /\ Callee \in Held(table) /\ Callee.name = NameAt(Child(Top.node, 1))
  <1>1. PathsOK /\ StackOK /\ stack # <<>> /\ TableOK
    BY PathsHold DEF MachineOK, Running
  <1>2. /\ Top.node \in Paths /\ NodeAt(Top.node) = Here
        /\ Len(stack) \in Nat /\ Len(stack) > 0 /\ Top = stack[Len(stack)]
        /\ Len(Results) \in Nat
    BY <1>1, TopChildren, TopFacts
  <1>3. Visible(Top.node)
    BY <1>2 DEF WayOK, FramesVisible
  <1>4. /\ NodeAt(Child(Top.node, 1)) = Here.children[1]
        /\ NodeAt(Child(Top.node, 1)).type = "identifier"
        /\ Order(Here) = <<1>>
    BY <1>1, <1>2, CallArguments
  <1>5. StepPath(Top.node, 1) = Child(Top.node, 1)
    BY <1>2, <1>4 DEF StepPath
  <1>6. 1 \in 1 .. Len(Results)
    BY <1>2
  <1>7. Found(table, NameAt(Child(Top.node, 1)))
    BY <1>4, <1>5, <1>6, NameResolved
  <1>8. Callee = SymbolOf(table, NameAt(Child(Top.node, 1)))
    BY <1>4 DEF Callee, NameAt
  <1>. QED
    BY <1>1, <1>2, <1>3, <1>4, <1>7, <1>8, OfVisible, FoundSymbol

\* A call of what was declared as a function reaches its declaration.
LEMMA CalleeDeclared ==
    ASSUME MachineOK, WayOK, Origin, Running, Here.type = "call", Len(Results) >= 1,
           Callee.type = "function", ~Misread
    PROVE  \E d \in Callees(Top.node) :
             /\ d \in Paths /\ DeclaresFunction(d)
             /\ Callee.decl = Child(d, 2)
             /\ Child(d, 1) \in Declarations
             /\ DeclaredName(Child(d, 1)) = NameAt(Child(Top.node, 1))
  <1>1. /\ Top.node \in Of({"call"}) /\ Callee \in Held(table)
        /\ Callee.name = NameAt(Child(Top.node, 1))
        /\ Found(table, NameAt(Child(Top.node, 1)))
        /\ Callee = SymbolOf(table, NameAt(Child(Top.node, 1)))
    BY CalleeFound
  <1>2. Callee.located
    <2>1. Callee \in {FloatSymbol, IntSymbol} => Callee.type # "function"
      BY Builtins
    <2>. QED
      BY <1>1, <2>1 DEF MachineOK, TableOK
  <1>3. PICK p \in Declarations :
           /\ DeclaredName(p) = Callee.name
           /\ \A d \in Paths : DeclaresFunction(d) /\ Child(d, 1) = p => Callee.decl = Child(d, 2)
    BY <1>1, <1>2 DEF Origin
  <1>4. PICK d \in Callees(Top.node) : p = Child(d, 1)
    BY <1>1, <1>3 DEF Misread
  <1>5. d \in Paths /\ DeclaresFunction(d)
    BY <1>4, OfVisible DEF Callees
  <1>. QED
    BY <1>1, <1>3, <1>4, <1>5

\* The declaration of a function that is called was written, unless the call
\* reads it for what it is not.
LEMMA CalleeWritten ==
    ASSUME MachineOK, WayOK, Origin, Running, Here.type = "call", Len(Results) >= 1, ~Misread
    PROVE  Written
  <1>1. PathsOK
    BY PathsHold DEF MachineOK
  <1>2. SUFFICES ASSUME Callee.type = "function"
                 PROVE  Callee.decl # Unwritten
    BY DEF Written
  <1>3. PICK d \in Callees(Top.node) :
           d \in Paths /\ DeclaresFunction(d) /\ Callee.decl = Child(d, 2)
    BY <1>2, CalleeDeclared
  <1>4. Child(d, 2) \in Paths
    BY <1>1, <1>3, Declares
  <1>5. Child(d, 2) \in Seq(Nat)
    BY <1>1, <1>4 DEF PathsOK, Numbers
  <1>. QED
    BY <1>3, <1>5, UnwrittenAssumption

\* A step that crashes has one of the known reasons.
LEMMA CrashReason ==
    ASSUME MachineOK, WayOK, Origin, Step, returned'.outcome = "crash"
    PROVE  UNCHANGED <<program, table, typed>> /\ (BuiltinTouched \/ Misread)
  <1>1. PathsOK /\ TableOK
    BY PathsHold DEF MachineOK
  <1>2. ~PushesOnly /\ ~ChildFailed
    <2>1. returned'.outcome # "none"
      OBVIOUS
    <2>2. ASSUME PushesOnly PROVE FALSE
      <3>1. returned' = Pending
        BY <2>2 DEF PushesOnly, Pushes
      <3>. QED
        BY <3>1 DEF Pending
    <2>3. ~ChildFailed
      BY ChildFailedStep DEF Success
    <2>. QED
      BY <2>2, <2>3
  <1>3. Answers /\ Running /\ UNCHANGED program
    BY <1>2, StepKinds DEF Answers, Pops
  <1>4. \A type : Success(type).outcome # "crash"
    BY DEF Success
  <1>5. CASE Here.type = "typed"
    <2>1. TypeAssignment
      BY <1>3, <1>5, AnsweredBy
    <2>2. /\ UNCHANGED <<table, typed>>
          /\ Found(table, DeclaringName) /\ ~SymbolOf(table, DeclaringName).located
      BY <1>4, <2>1, TypeAssignmentStep DEF NameAdded
    <2>3. Top.node \in Declarations /\ DeclaredName(Top.node) = DeclaringName
      BY <1>3, <1>5, OldDeclaration
    <2>4. DeclaringName \in BuiltinNames
      BY <1>1, <2>2, FoundBuiltin
    <2>5. BuiltinTouched
      BY <2>3, <2>4 DEF BuiltinTouched, Declarations
    <2>. QED
      BY <1>3, <2>2, <2>5
  <1>6. CASE DeclareDeduced
    <2>1. /\ Here.type \in {"assign", "constant"} /\ Kind(Here, 1) = "typed"
          /\ Found(table, NewName) /\ ~SymbolOf(table, NewName).located
          /\ UNCHANGED <<table, typed>>
      BY <1>4, <1>6, DeclareDeducedStep DEF NameDeclared
    <2>2. Child(Top.node, 1) \in Declarations /\ DeclaredName(Child(Top.node, 1)) = NewName
      BY <1>3, <2>1, NewDeclaration
    <2>3. NewName \in BuiltinNames
      BY <1>1, <2>1, FoundBuiltin
    <2>4. BuiltinTouched
      BY <2>2, <2>3 DEF BuiltinTouched, Declarations
    <2>. QED
      BY <1>3, <2>1, <2>4
  <1>7. CASE AssignVariable
    <2>1. /\ Here.type = "assign" /\ Kind(Here, 1) = "identifier"
          /\ UNCHANGED <<table, typed>>
          /\ ~SymbolOf(table, Here.children[1].name).located
      BY <1>4, <1>7, AssignVariableStep
    <2>2. Len(Results) = 2
      <3>1. At({"assign"}) /\ HasShape(Here, Operators) /\ Len(Results) = Len(Order(Here))
        BY <1>7, AtFacts DEF AssignVariable
      <3>2. Order(Here) = <<2, 1>>
        BY <2>1, <3>1, OrderOf
      <3>. QED
        BY <3>1, <3>2
    <2>3. /\ Top.node \in Of({"assign"})
          /\ NodeAt(Child(Top.node, 1)) = Here.children[1]
          /\ NodeAt(Child(Top.node, 1)).type = "identifier"
          /\ Found(table, Here.children[1].name)
      BY <1>3, <2>1, <2>2, VariableFound
    <2>4. Here.children[1].name \in BuiltinNames
      BY <1>1, <2>1, <2>3, FoundBuiltin
    <2>5. BuiltinTouched
      BY <2>3, <2>4 DEF BuiltinTouched, NameAt
    <2>. QED
      BY <1>3, <2>1, <2>5
  <1>8. CASE Call
    <2>1. /\ Here.type = "call" /\ Len(Results) = 1
          /\ UNCHANGED <<table, typed>>
          /\ ~Misread => Written
      BY <1>3, <1>8, CallStep, CalleeWritten
    <2>2. ASSUME ~Misread PROVE FALSE
      <3>0. Callee.type = "function" /\ NodeAt(Callee.decl).children = <<>>
        BY <1>2, <1>4, <1>8, <2>1, <2>2, CallStep
      <3>1. PICK d \in Callees(Top.node) :
               d \in Paths /\ DeclaresFunction(d) /\ Callee.decl = Child(d, 2)
        BY <1>3, <2>1, <2>2, <3>0, CalleeDeclared
      <3>2. Child(d, 2) \in Paths /\ NodeAt(Child(d, 2)).type = "function"
        BY <1>1, <3>1, Declares
      <3>3. Len(NodeAt(Child(d, 2)).children) = 3
        BY <1>1, <3>2, StatementKinds DEF PathsOK
      <3>4. NodeAt(Child(d, 2)).children # <<>>
        BY <3>3
      <3>. QED
        BY <3>0, <3>1, <3>4
    <2>. QED
      BY <1>3, <2>1, <2>2
  <1>9. CASE Literal
    BY <1>4, <1>9, LiteralStep
  <1>10. CASE Operator
    BY <1>4, <1>10, OperatorStep
  <1>11. CASE Identifier
    BY <1>4, <1>11, IdentifierStep
  <1>12. CASE DeclareTyped
    BY <1>4, <1>12, DeclareTypedStep
  <1>13. CASE Function
    BY <1>4, <1>13, FunctionStep
  <1>14. CASE Argument
    <2>1. /\ Here.type = "call" /\ ~Written /\ UNCHANGED <<table, typed>>
          /\ Len(Results) - 1 \in 1 .. Len(Arguments)
      BY <1>2, <1>4, <1>14, ArgumentStep
    <2>2. Len(Results) >= 1
      BY <1>3, <2>1, CallFacts
    <2>. QED
      BY <1>3, <2>1, <2>2, CalleeWritten
  <1>15. CASE CallStatement
    BY <1>4, <1>15, CallStatementStep
  <1>16. CASE Untyped
    BY <1>4, <1>16, UntypedStep
  <1>17. TypeAssignment => Here.type = "typed"
    BY TypeAssignmentStep
  <1>18. ~ResolveChild /\ ~ResolveStatement
    BY DEF ResolveChild, ResolveStatement, Enter, Pending
  <1>. QED
    BY <1>2, <1>5, <1>6, <1>7, <1>8, <1>9, <1>10, <1>11, <1>12, <1>13, <1>14, <1>15, <1>16,
       <1>17, <1>18 DEF Step

\* Nothing runs after a crash.
LEMMA CrashStops ==
    ASSUME Step
    PROVE  returned.outcome # "crash"
  BY DEF Step, ResolveChild, ResolveStatement, ChildFailed, Literal, Operator, Identifier,
         TypeAssignment, AssignVariable, DeclareDeduced, DeclareTyped, Function, Call, Argument,
         CallStatement, Untyped, At, Running

\* The reasons depend on the program and the marks alone.
LEMMA TouchesSame ==
    ASSUME UNCHANGED <<program, typed>>
    PROVE  BuiltinTouched' = BuiltinTouched /\ Misread' = Misread
  <1>1. Paths' = Paths /\ \A p : NodeAt(p)' = NodeAt(p)
    BY PathsSame
  <1>2. Skipped' = Skipped
    BY <1>1 DEF Skipped
  <1>3. \A kinds : Of(kinds)' = Of(kinds)
    BY <1>1, <1>2 DEF Of
  <1>4. /\ \A p : NameAt(p)' = NameAt(p) /\ DeclaredName(p)' = DeclaredName(p)
        /\ Declarations' = Declarations
    BY <1>1, <1>3 DEF NameAt, DeclaredName, Declarations
  <1>5. \A p : DeclaresFunction(p)' = DeclaresFunction(p)
    BY <1>1 DEF DeclaresFunction
  <1>6. \A c : Callees(c)' = Callees(c)
    BY <1>3, <1>4, <1>5 DEF Callees
  <1>7. BuiltinTouched' = BuiltinTouched
    BY <1>1, <1>3, <1>4 DEF BuiltinTouched
  <1>8. Misread' = Misread
    BY <1>3, <1>4, <1>6 DEF Misread
  <1>. QED
    BY <1>7, <1>8

CrashOK == MachineOK /\ WayOK /\ Origin /\ CrashesExplained

\* Type resolution crashes only on a redeclared or assigned built-in type and
\* on a call of a name that is declared as something else than a function
\* (type_info.c:74, :120, :182, :226, :310-313).
THEOREM CrashSafe == Spec => []CrashesExplained
  <1>1. Init => CrashOK
    <2>1. ASSUME Init PROVE CrashesExplained
      <3>1. returned = Pending
        BY <2>1 DEF Init
      <3>2. ~Crashed
        BY <3>1 DEF Pending, Crashed
      <3>. QED
        BY <3>2 DEF CrashesExplained
    <2>. QED
      BY <2>1, MachineStarts, WayStarts, OriginStarts DEF CrashOK
  <1>2. ASSUME MachineOK, WayOK, Origin, CrashesExplained, Step
        PROVE  WayOK' /\ Origin' /\ CrashesExplained'
    <2>1. WayOK' /\ Origin'
      BY <1>2, WayKept, OriginKept
    <2>2. CrashesExplained'
      <3>1. SUFFICES ASSUME returned'.outcome = "crash" PROVE BuiltinTouched' \/ Misread'
        BY DEF CrashesExplained, Crashed
      <3>2. UNCHANGED <<program, table, typed>> /\ (BuiltinTouched \/ Misread)
        BY <1>2, <3>1, CrashReason
      <3>. QED
        BY <3>2, TouchesSame
    <2>. QED
      BY <2>1, <2>2
  <1>3. ASSUME WayOK, Origin, CrashesExplained, UNCHANGED vars
        PROVE  WayOK' /\ Origin' /\ CrashesExplained'
    <2>1. UNCHANGED <<program, table, typed, stack, returned>>
      BY <1>3 DEF vars
    <2>2. WayOK'
      BY <1>3, WaySame
    <2>3. Paths' = Paths /\ \A p : NodeAt(p)' = NodeAt(p)
      BY <2>1, PathsSame
    <2>4. Declarations' = Declarations /\ \A p : DeclaredName(p)' = DeclaredName(p)
          /\ DeclaresFunction(p)' = DeclaresFunction(p)
      <3>1. Skipped' = Skipped
        BY <2>1, <2>3 DEF Skipped
      <3>. QED
        BY <2>3, <3>1 DEF Of, Declarations, DeclaredName, NameAt, DeclaresFunction
    <2>5. Origin'
      BY <1>3, <2>1, <2>3, <2>4 DEF Origin
    <2>6. CrashesExplained'
      BY <1>3, <2>1, TouchesSame DEF CrashesExplained, Crashed
    <2>. QED
      BY <2>2, <2>5, <2>6
  <1>4. CrashOK /\ MachineOK' /\ [Next]_vars => CrashOK'
    BY <1>2, <1>3 DEF Next, Finished, CrashOK
  <1>5. CrashOK => CrashesExplained
    BY DEF CrashOK
  <1>. QED
    BY <1>1, <1>4, <1>5, MachineSafe, PTL DEF Spec

-----------------------------------------------------------------------------
\* The steps of a node lead to nodes of which none is below another, and the
\* frames to nodes of which each is below the one before.

\* No path is within two children of another.
LEMMA BothWithin ==
    ASSUME NEW n \in Numbers, NEW i \in Nat, NEW j \in Nat, NEW p \in Numbers,
           Within(p, Child(n, i)), Within(p, Child(n, j))
    PROVE  i = j
  <1>1. /\ Child(n, i) \in Numbers /\ Len(Child(n, i)) = Len(n) + 1 /\ Child(n, i)[Len(n) + 1] = i
        /\ Child(n, j) \in Numbers /\ Len(Child(n, j)) = Len(n) + 1 /\ Child(n, j)[Len(n) + 1] = j
    BY ChildPath
  <1>2. Len(n) + 1 \in 1 .. Len(n) + 1
    BY DEF Numbers
  <1>3. p[Len(n) + 1] = i
    BY <1>1, <1>2, WithinPointwise
  <1>4. p[Len(n) + 1] = j
    BY <1>1, <1>2, WithinPointwise
  <1>. QED
    BY <1>3, <1>4

\* What is below a child of a node is below the node.
LEMMA WithinAbove ==
    ASSUME NEW n \in Numbers, NEW i \in Nat, NEW p \in Numbers, Within(p, Child(n, i))
    PROVE  Within(p, n)
  <1>1. Child(n, i) \in Numbers /\ Within(Child(n, i), n)
    BY ChildPath, WithinChild, WithinItself
  <1>. QED
    BY <1>1, WithinTransitive

\* The order of the children leaves none out, but for those of a call and of a
\* declaration, and takes none twice.
LEMMA OrderShapes ==
    ASSUME NEW node, HasShape(node, Operators)
    PROVE  /\ \A i, j \in 1 .. Len(Order(node)) : Order(node)[i] = Order(node)[j] => i = j
           /\ node.type \notin {"call", "typed"} =>
                 \A i \in DOMAIN node.children :
                    \E j \in 1 .. Len(Order(node)) : Order(node)[j] = i
  <1>. DEFINE order == Order(node)
  <1>1. /\ Len(node.children) \in Nat
        /\ DOMAIN node.children = 1 .. Len(node.children)
        /\ node.type \in NodeTypes(Operators)
        /\ node.type \in Operators \cup {"while"} => Len(node.children) = 2
        /\ node.type \in {"assign", "constant"} => Len(node.children) = 2
        /\ node.type = "callStatement" => Len(node.children) = 1
    BY ChildKinds, StatementKinds
  <1>2. CASE node.type \in Operators \cup {"while"}
    <2>1. order = <<1, 2>>
      BY <1>2, OrderOf
    <2>2. Len(order) = 2 /\ order[1] = 1 /\ order[2] = 2
      BY <2>1
    <2>3. 1 .. Len(order) = {1, 2}
      BY <2>2
    <2>4. DOMAIN node.children = {1, 2}
      <3>1. Len(node.children) = 2
        BY <1>1, <1>2
      <3>. QED
        BY <1>1, <3>1
    <2>. HIDE DEF order
    <2>5. \A i, j \in {1, 2} : order[i] = order[j] => i = j
      BY <2>2
    <2>6. \A i \in {1, 2} : \E j \in {1, 2} : order[j] = i
      BY <2>2
    <2>. QED
      BY <2>3, <2>4, <2>5, <2>6 DEF order
  <1>3. CASE node.type \in {"assign", "constant"}
    <2>1. order = <<2, 1>>
      BY <1>3, OrderOf
    <2>2. Len(order) = 2 /\ order[1] = 2 /\ order[2] = 1
      BY <2>1
    <2>3. 1 .. Len(order) = {1, 2}
      BY <2>2
    <2>4. DOMAIN node.children = {1, 2}
      <3>1. Len(node.children) = 2
        BY <1>1, <1>3
      <3>. QED
        BY <1>1, <3>1
    <2>. HIDE DEF order
    <2>5. \A i, j \in {1, 2} : order[i] = order[j] => i = j
      BY <2>2
    <2>6. \A i \in {1, 2} : \E j \in {1, 2} : order[j] = i
      BY <2>2
    <2>. QED
      BY <2>3, <2>4, <2>5, <2>6 DEF order
  <1>4. CASE node.type \in {"call", "callStatement"}
    <2>1. order = <<1>>
      BY <1>4, OrderOf
    <2>2. Len(order) = 1 /\ order[1] = 1
      BY <2>1
    <2>3. 1 .. Len(order) = {1}
      BY <2>2
    <2>4. node.type # "call" => DOMAIN node.children = {1}
      <3>1. node.type # "call" => Len(node.children) = 1
        BY <1>1, <1>4
      <3>2. 1 .. 1 = {1}
        OBVIOUS
      <3>. QED
        BY <1>1, <3>1, <3>2
    <2>. HIDE DEF order
    <2>5. \A i, j \in {1} : order[i] = order[j] => i = j
      BY <2>2
    <2>6. \A i \in {1} : \E j \in {1} : order[j] = i
      BY <2>2
    <2>. QED
      BY <2>3, <2>4, <2>5, <2>6 DEF order
  <1>5. CASE node.type \in ListTypes
    <2>1. Len(order) = Len(node.children) /\ \A j \in DOMAIN node.children : order[j] = j
      BY <1>5, OrderOf
    <2>. QED
      BY <1>1, <2>1
  <1>6. CASE node.type \in Childless \cup {"typed"}
    <2>1. order = <<>>
      BY <1>6, OrderOf
    <2>2. Len(order) = 0
      BY <2>1
    <2>3. node.type \in Childless => Len(node.children) = 0
      BY ChildKinds
    <2>. QED
      BY <1>1, <1>6, <2>2, <2>3
  <1>7. \/ node.type \in Operators \cup {"while"}
        \/ node.type \in {"assign", "constant"}
        \/ node.type \in {"call", "callStatement"}
        \/ node.type \in ListTypes
        \/ node.type \in Childless \cup {"typed"}
    BY <1>1 DEF NodeTypes, Expressions, StatementTypes, ListTypes, Childless
  <1>. QED
    BY <1>2, <1>3, <1>4, <1>5, <1>6, <1>7

\* No node is within two of the steps of another.
LEMMA StepsApart ==
    ASSUME PathsOK, NEW n \in Paths, NEW i \in 1 .. Steps(NodeAt(n)),
           NEW j \in 1 .. Steps(NodeAt(n)), NEW p \in Numbers,
           Within(p, StepPath(n, i)), Within(p, StepPath(n, j))
    PROVE  i = j
  <1>1. n \in Numbers /\ HasShape(NodeAt(n), Operators)
    BY DEF PathsOK
  <1>. DEFINE order == Order(NodeAt(n))
  <1>2. /\ Len(order) \in Nat
        /\ \A k \in 1 .. Len(order) : order[k] \in DOMAIN NodeAt(n).children
    BY <1>1, OrderOf
  <1>3. CASE NodeAt(n).type = "call"
    <2>1. /\ order = <<1>> /\ Len(NodeAt(n).children[2].children) \in Nat
          /\ Child(n, 2) \in Numbers
      BY <1>1, <1>3, CallArguments DEF PathsOK
    <2>2. Len(order) = 1 /\ order[1] = 1
      BY <2>1
    <2>3. Steps(NodeAt(n)) = 1 + Len(NodeAt(n).children[2].children)
      BY <1>3, <2>2 DEF Steps
    <2>4. \A k \in 1 .. Steps(NodeAt(n)) :
             /\ k = 1 => StepPath(n, k) = Child(n, 1)
             /\ k # 1 => k - 1 \in Nat /\ StepPath(n, k) = Child(Child(n, 2), k - 1)
      BY <2>1, <2>2, <2>3 DEF StepPath
    <2>5. ASSUME NEW k \in 1 .. Steps(NodeAt(n)), k # 1, Within(p, StepPath(n, k))
          PROVE  Within(p, Child(n, 2))
      BY <2>1, <2>4, <2>5, WithinAbove
    <2>6. CASE i = 1 /\ j # 1
      BY <1>1, <2>4, <2>5, <2>6, BothWithin
    <2>7. CASE i # 1 /\ j = 1
      BY <1>1, <2>4, <2>5, <2>7, BothWithin
    <2>8. CASE i # 1 /\ j # 1
      <3>1. i - 1 = j - 1
        BY <2>1, <2>4, <2>8, BothWithin
      <3>. QED
        BY <2>1, <2>3, <3>1
    <2>. QED
      BY <2>6, <2>7, <2>8
  <1>4. CASE NodeAt(n).type # "call"
    <2>1. i \in 1 .. Len(order) /\ j \in 1 .. Len(order)
      BY <1>2, <1>4 DEF Steps
    <2>2. StepPath(n, i) = Child(n, order[i]) /\ StepPath(n, j) = Child(n, order[j])
      BY <1>2, <2>1 DEF StepPath
    <2>3. order[i] \in Nat /\ order[j] \in Nat
      BY <1>2, <2>1, ChildOf
    <2>4. order[i] = order[j]
      BY <1>1, <2>2, <2>3, BothWithin
    <2>. QED
      BY <1>1, <2>1, <2>4, OrderShapes
  <1>. QED
    BY <1>3, <1>4

\* The node of a frame is within those of the frames below it.
LEMMA FramesNest ==
    ASSUME PathsOK, StackOK, NEW k \in 1 .. Len(stack), NEW l \in 1 .. Len(stack), k <= l
    PROVE  Within(stack[l].node, stack[k].node)
  <1>1. /\ Len(stack) \in Nat
        /\ \A a \in 1 .. Len(stack) : stack[a].node \in Paths /\ Len(stack[a].got) \in Nat
    <2>1. Len(stack) \in Nat /\ \A a \in 1 .. Len(stack) : stack[a] \in Frames
      BY DEF StackOK
    <2>. QED
      BY <2>1 DEF Frames
  <1>2. \A a \in 1 .. Len(stack) : stack[a].node \in Numbers
    BY <1>1 DEF PathsOK
  <1>. DEFINE T == {a \in Nat : a \in 1 .. Len(stack) /\ k <= a /\ ~Within(stack[a].node, stack[k].node)}
  <1>3. SUFFICES ASSUME T # {} PROVE FALSE
    BY <1>1
  <1>4. PICK a \in T : \A b \in T : a <= b
    BY <1>3, LeastExists
  <1>5. a \in 1 .. Len(stack) /\ k <= a /\ ~Within(stack[a].node, stack[k].node) /\ a \in Nat
    OBVIOUS
  <1>6. a # k
    BY <1>2, <1>5, WithinItself
  <1>7. a - 1 \in 1 .. Len(stack) /\ k <= a - 1 /\ ~(a <= a - 1) /\ a - 1 \in 1 .. Len(stack) - 1
    BY <1>1, <1>5, <1>6
  <1>8. Within(stack[a - 1].node, stack[k].node)
    BY <1>4, <1>7
  <1>9. /\ stack[(a - 1) + 1].node = StepPath(stack[a - 1].node, Len(stack[a - 1].got) + 1)
        /\ StepsLeft(a - 1)
    BY <1>7 DEF StackOK
  <1>10. stack[a].node = StepPath(stack[a - 1].node, Len(stack[a - 1].got) + 1)
    BY <1>5, <1>9
  <1>11. Within(stack[a].node, stack[a - 1].node)
    <2>1. Len(stack[a - 1].got) \in Nat
      BY <1>1, <1>7
    <2>2. Steps(NodeAt(stack[a - 1].node)) \in Nat
      BY <1>1, <1>7, StepFacts
    <2>3. Len(stack[a - 1].got) + 1 \in 1 .. Steps(NodeAt(stack[a - 1].node))
      BY <1>9, <2>1, <2>2 DEF StepsLeft
    <2>. QED
      BY <1>1, <1>7, <1>10, <2>3, StepFacts
  <1>. QED
    BY <1>2, <1>5, <1>7, <1>8, <1>11, WithinTransitive

\* The nodes that no function is called for: names and types in declarations,
\* and the list of arguments.
Passive == {"identifier", "null", "parameters"}

\* What is below a node is below one of the nodes its steps lead to.
LEMMA StepsCover ==
    ASSUME PathsOK, NEW n \in Paths, NEW p \in Paths, Within(p, n), p # n,
           NodeAt(p).type \notin Passive
    PROVE  \E j \in 1 .. Steps(NodeAt(n)) : Within(p, StepPath(n, j))
  <1>1. n \in Numbers /\ HasShape(NodeAt(n), Operators) /\ p \in Numbers
    BY DEF PathsOK
  <1>. DEFINE order == Order(NodeAt(n))
  <1>2. /\ Len(order) \in Nat /\ Len(order) <= Steps(NodeAt(n)) /\ Steps(NodeAt(n)) \in Nat
    BY StepFacts
  <1>3. PICK i \in DOMAIN NodeAt(n).children : Within(p, Child(n, i))
    BY BelowAChild
  <1>4. CASE NodeAt(n).type \notin {"call", "typed"}
    <2>1. PICK j \in 1 .. Len(order) : order[j] = i
      BY <1>1, <1>4, OrderShapes
    <2>2. j \in 1 .. Steps(NodeAt(n)) /\ StepPath(n, j) = Child(n, i)
      BY <1>2, <2>1 DEF StepPath
    <2>. QED
      BY <1>3, <2>2
  <1>5. CASE NodeAt(n).type = "call"
    <2>1. /\ order = <<1>> /\ Len(NodeAt(n).children[2].children) \in Nat
          /\ DOMAIN NodeAt(n).children[2].children = 1 .. Len(NodeAt(n).children[2].children)
          /\ Child(n, 2) \in Paths /\ NodeAt(Child(n, 2)) = NodeAt(n).children[2]
          /\ NodeAt(Child(n, 2)).type = "parameters"
      BY <1>5, CallArguments
    <2>2. /\ Len(order) = 1 /\ order[1] = 1
          /\ Steps(NodeAt(n)) = 1 + Len(NodeAt(n).children[2].children)
      BY <1>5, <2>1 DEF Steps
    <2>3. i \in 1 .. 2
      BY <1>1, <1>5, ChildKinds
    <2>4. CASE i = 1
      <3>1. 1 \in 1 .. Steps(NodeAt(n)) /\ StepPath(n, 1) = Child(n, i)
        BY <2>1, <2>2, <2>4 DEF StepPath
      <3>. QED
        BY <1>3, <3>1
    <2>5. CASE i = 2
      <3>1. p # Child(n, 2)
        BY <2>1 DEF Passive
      <3>2. PICK k \in DOMAIN NodeAt(Child(n, 2)).children : Within(p, Child(Child(n, 2), k))
        BY <1>3, <2>1, <2>5, <3>1, BelowAChild
      <3>3. /\ k + 1 \in 1 .. Steps(NodeAt(n)) /\ (k + 1) - 1 = k
            /\ ~(k + 1 <= Len(order))
        BY <2>1, <2>2, <3>2
      <3>4. StepPath(n, k + 1) = Child(Child(n, 2), k)
        BY <2>2, <3>3 DEF StepPath
      <3>. QED
        BY <3>2, <3>3, <3>4
    <2>. QED
      BY <2>3, <2>4, <2>5
  <1>6. CASE NodeAt(n).type = "typed"
    <2>1. /\ i \in 1 .. 2
          /\ Child(n, i) \in Paths /\ NodeAt(Child(n, i)).type \in {"identifier", "null"}
      BY <1>6, TypedChildren
    <2>2. DOMAIN NodeAt(Child(n, i)).children = {}
      <3>1. HasShape(NodeAt(Child(n, i)), Operators)
        BY <2>1 DEF PathsOK
      <3>. QED
        BY <2>1, <3>1, ChildKinds DEF Childless
    <2>3. p = Child(n, i)
      BY <1>3, <2>1, <2>2, BelowAChild
    <2>. QED
      BY <2>1, <2>3 DEF Passive
  <1>. QED
    BY <1>4, <1>5, <1>6

-----------------------------------------------------------------------------
\* The nodes that are done.

\* The result of the node is known to the frame below, or to the caller.
Known(c) ==
    \/ \E type \in Types : Resolved(c, type)
    \/ stack = <<>> /\ returned.outcome = "success" /\ c = <<>>

\* The node at p was resolved, itself or with a node above it.
Done(p) == \E c \in Paths : Known(c) /\ Within(p, c)

\* What was resolved is below none of the steps that are still to come.
LEMMA NothingAhead ==
    ASSUME MachineOK, NEW k \in 1 .. Len(stack), k # Len(stack),
           NEW j \in 1 .. Steps(NodeAt(stack[k].node)), j > Len(stack[k].got) + 1,
           NEW p \in Numbers, Within(p, StepPath(stack[k].node, j)),
           NEW c, NEW type, Resolved(c, type), Within(p, c)
    PROVE  FALSE
  <1>1. PathsOK /\ StackOK
    BY PathsHold DEF MachineOK
  <1>2. Len(stack) \in Nat
    BY <1>1 DEF StackOK
  <1>3. \A a \in 1 .. Len(stack) :
           /\ stack[a].node \in Paths /\ stack[a].node \in Numbers
           /\ Len(stack[a].got) \in Nat
           /\ Reached(a) \in Nat /\ Reached(a) <= Steps(NodeAt(stack[a].node))
           /\ Steps(NodeAt(stack[a].node)) \in Nat
           /\ a < Len(stack) => Reached(a) = Len(stack[a].got)
    BY <1>1, ReachedSteps DEF PathsOK
  <1>4. ASSUME NEW a \in 1 .. Len(stack), a # Len(stack)
        PROVE  /\ a + 1 \in 1 .. Len(stack)
               /\ Len(stack[a].got) + 1 \in 1 .. Steps(NodeAt(stack[a].node))
               /\ stack[a + 1].node = StepPath(stack[a].node, Len(stack[a].got) + 1)
    <2>1. a \in 1 .. Len(stack) - 1 /\ a + 1 \in 1 .. Len(stack)
      BY <1>2, <1>4
    <2>2. StepsLeft(a) /\ stack[a + 1].node = StepPath(stack[a].node, Len(stack[a].got) + 1)
      BY <1>1, <2>1 DEF StackOK
    <2>3. Len(stack[a].got) < Steps(NodeAt(stack[a].node))
      BY <2>2 DEF StepsLeft
    <2>4. Len(stack[a].got) + 1 \in 1 .. Steps(NodeAt(stack[a].node))
      <3>1. Len(stack[a].got) \in Nat /\ Steps(NodeAt(stack[a].node)) \in Nat
        BY <1>3
      <3>. QED
        BY <2>3, <3>1
    <2>. QED
      BY <2>1, <2>2, <2>4
  <1>5. \A a \in 1 .. Len(stack) : \A i \in 1 .. Steps(NodeAt(stack[a].node)) :
           /\ StepPath(stack[a].node, i) \in Numbers
           /\ Within(StepPath(stack[a].node, i), stack[a].node)
    BY <1>1, <1>3, StepFacts DEF PathsOK
  <1>6. PICK l \in 1 .. Len(stack) : \E i \in 1 .. Reached(l) : c = StepPath(stack[l].node, i)
    BY DEF Resolved
  <1>7. PICK i \in 1 .. Reached(l) : c = StepPath(stack[l].node, i)
    BY <1>6
  <1>8. i \in 1 .. Steps(NodeAt(stack[l].node))
    BY <1>3, <1>7
  <1>9. CASE l = k
    <2>1. i = j
      BY <1>1, <1>3, <1>7, <1>8, <1>9, StepsApart
    <2>2. Reached(k) = Len(stack[k].got)
      BY <1>2, <1>3
    <2>. QED
      BY <1>3, <1>7, <1>9, <2>1, <2>2
  <1>10. CASE l < k
    <2>1. l # Len(stack) /\ l < Len(stack) /\ l + 1 <= k
      BY <1>2, <1>10
    <2>2. Within(stack[k].node, stack[l + 1].node)
      BY <1>1, <1>4, <2>1, FramesNest
    <2>3. Within(p, stack[k].node)
      BY <1>3, <1>5, WithinTransitive
    <2>4. Within(p, stack[l + 1].node)
      BY <1>3, <1>4, <2>1, <2>2, <2>3, WithinTransitive
    <2>5. i = Len(stack[l].got) + 1
      BY <1>1, <1>3, <1>4, <1>7, <1>8, <2>1, <2>4, StepsApart
    <2>. QED
      BY <1>3, <1>7, <2>1, <2>5
  <1>11. CASE l > k
    <2>1. k + 1 <= l
      BY <1>2, <1>11
    <2>2. Within(stack[l].node, stack[k + 1].node)
      BY <1>1, <1>4, <2>1, FramesNest
    <2>3. Within(p, stack[l].node)
      BY <1>3, <1>5, <1>7, <1>8, WithinTransitive
    <2>4. Within(p, stack[k + 1].node)
      BY <1>3, <1>4, <2>2, <2>3, WithinTransitive
    <2>5. j = Len(stack[k].got) + 1
      BY <1>1, <1>3, <1>4, <2>4, StepsApart
    <2>. QED
      BY <1>3, <2>5
  <1>. QED
    BY <1>9, <1>10, <1>11

\* The step that leads to the return type of a function.
LEMMA ReturnTypeStep ==
    ASSUME PathsOK, NEW f \in Paths, NodeAt(f).type = "function",
           NEW n \in Paths, NEW i \in 1 .. Steps(NodeAt(n)), StepPath(n, i) = Child(f, 2)
    PROVE  n = f /\ i = 2
  <1>1. n \in Numbers /\ f \in Numbers /\ HasShape(NodeAt(n), Operators)
    BY DEF PathsOK
  <1>2. /\ Len(Order(NodeAt(n))) \in Nat
        /\ \A k \in 1 .. Len(Order(NodeAt(n))) : Order(NodeAt(n))[k] \in DOMAIN NodeAt(n).children
    BY <1>1, OrderOf
  <1>3. CASE i \in 1 .. Len(Order(NodeAt(n)))
    <2>1. StepPath(n, i) = Child(n, Order(NodeAt(n))[i]) /\ Order(NodeAt(n))[i] \in Nat
      BY <1>2, <1>3, ChildOf DEF StepPath
    <2>2. n = f /\ Order(NodeAt(n))[i] = 2
      BY <1>1, <2>1, ChildInjective
    <2>3. NodeAt(n).type \in ListTypes
      BY <2>2 DEF ListTypes
    <2>. QED
      BY <1>1, <1>2, <1>3, <2>2, <2>3, OrderOf
  <1>4. CASE i \notin 1 .. Len(Order(NodeAt(n)))
    <2>1. NodeAt(n).type = "call"
      BY <1>2, <1>4 DEF Steps
    <2>2. /\ Order(NodeAt(n)) = <<1>> /\ Child(n, 2) \in Numbers
          /\ NodeAt(Child(n, 2)).type = "parameters"
      BY <2>1, CallArguments DEF PathsOK
    <2>3. Len(Order(NodeAt(n))) = 1
      BY <2>2
    <2>4. i - 1 \in Nat /\ ~(i <= 1)
      BY <1>4, <2>3
    <2>5. StepPath(n, i) = Child(Child(n, 2), i - 1)
      BY <2>3, <2>4 DEF StepPath
    <2>6. Child(n, 2) = f
      BY <1>1, <2>2, <2>4, <2>5, ChildInjective
    <2>. QED
      BY <2>2, <2>6
  <1>. QED
    BY <1>3, <1>4

\* Nothing that is done comes to be seen later.
LEMMA VisibleBack ==
    ASSUME MachineOK, Step, NEW p \in Paths, NEW c, NEW type, Resolved(c, type), Within(p, c),
           Visible(p)'
    PROVE  Visible(p)
  <1>1. SUFFICES ASSUME NEW f \in Skipped, Within(p, Child(f, 3)) PROVE FALSE
    BY DEF Visible
  <1>2. PathsOK /\ PathsKept /\ StackOK
    BY StepProgram DEF MachineOK
  <1>3. f \in Paths /\ NodeAt(f).type = "function" /\ Child(f, 2) \notin DOMAIN typed
    BY DEF Skipped
  <1>4. f \in Paths' /\ NodeAt(f)'.type = "function"
    BY <1>2, <1>3 DEF PathsKept
  <1>5. Child(f, 2) \in DOMAIN typed'
    BY <1>1, <1>4 DEF Visible, Skipped
  <1>6. Answers /\ Top.node = Child(f, 2)
    BY <1>3, <1>5, ReturnTypeMarked
  <1>7. /\ p \in Numbers /\ f \in Numbers /\ Child(f, 2) # <<>>
        /\ Steps(NodeAt(f)) = 3 /\ StepPath(f, 3) = Child(f, 3)
    <2>1. p \in Numbers /\ f \in Numbers /\ 2 \in Nat
      BY <1>2, <1>3 DEF PathsOK
    <2>2. Child(f, 2) # <<>>
      BY <2>1, ChildPath
    <2>. QED
      BY <1>2, <1>3, <2>1, <2>2, FunctionChildren
  <1>8. Len(stack) \in Nat /\ Len(stack) > 0 /\ Top = stack[Len(stack)]
    BY <1>2, <1>6, TopFacts DEF Answers, Pops
  <1>9. Len(stack) # 1
    BY <1>2, <1>6, <1>7, <1>8 DEF StackOK
  <1>10. PICK k : k = Len(stack) - 1
    OBVIOUS
  <1>11. k \in 1 .. Len(stack) /\ k # Len(stack) /\ k \in 1 .. Len(stack) - 1 /\ k + 1 = Len(stack)
    BY <1>8, <1>9, <1>10
  <1>12. /\ StepsLeft(k)
         /\ stack[k + 1].node = StepPath(stack[k].node, Len(stack[k].got) + 1)
    BY <1>2, <1>11 DEF StackOK
  <1>13. /\ stack[k].node \in Paths /\ Len(stack[k].got) \in Nat
         /\ Steps(NodeAt(stack[k].node)) \in Nat
    BY <1>11, ReachedSteps
  <1>14. Len(stack[k].got) + 1 \in 1 .. Steps(NodeAt(stack[k].node))
    BY <1>12, <1>13 DEF StepsLeft
  <1>15. stack[k].node = f /\ Len(stack[k].got) + 1 = 2
    BY <1>2, <1>3, <1>6, <1>8, <1>11, <1>12, <1>13, <1>14, ReturnTypeStep
  <1>16. 3 \in 1 .. Steps(NodeAt(stack[k].node)) /\ 3 > Len(stack[k].got) + 1
    BY <1>7, <1>15
  <1>. QED
    BY <1>1, <1>7, <1>11, <1>15, <1>16, NothingAhead

\* A step needs a frame.
LEMMA RunsHere ==
    ASSUME Step
    PROVE  stack # <<>>
  BY DEF Step, ResolveChild, ResolveStatement, ChildFailed, Literal, Operator, Identifier,
         TypeAssignment, AssignVariable, DeclareDeduced, DeclareTyped, Function, Call, Argument,
         CallStatement, Untyped, At, Running

\* What is done and seen after a step was seen before it.
LEMMA DoneSeen ==
    ASSUME MachineOK, Step, NEW p \in Paths, Done(p), Visible(p)'
    PROVE  Visible(p)
  BY RunsHere, VisibleBack DEF Done, Known

\* What is below the node that is left was done before, but for itself.
LEMMA DoneBelow ==
    ASSUME MachineOK, WayOK, Step, Answers \/ ChildFailed, returned'.outcome = "success",
           NEW p \in Paths, Within(p, Top.node), p # Top.node, Visible(p)',
           NodeAt(p).type \notin Passive
    PROVE  Done(p)
  <1>1. /\ PathsOK /\ StackOK /\ Pops /\ stack # <<>> /\ UNCHANGED program
        /\ Top.node \in Paths /\ NodeAt(Top.node) = Here
    <2>1. Pops
      BY ChildFailedStep DEF Answers
    <2>. QED
      BY <2>1, StepProgram, TopChildren DEF Pops, MachineOK
  <1>2. PICK j \in 1 .. Steps(NodeAt(Top.node)) : Within(p, StepPath(Top.node, j))
    BY <1>1, StepsCover
  <1>3. j \in 1 .. Steps(Here) /\ StepPath(Top.node, j) \in Paths
    BY <1>1, <1>2, StepFacts
  <1>4. SUFFICES \E type : Resolved(StepPath(Top.node, j), type)
    BY <1>2, ResolvedNodes DEF Done, Known
  <1>5. CASE Answers
    BY <1>3, <1>5, ResultsResolved DEF Answers
  <1>6. CASE ChildFailed
    <2>1. Here.type = "function" /\ Len(Top.got) = 1 /\ returned.outcome = "failure"
      BY <1>6, ChildFailedStep DEF Skipping
    <2>2. /\ Steps(Here) = 3
          /\ StepPath(Top.node, 1) = Child(Top.node, 1) /\ StepPath(Top.node, 2) = Child(Top.node, 2)
          /\ StepPath(Top.node, 3) = Child(Top.node, 3)
          /\ Child(Top.node, 2) \in Paths /\ NodeAt(Child(Top.node, 2)).type = "identifier"
      BY <1>1, <2>1, FunctionChildren
    <2>3. CASE j = 1
      <3>1. Len(stack) \in 1 .. Len(stack) /\ Top = stack[Len(stack)]
        BY <1>1, TopFacts
      <3>2. Reached(Len(stack)) = 1
        BY <2>1, <3>1 DEF Reached
      <3>3. 1 \in 1 .. Reached(Len(stack)) /\ StepPath(Top.node, j) = StepPath(stack[Len(stack)].node, 1)
        BY <2>3, <3>1, <3>2
      <3>4. Resolved(StepPath(Top.node, j), Got(Len(stack), 1))
        BY <3>1, <3>3 DEF Resolved
      <3>. QED
        BY <3>4
    <2>4. CASE j = 2
      <3>1. DOMAIN NodeAt(Child(Top.node, 2)).children = {}
        <4>1. HasShape(NodeAt(Child(Top.node, 2)), Operators)
          BY <1>1, <2>2 DEF PathsOK
        <4>. QED
          BY <2>2, <4>1, ChildKinds DEF Childless
      <3>2. p = Child(Top.node, 2)
        BY <1>1, <1>2, <2>2, <2>4, <3>1, BelowAChild
      <3>. QED
        BY <2>2, <3>2 DEF Passive
    <2>5. CASE j = 3
      <3>1. ~Found(table, NameAt(Child(Top.node, 2)))
        BY <1>1, <2>1 DEF WayOK, SkipReason, Skipping
      <3>2. Child(Top.node, 2) \notin DOMAIN typed
        BY <1>1, <2>1, <3>1 DEF WayOK, ReturnTypesFound
      <3>3. Top.node \in Skipped
        BY <1>1, <2>1, <3>2 DEF Skipped
      <3>4. UNCHANGED <<program, typed>>
        BY <1>1, <1>6, ChildFailedStep
      <3>5. Skipped' = Skipped
        BY <3>4, PathsSame DEF Skipped
      <3>. QED
        BY <1>2, <2>2, <2>5, <3>3, <3>5 DEF Visible
    <2>6. j \in 1 .. 3
      BY <1>3, <2>2
    <2>. QED
      BY <2>3, <2>4, <2>5, <2>6
  <1>. QED
    BY <1>5, <1>6

\* A step finishes at most the node it is called for.
LEMMA DoneStep ==
    ASSUME MachineOK, WayOK, Step, NEW p \in Paths', Done(p)', Visible(p)',
           NodeAt(p)'.type \notin Passive
    PROVE  /\ p \in Paths /\ NodeAt(p)'.type = NodeAt(p).type
           /\ \/ Done(p) /\ Visible(p)
              \/ /\ p = Top.node /\ UNCHANGED program
                 /\ returned'.outcome = "success"
                 /\ Answers \/ NodeAt(p).type = "function"
  <1>1. PathsOK /\ PathsOK' /\ PathsKept /\ StackOK /\ stack # <<>>
    BY StepProgram, RunsHere DEF MachineOK
  <1>2. PICK c \in Paths' : Known(c)' /\ Within(p, c)
    BY DEF Done
  <1>3. ASSUME NEW type, Resolved(c, type)
        PROVE  p \in Paths /\ Done(p) /\ Visible(p)
    <2>1. c \in Paths /\ type \in Types
      BY <1>3, ResolvedNodes
    <2>2. c # <<>>
      <3>1. PICK k \in 1 .. Len(stack) : \E j \in 1 .. Reached(k) : c = StepPath(stack[k].node, j)
        BY <1>3 DEF Resolved
      <3>2. PICK j \in 1 .. Reached(k) : c = StepPath(stack[k].node, j)
        BY <3>1
      <3>3. stack[k].node \in Paths /\ j \in 1 .. Steps(NodeAt(stack[k].node))
        BY ReachedSteps
      <3>4. Within(c, stack[k].node) /\ c # stack[k].node
        BY <1>1, <3>2, <3>3, StepFacts
      <3>5. stack[k].node \in Numbers /\ c \in Numbers
        BY <1>1, <2>1, <3>3 DEF PathsOK
      <3>. QED
        BY <3>4, <3>5, WithinPointwise DEF Numbers
    <2>3. p \in Paths
      BY <1>1, <1>2, <2>1, <2>2 DEF PathsKept
    <2>4. Visible(p)
      BY <1>2, <1>3, <2>3, VisibleBack
    <2>. QED
      BY <1>2, <1>3, <2>1, <2>3, <2>4 DEF Done, Known
  <1>4. ASSUME Answers \/ ChildFailed, returned'.outcome = "success", c = Top.node
        PROVE  /\ p \in Paths
               /\ \/ Done(p) /\ Visible(p)
                  \/ /\ p = Top.node /\ UNCHANGED program
                     /\ returned'.outcome = "success"
                     /\ Answers \/ NodeAt(p).type = "function"
    <2>1. UNCHANGED program
      BY <1>4, ChildFailedStep DEF Answers, Pops
    <2>2. p \in Paths /\ NodeAt(p)' = NodeAt(p)
      BY <2>1, PathsSame
    <2>3. CASE p # Top.node
      <3>1. Done(p)
        BY <1>2, <1>4, <2>2, <2>3, DoneBelow
      <3>. QED
        BY <2>2, <3>1, DoneSeen
    <2>4. CASE p = Top.node
      <3>1. ChildFailed => NodeAt(p).type = "function"
        BY <1>4, <2>4, ChildFailedStep DEF Skipping, Here
      <3>. QED
        BY <1>4, <2>1, <2>2, <2>4, <3>1
    <2>. QED
      BY <2>3, <2>4
  <1>5. CASE PushesOnly
    <2>1. PICK n, got : Pushes(n, got)
      BY <1>5 DEF PushesOnly
    <2>2. returned'.outcome = "none"
      BY <2>1 DEF Pushes, Pending
    <2>3. PICK type \in Types : Resolved(c, type)'
      BY <1>2, <2>2 DEF Known
    <2>4. Resolved(c, type)
      BY <2>1, <2>3, PushesResolve
    <2>. QED
      BY <1>1, <1>3, <2>4 DEF PathsKept
  <1>6. CASE Answers \/ ChildFailed
    <2>1. Pops
      BY <1>6, ChildFailedStep DEF Answers
    <2>2. ASSUME NEW type, Resolved(c, type)'
          PROVE  \/ Resolved(c, type)
                 \/ c = Top.node /\ returned'.outcome = "success"
      BY <2>1, <2>2, PopsResolve
    <2>3. ASSUME stack' = <<>>, c = <<>> PROVE c = Top.node
      <3>1. Len(stack) \in Nat /\ Top = stack[Len(stack)] /\ Len(stack') = Len(stack) - 1
        BY <1>1, <2>1, TopFacts DEF Pops
      <3>2. Len(stack) = 1
        BY <2>3, <3>1
      <3>. QED
        BY <1>1, <2>3, <3>1, <3>2 DEF StackOK
    <2>. QED
      BY <1>1, <1>2, <1>3, <1>4, <1>6, <2>2, <2>3 DEF Known, PathsKept
  <1>. QED
    BY <1>5, <1>6, StepKinds

-----------------------------------------------------------------------------
\* Constants and built-in types keep their meaning.

\* The variable of an assignment that is done is none of the constants.
AssignmentsDone ==
    \A p \in Of({"assign"}) : Done(p) /\ Kind(NodeAt(p), 1) = "identifier" =>
        /\ Found(table, NameAt(Child(p, 1)))
        /\ ~SymbolOf(table, NameAt(Child(p, 1))).constant

\* The name of a constant that is done has the symbol of a constant.
ConstantsDone ==
    \A q \in Of({"constant"}) : Done(q) =>
        /\ Found(table, DeclaredName(Child(q, 1)))
        /\ SymbolOf(table, DeclaredName(Child(q, 1))).constant

\* What was found before a step is found after it.
LEMMA SymbolKept ==
    ASSUME MachineOK, Step, NEW name, Found(table, name)
    PROVE  Found(table', name) /\ SymbolOf(table', name) = SymbolOf(table, name)
  BY StepGrows DEF DataGrows

\* What a step adds to the table is found after it.
LEMMA SymbolAdded ==
    ASSUME NEW name, NEW type, NEW constant, NEW node, TableAdds(name, type, constant, node)
    PROVE  LET s == SymbolOf(table', name) IN
           /\ Found(table', name) /\ s \in Held(table')
           /\ s.name = name /\ s.located = TRUE /\ s.type = type
           /\ s.constant = constant /\ s.decl = node
  <1>1. PICK s : /\ Held(table') = Held(table) \cup {s}
                 /\ s.name = name /\ s.located = TRUE /\ s.type = type
                 /\ s.constant = constant /\ s.decl = node
    BY DEF TableAdds
  <1>2. Found(table', name) /\ SymbolOf(table', name) = s
    BY <1>1, FoundHeld DEF TableAdds
  <1>. QED
    BY <1>1, <1>2

\* The nodes of an assignment or a constant stay as they are.
LEMMA PairKept ==
    ASSUME MachineOK, Step, NEW p \in Paths, NodeAt(p).type \in {"assign", "constant"}
    PROVE  /\ p \in Paths' /\ NodeAt(p)' = NodeAt(p)
           /\ NodeAt(Child(p, 1))' = NodeAt(Child(p, 1))
           /\ NameAt(Child(p, 1))' = NameAt(Child(p, 1))
           /\ Kind(NodeAt(p), 1) = "typed" =>
                 DeclaredName(Child(p, 1))' = DeclaredName(Child(p, 1))
  <1>1. PathsOK /\ p \in Paths' /\ NodeAt(p)' = NodeAt(p)
    BY StepProgram DEF PathsKept
  <1>2. /\ Child(p, 1) \in Paths /\ NodeAt(Child(p, 1)).type \in {"identifier", "typed"}
        /\ NodeAt(Child(p, 1)).type = Kind(NodeAt(p), 1)
    BY <1>1, PairChildren
  <1>3. NodeAt(Child(p, 1))' = NodeAt(Child(p, 1))
    BY <1>2, StepProgram
  <1>. QED
    BY <1>1, <1>2, <1>3, DeclarationKept DEF NameAt

\* Assignments to constants never come to be done.
LEMMA AssignmentsKept ==
    ASSUME MachineOK, WayOK, Step, AssignmentsDone
    PROVE  AssignmentsDone'
  <1>1. SUFFICES ASSUME NEW p \in Of({"assign"})', Done(p)', Kind(NodeAt(p)', 1) = "identifier"
                 PROVE  /\ Found(table', NameAt(Child(p, 1))')
                        /\ ~SymbolOf(table', NameAt(Child(p, 1))').constant
    BY DEF AssignmentsDone
  <1>2. p \in Paths' /\ NodeAt(p)'.type = "assign" /\ Visible(p)'
    BY DEF Of, Visible
  <1>3. /\ p \in Paths /\ NodeAt(p)'.type = NodeAt(p).type
        /\ \/ Done(p) /\ Visible(p)
           \/ p = Top.node /\ returned'.outcome = "success" /\ Answers
    BY <1>1, <1>2, DoneStep DEF Passive
  <1>4. NodeAt(p)' = NodeAt(p) /\ NameAt(Child(p, 1))' = NameAt(Child(p, 1))
    BY <1>2, <1>3, PairKept
  <1>5. SUFFICES /\ Found(table, NameAt(Child(p, 1)))
                 /\ ~SymbolOf(table, NameAt(Child(p, 1))).constant
    BY <1>4, SymbolKept
  <1>6. CASE Done(p) /\ Visible(p)
    BY <1>1, <1>2, <1>3, <1>4, <1>6, OfVisible DEF AssignmentsDone
  <1>7. CASE p = Top.node /\ returned'.outcome = "success" /\ Answers
    <2>1. Here.type = "assign" /\ Kind(Here, 1) = "identifier" /\ Running
      BY <1>1, <1>2, <1>3, <1>4, <1>7 DEF Here, Answers
    <2>2. AssignVariable
      BY <1>7, <2>1, AnsweredBy, DeclareDeducedStep, DeclareTypedStep
    <2>3. ~SymbolOf(table, Here.children[1].name).constant
      BY <1>7, <2>2, AssignVariableStep
    <2>4. Len(Results) = 2
      <3>1. At({"assign"}) /\ HasShape(Here, Operators) /\ Len(Results) = Len(Order(Here))
        BY <2>2, AtFacts DEF AssignVariable
      <3>2. Order(Here) = <<2, 1>>
        BY <2>1, <3>1, OrderOf
      <3>. QED
        BY <3>1, <3>2
    <2>5. Found(table, Here.children[1].name) /\ NodeAt(Child(Top.node, 1)) = Here.children[1]
      BY <2>1, <2>4, VariableFound
    <2>. QED
      BY <1>7, <2>3, <2>5 DEF NameAt
  <1>. QED
    BY <1>3, <1>6, <1>7

\* The constants that are done stay in the table.
LEMMA ConstantsStay ==
    ASSUME MachineOK, WayOK, Step, ConstantsDone
    PROVE  ConstantsDone'
  <1>1. SUFFICES ASSUME NEW q \in Of({"constant"})', Done(q)'
                 PROVE  /\ Found(table', DeclaredName(Child(q, 1))')
                        /\ SymbolOf(table', DeclaredName(Child(q, 1))').constant
    BY DEF ConstantsDone
  <1>2. q \in Paths' /\ NodeAt(q)'.type = "constant" /\ Visible(q)'
    BY DEF Of, Visible
  <1>3. /\ q \in Paths /\ NodeAt(q)'.type = NodeAt(q).type
        /\ \/ Done(q) /\ Visible(q)
           \/ q = Top.node /\ returned'.outcome = "success" /\ Answers
    BY <1>1, <1>2, DoneStep DEF Passive
  <1>4. PathsOK
    BY StepProgram
  <1>5. Kind(NodeAt(q), 1) = "typed"
    BY <1>2, <1>3, <1>4, PairChildren
  <1>6. DeclaredName(Child(q, 1))' = DeclaredName(Child(q, 1))
    BY <1>2, <1>3, <1>5, PairKept
  <1>7. CASE Done(q) /\ Visible(q)
    <2>1. Found(table, DeclaredName(Child(q, 1))) /\ SymbolOf(table, DeclaredName(Child(q, 1))).constant
      BY <1>2, <1>3, <1>7, OfVisible DEF ConstantsDone
    <2>. QED
      BY <1>6, <2>1, SymbolKept
  <1>8. CASE q = Top.node /\ returned'.outcome = "success" /\ Answers
    <2>1. Here.type = "constant" /\ Kind(Here, 1) = "typed" /\ Running
      BY <1>2, <1>3, <1>5, <1>8 DEF Here, Answers
    <2>2. DeclareDeduced
      <3>1. DeclareDeduced \/ DeclareTyped
        BY <1>8, <2>1, AnsweredBy
      <3>2. ~DeclareTyped
        BY <1>8, <2>1, DeclareTypedStep
      <3>. QED
        BY <3>1, <3>2
    <2>3. NameDeclared(Results[1])
      BY <1>8, <2>2, DeclareDeducedStep
    <2>4. DeclaredName(Child(q, 1)) = NewName
      BY <1>8, <2>1, NewDeclaration
    <2>5. PICK constant, node :
             constant = (Here.type = "constant") /\ TableAdds(NewName, Results[1], constant, node)
      BY <2>3 DEF NameDeclared
    <2>6. Found(table', NewName) /\ SymbolOf(table', NewName).constant = constant
      BY <2>5, SymbolAdded
    <2>. QED
      BY <1>6, <2>1, <2>4, <2>5, <2>6
  <1>. QED
    BY <1>3, <1>7, <1>8

\* Nothing is done at the start, and everything when the program is accepted.
LEMMA NothingDone ==
    ASSUME Init, NEW p
    PROVE  ~Done(p)
  <1>1. stack # <<>>
    BY DEF Init
  <1>. QED
    BY <1>1, NothingResolved DEF Done, Known

\* In a program that is accepted every node is done.
LEMMA AllDone ==
    ASSUME MachineOK, Accepted, NEW p \in Paths
    PROVE  Done(p)
  <1>1. PathsOK
    BY PathsHold DEF MachineOK
  <1>2. <<>> \in Paths /\ p \in Numbers
    BY <1>1 DEF PathsOK, Paths
  <1>3. Within(p, <<>>) /\ Known(<<>>)
    BY <1>2, WithinItself DEF Accepted, Known
  <1>. QED
    BY <1>2, <1>3 DEF Done

\* What is done depends on the variables alone.
LEMMA DoneSame ==
    ASSUME UNCHANGED vars
    PROVE  \A p : Done(p)' = Done(p)
  <1>1. UNCHANGED <<program, stack, returned>>
    BY DEF vars
  <1>2. Paths' = Paths /\ \A c, type : Resolved(c, type)' = Resolved(c, type)
    BY <1>1, PathsSame, ResolvedSame
  <1>3. \A c : Known(c)' = Known(c)
    BY <1>1, <1>2 DEF Known
  <1>. QED
    BY <1>2, <1>3 DEF Done

\* So do the nodes.
LEMMA NodesSame ==
    ASSUME UNCHANGED vars
    PROVE  /\ Paths' = Paths /\ \A p : NodeAt(p)' = NodeAt(p) /\ NameAt(p)' = NameAt(p)
           /\ \A p : DeclaredName(p)' = DeclaredName(p)
           /\ \A kinds : Of(kinds)' = Of(kinds)
           /\ Declarations' = Declarations
           /\ UNCHANGED <<table, typed, mishaps>>
  <1>1. UNCHANGED <<program, table, typed, mishaps>>
    BY DEF vars
  <1>2. Paths' = Paths /\ \A p : NodeAt(p)' = NodeAt(p)
    BY <1>1, PathsSame
  <1>3. Skipped' = Skipped
    BY <1>1, <1>2 DEF Skipped
  <1>4. \A kinds : Of(kinds)' = Of(kinds)
    BY <1>2, <1>3 DEF Of
  <1>. QED
    BY <1>1, <1>2, <1>4 DEF NameAt, DeclaredName, Declarations

\* At the end the invariants say what was promised.
LEMMA ConstantsAccepted ==
    ASSUME MachineOK, AssignmentsDone, ConstantsDone
    PROVE  ConstantsKept
  <1>1. SUFFICES ASSUME Accepted, NEW p \in Of({"assign"}),
                        NodeAt(Child(p, 1)).type = "identifier"
                 PROVE  /\ NameAt(Child(p, 1)) \notin BuiltinNames \ {s.name : s \in UserSymbols}
                        /\ \A q \in Of({"constant"}) :
                              DeclaredName(Child(q, 1)) # NameAt(Child(p, 1))
    BY DEF ConstantsKept
  <1>2. PathsOK
    BY PathsHold DEF MachineOK
  <1>3. p \in Paths /\ NodeAt(p).type = "assign" /\ Kind(NodeAt(p), 1) = "identifier" /\ Done(p)
    <2>1. p \in Paths /\ NodeAt(p).type = "assign"
      BY OfVisible
    <2>. QED
      BY <1>1, <1>2, <2>1, PairChildren, AllDone
  <1>4. PICK s : s = SymbolOf(table, NameAt(Child(p, 1)))
    OBVIOUS
  <1>5. Found(table, NameAt(Child(p, 1))) /\ ~s.constant
    BY <1>3, <1>4 DEF AssignmentsDone
  <1>6. ASSUME NameAt(Child(p, 1)) \in BuiltinNames \ {t.name : t \in UserSymbols} PROVE FALSE
    <2>1. /\ s \in Held(table) /\ s.name = NameAt(Child(p, 1)) /\ s.located \in BOOLEAN
          /\ ~s.located => s \in {FloatSymbol, IntSymbol}
      BY <1>4, <1>5, FoundSymbol DEF MachineOK
    <2>2. s.located
      BY <1>5, <2>1, Builtins
    <2>3. s \in UserSymbols
      BY <2>1, <2>2 DEF Held, Counted, UserSymbols
    <2>. QED
      BY <1>6, <2>1, <2>3
  <1>7. ASSUME NEW q \in Of({"constant"}), DeclaredName(Child(q, 1)) = NameAt(Child(p, 1))
        PROVE  FALSE
    <2>1. Done(q)
      BY <1>1, AllDone, OfVisible
    <2>. QED
      BY <1>4, <1>5, <1>7, <2>1 DEF ConstantsDone
  <1>. QED
    BY <1>6, <1>7

\* What the frames know holds in every state.
LEMMA WaySafe == Spec => []WayOK
  <1>1. Init => MachineOK /\ WayOK
    BY MachineStarts, WayStarts
  <1>2. MachineOK /\ WayOK /\ [Next]_vars => WayOK'
    BY WayKept, WaySame DEF Next, Finished
  <1>. QED
    BY <1>1, <1>2, MachineSafe, PTL DEF Spec

\* In a program that is accepted no assignment changes a constant or a built-in
\* type, whichever of the ways a name is declared (type_info.c:86, :116, :167,
\* :238).
THEOREM ConstantsSafe == Spec => []ConstantsKept
  <1>1. Init => AssignmentsDone /\ ConstantsDone
    BY NothingDone DEF AssignmentsDone, ConstantsDone
  <1>2. ASSUME AssignmentsDone, ConstantsDone, UNCHANGED vars
        PROVE  AssignmentsDone' /\ ConstantsDone'
    <2>1. AssignmentsDone'
      BY <1>2, NodesSame, DoneSame DEF AssignmentsDone
    <2>2. ConstantsDone'
      BY <1>2, NodesSame, DoneSame DEF ConstantsDone
    <2>. QED
      BY <2>1, <2>2
  <1>3. /\ MachineOK /\ WayOK /\ AssignmentsDone /\ ConstantsDone
        /\ [Next]_vars
        => AssignmentsDone' /\ ConstantsDone'
    BY <1>2, AssignmentsKept, ConstantsStay DEF Next, Finished
  <1>4. MachineOK /\ AssignmentsDone /\ ConstantsDone => ConstantsKept
    BY ConstantsAccepted
  <1>. QED
    BY <1>1, <1>3, <1>4, MachineSafe, WaySafe, PTL DEF Spec

-----------------------------------------------------------------------------
\* Where declarations stand.

\* Declarations and lists of parameters are children of few nodes.
LEMMA HolderKinds ==
    ASSUME NEW node, HasShape(node, Operators), NEW i \in DOMAIN node.children
    PROVE  /\ Kind(node, i) = "typed" =>
                 \/ node.type \in {"assign", "constant"} /\ i = 1
                 \/ node.type = "parameters"
           /\ Kind(node, i) = "parameters" =>
                 \/ node.type = "function" /\ i = 1
                 \/ node.type = "call" /\ i = 2
  <1>. DEFINE expressions == Expressions(Operators)
  <1>1. /\ Len(node.children) \in Nat
        /\ DOMAIN node.children = 1 .. Len(node.children)
        /\ node.type \in NodeTypes(Operators)
        /\ node.type \in Childless => Len(node.children) = 0
    BY ChildKinds
  <1>2. /\ "typed" \notin expressions /\ "parameters" \notin expressions
        /\ "function" \notin expressions
        /\ "typed" \notin StatementTypes /\ "parameters" \notin StatementTypes
    BY OperatorsApart DEF Expressions, StatementTypes
  <1>3. CASE node.type \in Operators \cup {"while"}
    <2>1. i = 1 \/ i = 2
      <3>1. Len(node.children) = 2
        BY <1>3, ChildKinds
      <3>. QED
        BY <1>1, <3>1
    <2>2. Kind(node, 1) \in expressions /\ Kind(node, 2) \in expressions
      BY <1>3, ChildKinds
    <2>. QED
      BY <1>2, <2>1, <2>2
  <1>4. CASE node.type \in {"assign", "constant"}
    <2>1. i = 1 \/ i = 2
      <3>1. Len(node.children) = 2
        BY <1>4, StatementKinds
      <3>. QED
        BY <1>1, <3>1
    <2>2. Kind(node, 1) \in {"identifier", "typed"} /\ Kind(node, 2) \in expressions \cup {"function"}
      BY <1>4, StatementKinds DEF Values
    <2>. QED
      BY <1>2, <1>4, <2>1, <2>2
  <1>5. CASE node.type = "typed"
    <2>1. i = 1 \/ i = 2
      <3>1. Len(node.children) = 2
        BY <1>5, StatementKinds
      <3>. QED
        BY <1>1, <3>1
    <2>2. Kind(node, 1) = "identifier" /\ Kind(node, 2) \in {"identifier", "null"}
      BY <1>5, StatementKinds
    <2>. QED
      BY <2>1, <2>2
  <1>6. CASE node.type = "call"
    <2>1. i = 1 \/ i = 2
      <3>1. Len(node.children) = 2
        BY <1>6, ChildKinds
      <3>. QED
        BY <1>1, <3>1
    <2>2. Kind(node, 1) = "identifier"
      BY <1>6, ChildKinds
    <2>3. Kind(node, 2) = "parameters"
      BY <1>6, ChildKinds
    <2>. QED
      BY <1>6, <2>1, <2>2, <2>3
  <1>7. CASE node.type = "callStatement"
    <2>1. i = 1
      <3>1. Len(node.children) = 1
        BY <1>7, ChildKinds
      <3>. QED
        BY <1>1, <3>1
    <2>2. Kind(node, 1) = "call"
      BY <1>7, ChildKinds
    <2>. QED
      BY <2>1, <2>2
  <1>8. CASE node.type = "function"
    <2>1. i = 1 \/ i = 2 \/ i = 3
      <3>1. Len(node.children) = 3
        BY <1>8, StatementKinds
      <3>. QED
        BY <1>1, <3>1
    <2>2. Kind(node, 2) = "identifier" /\ Kind(node, 3) \in StatementTypes
      BY <1>8, StatementKinds
    <2>3. Kind(node, 1) = "parameters"
      BY <1>8, StatementKinds
    <2>. QED
      BY <1>2, <1>8, <2>1, <2>2, <2>3
  <1>9. CASE node.type \in {"scope", "if"}
    BY <1>2, <1>9, StatementKinds
  <1>10. CASE node.type = "parameters"
    <2>1. Kinds(node) \in Seq(expressions \cup {"typed"})
      BY <1>10 DEF HasShape
    <2>2. Len(Kinds(node)) = Len(node.children) /\ Kinds(node)[i] = Kind(node, i)
      BY ChildrenCount DEF Kind
    <2>3. Kind(node, i) \in expressions \cup {"typed"}
      BY <1>1, <2>1, <2>2
    <2>. QED
      BY <1>2, <1>10, <2>3
  <1>11. CASE node.type \in Childless
    BY <1>1, <1>11
  <1>. QED
    BY <1>1, <1>3, <1>4, <1>5, <1>6, <1>7, <1>8, <1>9, <1>10, <1>11
       DEF NodeTypes, Expressions, StatementTypes, Childless

\* A declaration that gives no type is that of an assignment or a constant.
LEMMA NullHolder ==
    ASSUME MachineOK, NEW p \in Paths, NodeAt(p).type = "typed", Kind(NodeAt(p), 2) = "null"
    PROVE  \E q \in Paths : NodeAt(q).type \in {"assign", "constant"} /\ p = Child(q, 1)
  <1>1. PathsOK /\ NodeAt(<<>>).type = "scope"
    BY PathsHold DEF MachineOK, ProgramOK, PathsOK
  <1>2. p # <<>>
    BY <1>1
  <1>3. PICK q \in Paths : \E i \in DOMAIN NodeAt(q).children : p = Child(q, i)
    BY <1>1, <1>2 DEF PathsOK
  <1>4. PICK i \in DOMAIN NodeAt(q).children : p = Child(q, i)
    BY <1>3
  <1>5. Kind(NodeAt(q), i) = "typed" /\ HasShape(NodeAt(q), Operators) /\ NodeAt(p) = NodeAt(q).children[i]
    BY <1>1, <1>4, ChildOf DEF PathsOK
  <1>6. CASE NodeAt(q).type = "parameters"
    <2>1. q # <<>>
      BY <1>1, <1>6
    <2>2. PICK r \in Paths : \E k \in DOMAIN NodeAt(r).children : q = Child(r, k)
      BY <1>1, <2>1 DEF PathsOK
    <2>3. PICK k \in DOMAIN NodeAt(r).children : q = Child(r, k)
      BY <2>2
    <2>4. /\ Kind(NodeAt(r), k) = "parameters" /\ HasShape(NodeAt(r), Operators)
          /\ NodeAt(q) = NodeAt(r).children[k]
      BY <1>1, <1>6, <2>3, ChildOf DEF PathsOK
    <2>5. \/ NodeAt(r).type = "function" /\ k = 1
          \/ NodeAt(r).type = "call" /\ k = 2
      BY <2>4, HolderKinds
    <2>6. CASE NodeAt(r).type = "function" /\ k = 1
      <3>1. Kinds(NodeAt(p)) = <<"identifier", "identifier">>
        BY <1>4, <1>5, <2>4, <2>6 DEF HasShape
      <3>2. HasShape(NodeAt(p), Operators) /\ Len(NodeAt(p).children) = 2
        BY <1>1, StatementKinds DEF PathsOK
      <3>3. 2 \in DOMAIN NodeAt(p).children
        BY <3>2, ChildKinds
      <3>4. Kinds(NodeAt(p))[2] = Kind(NodeAt(p), 2)
        BY <3>2, <3>3, ChildrenCount DEF Kind
      <3>5. Kinds(NodeAt(p))[2] = "identifier"
        BY <3>1
      <3>. QED
        BY <3>4, <3>5
    <2>7. CASE NodeAt(r).type = "call" /\ k = 2
      <3>1. NodeAt(p).type \in Expressions(Operators)
        <4>1. i \in DOMAIN NodeAt(r).children[2].children /\ p = Child(Child(r, 2), i)
          BY <1>4, <2>3, <2>4, <2>7
        <4>. QED
          BY <1>1, <2>7, <4>1, CallArguments
      <3>. QED
        BY <3>1, OperatorsApart DEF Expressions
    <2>. QED
      BY <2>5, <2>6, <2>7
  <1>. QED
    BY <1>4, <1>5, <1>6, HolderKinds

\* What is above a node that can be seen can be seen.
LEMMA VisibleAbove ==
    ASSUME PathsOK, NEW q \in Paths, NEW i \in Nat, Visible(Child(q, i))
    PROVE  Visible(q)
  <1>1. SUFFICES ASSUME NEW f \in Skipped, Within(q, Child(f, 3)) PROVE FALSE
    BY DEF Visible
  <1>2. q \in Numbers /\ Child(f, 3) \in Numbers
    BY ChildPath DEF PathsOK, Skipped
  <1>3. Within(Child(q, i), Child(f, 3))
    BY <1>1, <1>2, WithinChild
  <1>. QED
    BY <1>3 DEF Visible

\* No function is called for the name in a declaration.
LEMMA NamesNotEntered ==
    ASSUME MachineOK, stack # <<>>, NEW p \in Paths, NodeAt(p).type = "typed"
    PROVE  Top.node # Child(p, 1)
  <1>1. SUFFICES ASSUME Top.node = Child(p, 1) PROVE FALSE
    OBVIOUS
  <1>2. PathsOK /\ StackOK
    BY PathsHold DEF MachineOK
  <1>3. Len(stack) \in Nat /\ Len(stack) > 0 /\ Top = stack[Len(stack)]
    BY <1>2, TopFacts
  <1>4. p \in Numbers /\ Steps(NodeAt(p)) = 0
    BY <1>2, TypedChildren
  <1>5. Len(stack) # 1
    <2>1. Child(p, 1) # <<>>
      BY <1>4, ChildPath
    <2>. QED
      BY <1>1, <1>2, <1>3, <2>1 DEF StackOK
  <1>6. PICK k : k = Len(stack) - 1
    OBVIOUS
  <1>7. k \in 1 .. Len(stack) /\ k \in 1 .. Len(stack) - 1 /\ k + 1 = Len(stack)
    BY <1>3, <1>5, <1>6
  <1>8. StepsLeft(k) /\ stack[k + 1].node = StepPath(stack[k].node, Len(stack[k].got) + 1)
    BY <1>2, <1>7 DEF StackOK
  <1>9. PICK n, i : n = stack[k].node /\ i = Len(stack[k].got) + 1
    OBVIOUS
  <1>10. n \in Paths /\ n \in Numbers /\ i \in 1 .. Steps(NodeAt(n)) /\ HasShape(NodeAt(n), Operators)
    <2>1. n \in Paths /\ Len(stack[k].got) \in Nat /\ Steps(NodeAt(n)) \in Nat
      BY <1>7, <1>9, ReachedSteps
    <2>2. Len(stack[k].got) < Steps(NodeAt(n))
      BY <1>8, <1>9 DEF StepsLeft
    <2>3. i \in 1 .. Steps(NodeAt(n))
      BY <1>9, <2>1, <2>2
    <2>. QED
      BY <1>2, <2>1, <2>3 DEF PathsOK
  <1>11. StepPath(n, i) = Child(p, 1)
    BY <1>1, <1>3, <1>7, <1>8, <1>9
  <1>12. /\ Len(Order(NodeAt(n))) \in Nat
         /\ \A j \in 1 .. Len(Order(NodeAt(n))) : Order(NodeAt(n))[j] \in DOMAIN NodeAt(n).children
    BY <1>10, OrderOf
  <1>13. CASE i \in 1 .. Len(Order(NodeAt(n)))
    <2>1. StepPath(n, i) = Child(n, Order(NodeAt(n))[i]) /\ Order(NodeAt(n))[i] \in Nat
      BY <1>2, <1>10, <1>12, <1>13, ChildOf DEF StepPath
    <2>2. n = p
      BY <1>4, <1>10, <1>11, <2>1, ChildInjective
    <2>. QED
      BY <1>4, <1>10, <2>2
  <1>14. CASE i \notin 1 .. Len(Order(NodeAt(n)))
    <2>1. NodeAt(n).type = "call"
      BY <1>10, <1>12, <1>14 DEF Steps
    <2>2. /\ Order(NodeAt(n)) = <<1>> /\ Child(n, 2) \in Numbers
          /\ NodeAt(Child(n, 2)).type = "parameters"
      BY <1>2, <1>10, <2>1, CallArguments DEF PathsOK
    <2>3. Len(Order(NodeAt(n))) = 1
      BY <2>2
    <2>4. i - 1 \in Nat /\ ~(i <= 1)
      BY <1>10, <1>14, <2>3
    <2>5. StepPath(n, i) = Child(Child(n, 2), i - 1)
      BY <2>3, <2>4 DEF StepPath
    <2>6. Child(n, 2) = p
      BY <1>4, <1>11, <2>2, <2>4, <2>5, ChildInjective
    <2>. QED
      BY <2>2, <2>6
  <1>. QED
    BY <1>13, <1>14

-----------------------------------------------------------------------------
\* Names mean one thing.

\* The declaration at p is done, and with it what gives it a type.
Settled(p) ==
    /\ p \in Declarations
    /\ Done(p)
    /\ Kind(NodeAt(p), 2) = "null" =>
          \E q \in Of({"assign", "constant"}) : p = Child(q, 1) /\ Done(q)

\* Its name is in the table, with the type it was marked with.
Entered(p) ==
    /\ Found(table, DeclaredName(p))
    /\ SymbolOf(table, DeclaredName(p)).located
    /\ Child(p, 1) \in DOMAIN typed
    /\ SymbolOf(table, DeclaredName(p)).type = typed[Child(p, 1)]

NamesSettled == mishaps = {} => \A p \in Paths : Settled(p) => Entered(p)

SettledApart ==
    mishaps = {} =>
        \A p, q \in Paths :
            Settled(p) /\ Settled(q) /\ DeclaredName(p) = DeclaredName(q) => p = q

\* The declaration at p is settled by this step.
NewlyEntered(p) ==
    /\ ~Found(table, DeclaredName(p))
    /\ Entered(p)'
    /\ \/ Here.type = "typed" /\ p = Top.node
       \/ Here.type \in {"assign", "constant"} /\ p = Child(Top.node, 1)

\* A mishap is not forgotten.
LEMMA MishapsKept ==
    ASSUME MachineOK, Step, mishaps' = {}
    PROVE  mishaps = {}
  <1>1. mishaps \subseteq mishaps'
    <2>1. CASE TypeAssignment
      BY <2>1, TypeAssignmentStep DEF NameAdded
    <2>2. CASE ~TypeAssignment
      BY <2>2 DEF Step, ResolveChild, ResolveStatement, ChildFailed, Literal, Operator,
                  Identifier, AssignVariable, DeclareDeduced, DeclareTyped, Function, Call,
                  Argument, CallStatement, Untyped
    <2>. QED
      BY <2>1, <2>2
  <1>. QED
    BY <1>1

\* A declaration that gives a type enters its name.
LEMMA EntersTyped ==
    ASSUME MachineOK, WayOK, Step, mishaps' = {}, Answers, returned'.outcome = "success",
           Here.type = "typed", Kind(Here, 2) # "null", NEW p, p = Top.node
    PROVE  NewlyEntered(p)
  <1>1. TypeAssignment /\ Running
    BY AnsweredBy DEF Answers
  <1>2. PICK its \in Types, read \in Types : NameAdded(its, read)
    BY <1>1, TypeAssignmentStep
  <1>3. /\ Top.node \in Paths /\ NodeAt(Top.node) = Here
        /\ DeclaredName(Top.node) = DeclaringName
    BY <1>1, OldDeclaration
  <1>4. /\ ~Found(table, DeclaringName) /\ TableAdds(DeclaringName, its, FALSE, Unwritten)
        /\ read = its /\ Mark({Top.node, Child(Top.node, 1)}, read)
    BY <1>2 DEF NameAdded
  <1>5. PICK ps : Child(p, 1) \in ps /\ Mark(ps, its)
    BY <1>4
  <1>6. DeclaredName(p)' = DeclaringName
    BY <1>3, DeclarationKept
  <1>7. /\ Found(table', DeclaringName)
        /\ SymbolOf(table', DeclaringName).located = TRUE
        /\ SymbolOf(table', DeclaringName).type = its
    BY <1>4, SymbolAdded
  <1>8. Child(p, 1) \in DOMAIN typed' /\ typed'[Child(p, 1)] = its
    BY <1>5, Marks
  <1>9. Entered(p)'
    BY <1>6, <1>7, <1>8 DEF Entered
  <1>. QED
    BY <1>3, <1>4, <1>9 DEF NewlyEntered

\* So does one that takes the type of its value.
LEMMA EntersDeduced ==
    ASSUME MachineOK, WayOK, Step, Answers, returned'.outcome = "success",
           Here.type \in {"assign", "constant"}, Kind(Here, 1) = "typed",
           Kind(Here.children[1], 2) = "null", NEW p, p = Child(Top.node, 1)
    PROVE  NewlyEntered(p)
  <1>1. Running
    BY DEF Answers
  <1>2. /\ Top.node \in Paths /\ Top.node \in Numbers /\ NodeAt(Top.node) = Here
        /\ Child(Top.node, 1) \in Paths
        /\ NodeAt(Child(Top.node, 1)) = Here.children[1]
        /\ NodeAt(Child(Top.node, 1)).type = "typed"
        /\ DeclaredName(Child(Top.node, 1)) = NewName
    BY <1>1, NewDeclaration
  <1>3. DeclareDeduced
    <2>1. ~AssignVariable
      BY AssignVariableStep
    <2>2. ASSUME DeclareTyped PROVE FALSE
      <3>1. At({"assign", "constant"}) /\ HasShape(Here, Operators) /\ Len(Results) = Len(Order(Here))
        BY <2>2, AtFacts DEF DeclareTyped
      <3>2. Order(Here) = <<2, 1>>
        BY <3>1, OrderOf
      <3>3. 2 \in 1 .. Len(Results)
        BY <3>1, <3>2
      <3>4. PathsOK
        BY StepProgram
      <3>5. StepPath(Top.node, 2) = Child(Top.node, 1)
        BY <1>2, <3>4, PairChildren
      <3>6. Resolved(Child(Top.node, 1), Results[2])
        BY <1>1, <3>3, <3>5, ResultsResolved
      <3>7. Results[2] = "unknown"
        BY <1>2, <3>6, ResolvedNodes DEF WayOK, NullsUnknown
      <3>. QED
        BY <2>2, <3>7, DeclareTypedStep
    <2>. QED
      BY <2>1, <2>2, AnsweredBy
  <1>4. NameDeclared(Results[1])
    BY <1>3, DeclareDeducedStep
  <1>5. PICK type, constant, node :
           /\ TableAdds(NewName, type, constant, node)
           /\ Mark({Child(Top.node, 1), Child(Child(Top.node, 1), 1), Top.node}, type)
    BY <1>4 DEF NameDeclared
  <1>6. PICK ps : Child(p, 1) \in ps /\ Mark(ps, type)
    BY <1>5
  <1>7. DeclaredName(p)' = NewName
    BY <1>2, DeclarationKept
  <1>8. /\ Found(table', NewName)
        /\ SymbolOf(table', NewName).located = TRUE
        /\ SymbolOf(table', NewName).type = type
    BY <1>5, SymbolAdded
  <1>9. Child(p, 1) \in DOMAIN typed' /\ typed'[Child(p, 1)] = type
    BY <1>6, Marks
  <1>10. Entered(p)'
    BY <1>7, <1>8, <1>9 DEF Entered
  <1>. QED
    BY <1>2, <1>4, <1>10 DEF NewlyEntered, NameDeclared

\* A declaration is settled before the step, or by it.
LEMMA NewlySettled ==
    ASSUME MachineOK, WayOK, Step, mishaps' = {}, NEW p \in Paths', Settled(p)'
    PROVE  /\ p \in Paths /\ NodeAt(p).type = "typed"
           /\ DeclaredName(p)' = DeclaredName(p)
           /\ Settled(p) \/ NewlyEntered(p)
  <1>1. PathsOK /\ PathsOK' /\ PathsKept
    BY StepProgram
  <1>2. /\ NodeAt(p)'.type = "typed" /\ Visible(p)' /\ Done(p)'
        /\ Kind(NodeAt(p)', 2) = "null" =>
              \E q \in Of({"assign", "constant"})' : p = Child(q, 1) /\ Done(q)'
    BY DEF Settled, Declarations, Of, Visible
  <1>3. /\ p \in Paths /\ NodeAt(p)'.type = NodeAt(p).type
        /\ \/ Done(p) /\ Visible(p)
           \/ p = Top.node /\ returned'.outcome = "success" /\ Answers
    BY <1>2, DoneStep DEF Passive
  <1>4. NodeAt(p)' = NodeAt(p) /\ NodeAt(p).type = "typed" /\ DeclaredName(p)' = DeclaredName(p)
    BY <1>2, <1>3, DeclarationKept
  <1>5. CASE Kind(NodeAt(p), 2) # "null"
    <2>1. CASE Done(p) /\ Visible(p)
      BY <1>3, <1>4, <1>5, <2>1, OfVisible DEF Settled, Declarations
    <2>2. CASE p = Top.node /\ returned'.outcome = "success" /\ Answers
      <3>1. Here.type = "typed" /\ Kind(Here, 2) # "null"
        BY <1>4, <1>5, <2>2 DEF Here
      <3>2. NewlyEntered(p)
        BY <2>2, <3>1, EntersTyped
      <3>. QED
        BY <1>3, <1>4, <3>2
    <2>. QED
      BY <1>3, <1>4, <2>1, <2>2
  <1>6. CASE Kind(NodeAt(p), 2) = "null"
    <2>1. PICK q \in Of({"assign", "constant"})' : p = Child(q, 1) /\ Done(q)'
      BY <1>2, <1>4, <1>6
    <2>2. q \in Paths' /\ NodeAt(q)'.type \in {"assign", "constant"} /\ Visible(q)'
      BY DEF Of, Visible
    <2>3. /\ q \in Paths /\ NodeAt(q)'.type = NodeAt(q).type
          /\ \/ Done(q) /\ Visible(q)
             \/ q = Top.node /\ returned'.outcome = "success" /\ Answers
      BY <2>1, <2>2, DoneStep DEF Passive
    <2>4. /\ NodeAt(Child(q, 1)) = NodeAt(q).children[1] /\ q \in Numbers
          /\ NodeAt(Child(q, 1)).type = Kind(NodeAt(q), 1)
          /\ 1 \in DOMAIN NodeAt(q).children
      BY <1>1, <2>2, <2>3, PairChildren
    <2>5. CASE Done(q) /\ Visible(q)
      <3>1. Visible(p)
        BY <1>1, <2>1, <2>2, <2>3, <2>4, <2>5, VisibleChild
      <3>2. PICK c \in Paths : Known(c) /\ Within(q, c)
        BY <2>5 DEF Done
      <3>3. Within(p, c)
        BY <1>1, <2>1, <2>4, <3>2, WithinChild DEF PathsOK
      <3>4. Done(p)
        BY <3>2, <3>3 DEF Done
      <3>5. q \in Of({"assign", "constant"})
        BY <2>2, <2>3, <2>5, OfVisible
      <3>. QED
        BY <1>3, <1>4, <2>1, <2>5, <3>1, <3>4, <3>5, OfVisible DEF Settled, Declarations
    <2>6. CASE q = Top.node /\ returned'.outcome = "success" /\ Answers
      <3>1. /\ Here.type \in {"assign", "constant"} /\ Kind(Here, 1) = "typed"
            /\ Kind(Here.children[1], 2) = "null"
        BY <1>4, <1>6, <2>1, <2>2, <2>3, <2>4, <2>6 DEF Here
      <3>2. NewlyEntered(p)
        BY <2>1, <2>6, <3>1, EntersDeduced
      <3>. QED
        BY <1>3, <1>4, <3>2
    <2>. QED
      BY <2>3, <2>5, <2>6
  <1>. QED
    BY <1>5, <1>6

\* The type a declaration was marked with stays.
LEMMA EnteredKept ==
    ASSUME MachineOK, WayOK, Step, NEW p \in Paths, NodeAt(p).type = "typed", Entered(p)
    PROVE  Entered(p)'
  <1>1. PathsOK /\ stack # <<>>
    BY StepProgram, RunsHere
  <1>2. DeclaredName(p)' = DeclaredName(p) /\ p \in Numbers
    BY <1>1, DeclarationKept, TypedChildren
  <1>3. /\ Found(table', DeclaredName(p))
        /\ SymbolOf(table', DeclaredName(p)) = SymbolOf(table, DeclaredName(p))
    BY SymbolKept DEF Entered
  <1>4. Child(p, 1) # Top.node
    BY <1>1, NamesNotEntered
  <1>5. Top.node \in Numbers /\ Top.node \in Paths /\ NodeAt(Top.node) = Here
        /\ Child(Top.node, 1) \in Numbers
    BY <1>1, TopChildren, ChildPath DEF MachineOK
  <1>6. ASSUME NEW ps, NEW type, Mark(ps, type), Child(p, 1) \notin ps
        PROVE  Child(p, 1) \in DOMAIN typed' /\ typed'[Child(p, 1)] = typed[Child(p, 1)]
    BY <1>6, Marks DEF Entered
  <1>7. Child(p, 1) \in DOMAIN typed' /\ typed'[Child(p, 1)] = typed[Child(p, 1)]
    <2>1. CASE UNCHANGED typed
      BY <2>1 DEF Entered
    <2>2. CASE \E type \in Types : Mark({Top.node}, type)
      BY <1>4, <1>6, <2>2
    <2>3. CASE /\ Answers /\ TypeAssignment
               /\ \E its, read \in Types :
                     NameAdded(its, read) /\ Mark({Top.node, Child(Top.node, 1)}, read)
      <3>1. Here.type = "typed" /\ Running
        BY <2>3, TypeAssignmentStep DEF Answers
      <3>2. DeclaredName(Top.node) = DeclaringName
        BY <3>1, OldDeclaration
      <3>3. ~Found(table, DeclaringName)
        BY <2>3 DEF NameAdded
      <3>4. p # Top.node
        BY <3>2, <3>3 DEF Entered
      <3>5. Child(p, 1) # Child(Top.node, 1)
        BY <1>2, <1>5, <3>4, ChildInjective
      <3>. QED
        BY <1>4, <1>6, <2>3, <3>5
    <2>4. CASE Answers /\ DeclareDeduced
      <3>1. Here.type \in {"assign", "constant"} /\ Kind(Here, 1) = "typed" /\ Running
        BY <2>4, DeclareDeducedStep DEF Answers
      <3>2. DeclaredName(Child(Top.node, 1)) = NewName
        BY <3>1, NewDeclaration
      <3>3. CASE Found(table, NewName)
        BY <2>1, <2>4, <3>3 DEF DeclareDeduced, NewName
      <3>4. CASE ~Found(table, NewName)
        <4>1. p # Child(Top.node, 1) /\ p # Top.node
          BY <1>5, <3>1, <3>2, <3>4 DEF Entered
        <4>2. /\ Child(p, 1) # Child(Top.node, 1)
              /\ Child(p, 1) # Child(Child(Top.node, 1), 1)
          BY <1>2, <1>5, <4>1, ChildInjective
        <4>3. \/ UNCHANGED typed
              \/ Mark({Child(Top.node, 1), Child(Child(Top.node, 1), 1)}, Results[1])
              \/ Mark({Child(Top.node, 1), Child(Child(Top.node, 1), 1), Top.node}, Results[1])
          BY <2>4, DeclareDeducedStep DEF NameDeclared
        <4>. QED
          BY <1>4, <1>6, <2>1, <4>2, <4>3
      <3>. QED
        BY <3>3, <3>4
    <2>. QED
      BY <2>1, <2>2, <2>3, <2>4, DataSteps
  <1>. QED
    BY <1>2, <1>3, <1>7 DEF Entered

\* Every step keeps the names that are settled apart.
LEMMA NamesKept ==
    ASSUME MachineOK, WayOK, Step, NamesSettled, SettledApart
    PROVE  NamesSettled' /\ SettledApart'
  <1>1. SUFFICES ASSUME mishaps' = {} PROVE NamesSettled' /\ SettledApart'
    BY DEF NamesSettled, SettledApart
  <1>2. /\ mishaps = {}
        /\ \A p \in Paths : Settled(p) => Entered(p)
        /\ \A p, q \in Paths :
              Settled(p) /\ Settled(q) /\ DeclaredName(p) = DeclaredName(q) => p = q
    BY <1>1, MishapsKept DEF NamesSettled, SettledApart
  <1>3. \A p \in Paths' : Settled(p)' => /\ p \in Paths /\ NodeAt(p).type = "typed"
                                         /\ DeclaredName(p)' = DeclaredName(p)
                                         /\ Settled(p) \/ NewlyEntered(p)
    BY <1>1, NewlySettled
  <1>4. NamesSettled'
    <2>1. ASSUME NEW p \in Paths', Settled(p)' PROVE Entered(p)'
      BY <1>2, <1>3, <2>1, EnteredKept DEF NewlyEntered
    <2>. QED
      BY <2>1 DEF NamesSettled
  <1>5. SettledApart'
    <2>1. ASSUME NEW p \in Paths', NEW q \in Paths', Settled(p)', Settled(q)',
                 DeclaredName(p)' = DeclaredName(q)'
          PROVE  p = q
      <3>1. /\ p \in Paths /\ q \in Paths /\ DeclaredName(p) = DeclaredName(q)
            /\ Settled(p) \/ NewlyEntered(p)
            /\ Settled(q) \/ NewlyEntered(q)
        BY <1>3, <2>1
      <3>2. CASE Settled(p) /\ Settled(q)
        BY <1>2, <3>1, <3>2
      <3>3. CASE NewlyEntered(p) /\ NewlyEntered(q)
        BY <3>3 DEF NewlyEntered
      <3>4. CASE Settled(p) /\ NewlyEntered(q)
        BY <1>2, <3>1, <3>4 DEF NewlyEntered, Entered
      <3>5. CASE NewlyEntered(p) /\ Settled(q)
        BY <1>2, <3>1, <3>5 DEF NewlyEntered, Entered
      <3>. QED
        BY <3>1, <3>2, <3>3, <3>4, <3>5
    <2>. QED
      BY <2>1 DEF SettledApart
  <1>. QED
    BY <1>4, <1>5

\* In a program that is accepted every declaration is settled.
LEMMA AllSettled ==
    ASSUME MachineOK, Accepted, NEW p \in Declarations
    PROVE  p \in Paths /\ Settled(p)
  <1>1. PathsOK /\ p \in Paths /\ NodeAt(p).type = "typed" /\ Visible(p) /\ Done(p)
    BY PathsHold, OfVisible, AllDone DEF MachineOK, Declarations
  <1>2. ASSUME Kind(NodeAt(p), 2) = "null"
        PROVE  \E q \in Of({"assign", "constant"}) : p = Child(q, 1) /\ Done(q)
    <2>1. PICK q \in Paths : NodeAt(q).type \in {"assign", "constant"} /\ p = Child(q, 1)
      BY <1>1, <1>2, NullHolder
    <2>2. Visible(q)
      BY <1>1, <2>1, VisibleAbove
    <2>. QED
      BY <2>1, <2>2, OfVisible, AllDone
  <1>. QED
    BY <1>1, <1>2 DEF Settled

\* When everything is settled, names mean one thing.
LEMMA NamesAccepted ==
    ASSUME MachineOK, Origin, NamesSettled, SettledApart
    PROVE  NamesMeanOneThing
  <1>1. SUFFICES ASSUME Accepted, mishaps = {}
                 PROVE  /\ \A p, q \in Declarations : DeclaredName(p) = DeclaredName(q) => p = q
                        /\ {s.name : s \in UserSymbols} = {DeclaredName(p) : p \in Declarations}
                        /\ \A p \in Declarations :
                              /\ SymbolOf(table, DeclaredName(p)).located
                              /\ SymbolOf(table, DeclaredName(p)).type = Typed(Child(p, 1))
    BY DEF NamesMeanOneThing
  <1>2. \A p \in Declarations : p \in Paths /\ Settled(p)
    BY <1>1, AllSettled
  <1>3. \A p \in Declarations : Entered(p)
    BY <1>1, <1>2 DEF NamesSettled
  <1>4. \A p, q \in Declarations : DeclaredName(p) = DeclaredName(q) => p = q
    BY <1>1, <1>2 DEF SettledApart
  <1>5. UserSymbols = {s \in Held(table) : s.located}
    BY DEF UserSymbols, Held, Counted
  <1>6. ASSUME NEW s \in UserSymbols PROVE s.name \in {DeclaredName(p) : p \in Declarations}
    BY <1>5 DEF Origin
  <1>7. ASSUME NEW p \in Declarations PROVE DeclaredName(p) \in {s.name : s \in UserSymbols}
    <2>1. PICK s : s = SymbolOf(table, DeclaredName(p))
      OBVIOUS
    <2>2. s \in Held(table) /\ s.name = DeclaredName(p) /\ s.located
      BY <1>3, <2>1, FoundSymbol DEF Entered, MachineOK
    <2>. QED
      BY <1>5, <2>2
  <1>8. \A p \in Declarations : /\ SymbolOf(table, DeclaredName(p)).located
                                /\ SymbolOf(table, DeclaredName(p)).type = Typed(Child(p, 1))
    BY <1>3 DEF Entered, Typed
  <1>. QED
    BY <1>4, <1>6, <1>7, <1>8

\* Where symbols come from holds in every state.
LEMMA OriginSafe == Spec => []Origin
  <1>1. Origin /\ UNCHANGED vars => Origin'
    <2>. SUFFICES ASSUME Origin, UNCHANGED vars PROVE Origin'
      OBVIOUS
    <2>1. \A d : DeclaresFunction(d)' = DeclaresFunction(d)
      BY NodesSame DEF DeclaresFunction
    <2>. QED
      BY <2>1, NodesSame DEF Origin
  <1>2. MachineOK /\ WayOK /\ Origin /\ [Next]_vars => Origin'
    BY <1>1, OriginKept DEF Next, Finished
  <1>. QED
    BY <1>2, OriginStarts, MachineSafe, WaySafe, PTL DEF Spec

\* In a program that is accepted every name has one declaration, none of them
\* that of a built-in type the table knows, and the table holds those names and
\* no others, with the type the declaration was given (type_info.c:53-91,
\* :144-188, :217-259).
THEOREM NamesSafe == Spec => []NamesMeanOneThing
  <1>1. Init => NamesSettled /\ SettledApart
    BY NothingDone DEF NamesSettled, SettledApart, Settled
  <1>2. ASSUME NamesSettled, SettledApart, UNCHANGED vars
        PROVE  NamesSettled' /\ SettledApart'
    <2>1. \A p : Settled(p)' = Settled(p)
      BY <1>2, NodesSame, DoneSame DEF Settled
    <2>2. \A p : Entered(p)' = Entered(p)
      BY <1>2, NodesSame DEF Entered
    <2>. QED
      BY <1>2, <2>1, <2>2, NodesSame DEF NamesSettled, SettledApart
  <1>3. /\ MachineOK /\ WayOK /\ NamesSettled /\ SettledApart
        /\ [Next]_vars
        => NamesSettled' /\ SettledApart'
    BY <1>2, NamesKept DEF Next, Finished
  <1>4. MachineOK /\ Origin /\ NamesSettled /\ SettledApart => NamesMeanOneThing
    BY NamesAccepted
  <1>. QED
    BY <1>1, <1>3, <1>4, MachineSafe, WaySafe, OriginSafe, PTL DEF Spec

-----------------------------------------------------------------------------
\* What is accepted is well typed.

\* The name of the return type of the function that d declares.
ReturnName(d) == NameAt(Child(Child(d, 2), 2))

TypeFound(name, type) == Found(table, name) /\ SymbolOf(table, name).type = type

\* An operand has that type by the meaning of the language.
Means(q, type) ==
    \/ NodeAt(q).type = "literal" /\ type = NameAt(q)
    \/ NodeAt(q).type = "identifier" /\ TypeFound(NameAt(q), type)
    \/ NodeAt(q).type = "function" /\ type = "function"
    \/ NodeAt(q).type = "call" /\ \E d \in Callees(q) : TypeFound(ReturnName(d), type)

AllMean(p, type) == \A q \in Operands(p) : Means(q, type)

\* The types written into nodes are those of names and literals.
MarkMeans(p) ==
    /\ NodeAt(p).type \notin Operators \cup {"call"}
    /\ NodeAt(p).type = "literal" => typed[p] = NameAt(p)
    /\ NodeAt(p).type = "identifier" => TypeFound(NameAt(p), typed[p])
    /\ NodeAt(p).type = "typed" => TypeFound(DeclaredName(p), typed[p])

\* The type a node was resolved with is that of all its operands.
ResultMeans(p, type) ==
    /\ NodeAt(p).type \in Values => AllMean(p, type)
    /\ NodeAt(p).type = "typed" /\ Kind(NodeAt(p), 2) # "null" => TypeFound(DeclaredName(p), type)

ParameterAt(d, i) == Child(Child(Child(d, 2), 1), i)

\* The i-th argument of a call fits the function that d declares.
Fits(c, d, i) ==
    \E type \in Types :
        /\ TypeFound(DeclaredName(ParameterAt(d, i)), type)
        /\ type = "unknown" \/ AllMean(Child(Child(c, 2), i), type)

\* So do the first n, and there are as many arguments as parameters.
FitSoFar(c, d, n) ==
    /\ Len(NodeAt(Child(c, 2)).children) = Len(NodeAt(Child(Child(d, 2), 1)).children)
    /\ \A i \in 1 .. n : Fits(c, d, i)

\* What a node that is done has shown of its types.
DoneMeans(p) ==
    /\ NodeAt(p).type \in Operators => \E type \in Types : AllMean(p, type)
    /\ NodeAt(p).type = "assign" =>
          \E type \in Types : TypeFound(NameAt(Target(p)), type) /\ AllMean(Child(p, 2), type)
    /\ NodeAt(p).type = "call" =>
          \E d \in Callees(p) : FitSoFar(p, d, Len(NodeAt(Child(p, 2)).children))
    /\ NodeAt(p).type = "typed" /\ Kind(NodeAt(p), 2) # "null" => p \in DOMAIN typed

\* The symbol a call calls points to the function that d declares.
PointsTo(c, d) ==
    /\ Found(table, NameAt(Child(c, 1)))
    /\ SymbolOf(table, NameAt(Child(c, 1))).decl = Child(d, 2)

\* The arguments of a call that were compared fit.
FrameAgrees(k) ==
    NodeAt(stack[k].node).type = "call" /\ Len(stack[k].got) >= 1 =>
        \E d \in Callees(stack[k].node) :
            PointsTo(stack[k].node, d) /\ FitSoFar(stack[k].node, d, Len(stack[k].got) - 1)

\* The walk goes on without a mishap, a name misread or a function skipped.
Sane ==
    /\ returned.outcome \in {"none", "success"}
    /\ mishaps = {}
    /\ ~Misread
    /\ \A f \in Paths : NodeAt(f).type = "function" /\ Done(f) => Child(f, 2) \in DOMAIN typed

MarksMean == \A p \in DOMAIN typed : MarkMeans(p)
ResultsMean == \A p \in Paths : \A type \in Types : Resolved(p, type) => ResultMeans(p, type)
AllDoneMean == \A p \in Paths : Done(p) /\ Visible(p) => DoneMeans(p)
FramesAgree == \A k \in 1 .. Len(stack) : FrameAgrees(k)
DeclarationsPast == \A s \in Held(table) : s.decl # Unwritten => Done(s.decl)

\* What the walk knows while it is sane.
Sense == Sane => MarksMean /\ ResultsMean /\ AllDoneMean /\ FramesAgree /\ DeclarationsPast

-----------------------------------------------------------------------------
\* Two paths within one another are the same.
LEMMA WithinBoth ==
    ASSUME NEW p \in Numbers, NEW c \in Numbers, Within(p, c), Within(c, p)
    PROVE  p = c
  <1>0. Len(p) \in Nat /\ Len(c) \in Nat
    BY DEF Numbers
  <1>1. Len(p) >= Len(c) /\ Len(c) >= Len(p) /\ SubSeq(p, 1, Len(c)) = c
    BY DEF Within
  <1>3. Len(p) = Len(c)
    BY <1>0, <1>1
  <1>2. SubSeq(p, 1, Len(p)) = p
    BY DEF Numbers
  <1>. QED
    BY <1>1, <1>2, <1>3

\* The node at work is within none that was resolved.
LEMMA NotDoneYet ==
    ASSUME MachineOK, stack # <<>>, NEW c, NEW type, Resolved(c, type), Within(Top.node, c)
    PROVE  FALSE
  <1>1. PathsOK /\ StackOK
    BY PathsHold DEF MachineOK
  <1>2. Len(stack) \in Nat /\ Len(stack) > 0 /\ Top = stack[Len(stack)] /\ Top.node \in Numbers
    BY <1>1, TopFacts
  <1>3. PICK l \in 1 .. Len(stack) : \E i \in 1 .. Reached(l) : c = StepPath(stack[l].node, i)
    BY DEF Resolved
  <1>4. PICK i \in 1 .. Reached(l) : c = StepPath(stack[l].node, i)
    BY <1>3
  <1>5. /\ stack[l].node \in Paths /\ stack[l].node \in Numbers
        /\ Len(stack[l].got) \in Nat /\ Reached(l) \in Nat
        /\ Reached(l) <= Steps(NodeAt(stack[l].node)) /\ Steps(NodeAt(stack[l].node)) \in Nat
        /\ l < Len(stack) => Reached(l) = Len(stack[l].got)
    BY <1>1, ReachedSteps DEF PathsOK
  <1>6. i \in 1 .. Steps(NodeAt(stack[l].node))
    BY <1>5
  <1>7. /\ c \in Paths /\ c \in Numbers /\ c # stack[l].node /\ Within(c, stack[l].node)
    BY <1>1, <1>4, <1>5, <1>6, StepFacts DEF PathsOK
  <1>8. CASE l = Len(stack)
    <2>1. Within(stack[l].node, c) /\ Within(c, stack[l].node) /\ c # stack[l].node
      BY <1>2, <1>7, <1>8
    <2>. QED
      BY <1>5, <1>7, <2>1, WithinBoth
  <1>9. CASE l # Len(stack)
    <2>1. l \in 1 .. Len(stack) - 1 /\ l + 1 \in 1 .. Len(stack) /\ l < Len(stack)
      BY <1>2, <1>9
    <2>2. StepsLeft(l) /\ stack[l + 1].node = StepPath(stack[l].node, Len(stack[l].got) + 1)
      BY <1>1, <2>1 DEF StackOK
    <2>3. Len(stack[l].got) + 1 \in 1 .. Steps(NodeAt(stack[l].node))
      BY <1>5, <2>2 DEF StepsLeft
    <2>4. Len(stack) \in 1 .. Len(stack) /\ l + 1 <= Len(stack)
      BY <1>2, <2>1
    <2>5. Within(Top.node, stack[l + 1].node)
      BY <1>1, <1>2, <2>1, <2>4, FramesNest
    <2>6. i = Len(stack[l].got) + 1
      BY <1>1, <1>2, <1>4, <1>5, <1>6, <2>2, <2>3, <2>5, StepsApart
    <2>. QED
      BY <1>4, <1>5, <2>1, <2>6
  <1>. QED
    BY <1>8, <1>9

\* What is at or below the node that is left with success is done.
LEMMA AnswerDone ==
    ASSUME MachineOK, Step, Answers \/ ChildFailed, returned'.outcome = "success",
           NEW p \in Paths, Within(p, Top.node)
    PROVE  Done(p)'
  <1>1. PathsOK /\ StackOK /\ Pops /\ stack # <<>> /\ UNCHANGED program
    <2>1. Pops
      BY ChildFailedStep DEF Answers
    <2>. QED
      BY <2>1, StepProgram, RunsHere DEF Pops, MachineOK
  <1>2. PICK n : n = Top.node
    OBVIOUS
  <1>3. n \in Paths /\ n \in Paths' /\ p \in Paths'
    BY <1>1, <1>2, TopFacts, PathsSame
  <1>4. PICK t : t = returned'.type
    OBVIOUS
  <1>6. t \in Types
    BY <1>1, <1>4 DEF Pops
  <1>5. Known(n)'
    <2>1. CASE stack' # <<>>
      <3>1. Resolved(n, t)'
        BY <1>1, <1>2, <1>4, <2>1, PopsResolve
      <3>. QED
        BY <1>6, <3>1 DEF Known, Types
    <2>2. CASE stack' = <<>>
      <3>1. Len(stack) \in Nat /\ Len(stack) > 0 /\ Top = stack[Len(stack)]
            /\ Below \in Seq(Frames) /\ Len(Below) = Len(stack) - 1
        BY <1>1, TopFacts
      <3>2. Len(stack) = 1
        BY <1>1, <2>2, <3>1 DEF Pops
      <3>3. n = <<>>
        BY <1>1, <1>2, <3>1, <3>2 DEF StackOK
      <3>. QED
        BY <2>2, <3>3 DEF Known
    <2>. QED
      BY <2>1, <2>2
  <1>. QED
    BY <1>2, <1>3, <1>5 DEF Done, Within

\* What is done stays done, as long as nothing fails.
LEMMA DoneKept ==
    ASSUME MachineOK, Step, returned.outcome \in {"none", "success"},
           returned'.outcome \in {"none", "success"}, NEW p \in Paths, Done(p)
    PROVE  Done(p)'
  <1>1. PathsOK /\ PathsKept /\ StackOK /\ stack # <<>>
    BY StepProgram, RunsHere DEF MachineOK
  <1>2. PICK c \in Paths : Known(c) /\ Within(p, c)
    BY DEF Done
  <1>3. PICK type \in Types : Resolved(c, type)
    BY <1>1, <1>2 DEF Known
  <1>4. c \in Paths'
    BY <1>1 DEF PathsKept
  <1>5. CASE PushesOnly
    <2>1. Resolved(c, type)'
      BY <1>3, <1>5, PushesResolve DEF PushesOnly
    <2>. QED
      BY <1>2, <1>4, <2>1 DEF Done, Known, Types, Within
  <1>6. CASE Answers
    <2>1. Pops /\ returned'.outcome = "success"
      BY <1>6 DEF Answers, Pops
    <2>2. CASE Resolved(c, type)'
      BY <1>2, <1>4, <2>2 DEF Done, Known, Types, Within
    <2>3. CASE \E j \in 1 .. Reached(Len(stack)) : c = StepPath(Top.node, j)
      <3>1. PICK j \in 1 .. Reached(Len(stack)) : c = StepPath(Top.node, j)
        BY <2>3
      <3>2. Len(stack) \in 1 .. Len(stack) /\ Top = stack[Len(stack)] /\ Top.node \in Paths
        BY <1>1, TopFacts
      <3>3. /\ Reached(Len(stack)) \in Nat /\ Reached(Len(stack)) <= Steps(NodeAt(Top.node))
            /\ Steps(NodeAt(Top.node)) \in Nat
        BY <3>2, ReachedSteps
      <3>4. j \in 1 .. Steps(NodeAt(Top.node))
        BY <3>3
      <3>5. Within(c, Top.node)
        BY <1>1, <3>1, <3>2, <3>4, StepFacts
      <3>6. p \in Numbers /\ c \in Numbers /\ Top.node \in Numbers
        BY <1>1, <3>2 DEF PathsOK
      <3>7. Within(p, Top.node)
        BY <1>2, <3>5, <3>6, WithinTransitive
      <3>. QED
        BY <1>6, <2>1, <3>7, AnswerDone
    <2>. QED
      BY <1>3, <2>1, <2>2, <2>3, PopsResolve
  <1>7. ~ChildFailed
    BY ChildFailedStep
  <1>. QED
    BY <1>5, <1>6, <1>7, StepKinds

\* A call, the name it calls and its arguments stay as they are.
LEMMA CallKept ==
    ASSUME MachineOK, Step, NEW c \in Paths, NodeAt(c).type = "call"
    PROVE  /\ c \in Paths' /\ NodeAt(c)' = NodeAt(c)
           /\ NameAt(Child(c, 1))' = NameAt(Child(c, 1))
           /\ NodeAt(Child(c, 2))' = NodeAt(Child(c, 2))
  <1>1. PathsOK /\ PathsKept
    BY StepProgram
  <1>2. /\ Child(c, 1) \in Paths /\ NodeAt(Child(c, 1)).type = "identifier"
        /\ Child(c, 2) \in Paths /\ NodeAt(Child(c, 2)).type = "parameters"
    BY <1>1, CallArguments
  <1>3. NodeAt(Child(c, 1))' = NodeAt(Child(c, 1)) /\ NodeAt(Child(c, 2))' = NodeAt(Child(c, 2))
    BY <1>2, StepProgram
  <1>. QED
    BY <1>1, <1>3, StepProgram DEF NameAt, PathsKept

\* A name that was misread stays so.
LEMMA MisreadKept ==
    ASSUME MachineOK, Step, Misread
    PROVE  Misread'
  <1>1. PathsOK /\ PathsOK' /\ PathsKept
    BY StepProgram
  <1>2. PICK c \in Of({"call"}), p \in Declarations :
           /\ DeclaredName(p) = NameAt(Child(c, 1))
           /\ \A d \in Callees(c) : p # Child(d, 1)
    BY DEF Misread
  <1>3. /\ c \in Paths /\ NodeAt(c).type = "call" /\ c \in Of({"call"})'
        /\ p \in Paths /\ NodeAt(p).type = "typed" /\ Visible(p) /\ p \in Declarations'
    BY OfVisible, OfKept DEF Declarations
  <1>4. NameAt(Child(c, 1))' = NameAt(Child(c, 1)) /\ DeclaredName(p)' = DeclaredName(p)
    BY <1>3, CallKept, DeclarationKept
  <1>5. ASSUME NEW d \in Callees(c)', p = Child(d, 1)
        PROVE  FALSE
    <2>1. /\ d \in Paths' /\ DeclaresFunction(d)' /\ NodeAt(d)'.type \in {"assign", "constant"}
          /\ 1 \in Nat
      BY OfVisible DEF Callees, Of
    <2>2. d \in Paths /\ NodeAt(d)' = NodeAt(d)
      BY <1>3, <1>5, <2>1, AboveKept
    <2>3. DeclaresFunction(d)
      BY <2>1, <2>2 DEF DeclaresFunction
    <2>4. Visible(d)
      BY <1>1, <1>3, <1>5, <2>2, VisibleAbove
    <2>5. d \in Callees(c)
      BY <1>2, <1>5, <2>1, <2>2, <2>3, <2>4, OfVisible DEF Callees
    <2>. QED
      BY <1>2, <1>5, <2>5
  <1>. QED
    BY <1>2, <1>3, <1>4, <1>5 DEF Misread

\* Who was sane is sane no longer once something went wrong, and never again.
LEMMA SaneBefore ==
    ASSUME MachineOK, WayOK, Step, Sane'
    PROVE  Sane
  <1>1. PathsOK /\ PathsKept /\ StackOK /\ stack # <<>>
    BY StepProgram, RunsHere DEF MachineOK
  <1>2. /\ returned'.outcome \in {"none", "success"} /\ mishaps' = {} /\ ~Misread'
        /\ \A f \in Paths' : NodeAt(f)'.type = "function" /\ Done(f)' => Child(f, 2) \in DOMAIN typed'
    BY DEF Sane
  <1>3. returned.outcome # "failure"
    <2>1. SUFFICES ASSUME returned.outcome = "failure" PROVE FALSE
      OBVIOUS
    <2>2. ChildFailed
      BY <2>1, StepKinds DEF PushesOnly, Pushes, Answers, Running
    <2>3. /\ Pops /\ UNCHANGED typed /\ Skipping
          /\ returned'.outcome = "success"
      BY <1>2, <2>1, <2>2, ChildFailedStep DEF Success
    <2>4. PICK f : f = Top.node
      OBVIOUS
    <2>5. /\ f \in Paths /\ f \in Numbers /\ NodeAt(f).type = "function"
      BY <1>1, <2>3, <2>4, TopFacts DEF Skipping, Here
    <2>6. ~Found(table, NameAt(Child(f, 2)))
      BY <1>1, <2>1, <2>3, <2>4 DEF WayOK, SkipReason
    <2>7. Child(f, 2) \notin DOMAIN typed
      BY <2>5, <2>6 DEF WayOK, ReturnTypesFound
    <2>8. Done(f)'
      BY <2>2, <2>3, <2>4, <2>5, AnswerDone, WithinItself
    <2>9. f \in Paths' /\ NodeAt(f)'.type = "function"
      BY <1>1, <2>5 DEF PathsKept
    <2>. QED
      BY <1>2, <2>3, <2>7, <2>8, <2>9
  <1>4. returned.outcome \in {"none", "success"}
    BY <1>1, <1>3, CrashStops DEF StackOK, Outcomes
  <1>5. mishaps = {} /\ ~Misread
    BY <1>2, MishapsKept, MisreadKept
  <1>6. ASSUME NEW f \in Paths, NodeAt(f).type = "function", Done(f), Child(f, 2) \notin DOMAIN typed
        PROVE  FALSE
    <2>1. f \in Paths' /\ NodeAt(f)'.type = "function" /\ Done(f)'
      BY <1>1, <1>2, <1>4, <1>6, DoneKept DEF PathsKept
    <2>2. Child(f, 2) \in DOMAIN typed'
      BY <1>2, <2>1
    <2>3. Top.node = Child(f, 2)
      BY <1>6, <2>2, ReturnTypeMarked
    <2>4. PICK c \in Paths, type \in Types : Resolved(c, type) /\ Within(f, c)
      BY <1>1, <1>6 DEF Done, Known
    <2>5. f \in Numbers /\ c \in Numbers /\ 2 \in Nat
      BY <1>1, <2>4 DEF PathsOK
    <2>6. Within(Top.node, c)
      BY <2>3, <2>4, <2>5, WithinChild
    <2>. QED
      BY <1>1, <2>4, <2>6, NotDoneYet
  <1>. QED
    BY <1>4, <1>5, <1>6 DEF Sane

-----------------------------------------------------------------------------
\* Operands and their meaning stay as they are.
LEMMA OperandsKept ==
    ASSUME MachineOK, Step, NEW p \in Paths, p # <<>>
    PROVE  Operands(p)' = Operands(p)
  <1>1. PathsOK /\ PathsOK' /\ PathsKept
    BY StepProgram
  <1>2. \A q \in Paths' : Within(q, p) => q \in Paths
    BY <1>1 DEF PathsKept
  <1>3. ASSUME NEW q \in Paths, Within(q, p)
        PROVE  /\ q \in Paths' /\ NodeAt(q)'.type = NodeAt(q).type
               /\ \A n \in Len(p) .. Len(q) - 1 :
                     NodeAt(SubSeq(q, 1, n))'.type = NodeAt(SubSeq(q, 1, n)).type
    <2>1. p \in Numbers /\ q \in Numbers
      BY <1>1 DEF PathsOK
    <2>2. Len(p) \in Nat /\ Len(q) \in Nat
      BY <2>1 DEF Numbers
    <2>3. ASSUME NEW n \in Len(p) .. Len(q) - 1
          PROVE  NodeAt(SubSeq(q, 1, n))'.type = NodeAt(SubSeq(q, 1, n)).type
      <3>1. PICK c : c = SubSeq(q, 1, n)
        OBVIOUS
      <3>2. n \in Nat /\ n <= Len(q)
        BY <2>2
      <3>3. c \in Numbers /\ Len(c) = n
        BY <2>1, <3>1, <3>2 DEF Numbers
      <3>4. Within(q, c)
        BY <2>2, <3>1, <3>2, <3>3 DEF Within
      <3>5. c \in Paths
        BY <1>1, <3>3, <3>4, PrefixesLead
      <3>6. NodeAt(c)'.type = NodeAt(c).type
        BY <1>1, <3>5 DEF PathsKept
      <3>. QED
        BY <3>1, <3>6
    <2>. QED
      BY <1>1, <2>3 DEF PathsKept
  <1>4. ASSUME NEW q PROVE q \in Operands(p)' <=> q \in Operands(p)
    BY <1>2, <1>3 DEF Operands, Within
  <1>. QED
    BY <1>4

\* The type of a name stays what it is.
LEMMA TypeKept ==
    ASSUME MachineOK, Step, NEW name, NEW type, TypeFound(name, type)
    PROVE  TypeFound(name, type)'
  BY SymbolKept DEF TypeFound

\* The parameters of a function.
LEMMA ParameterFacts ==
    ASSUME PathsOK, NEW f \in Paths, NodeAt(f).type = "function"
    PROVE  /\ Child(f, 1) \in Paths /\ NodeAt(Child(f, 1)).type = "parameters"
           /\ Len(NodeAt(Child(f, 1)).children) \in Nat
           /\ DOMAIN NodeAt(Child(f, 1)).children = 1 .. Len(NodeAt(Child(f, 1)).children)
           /\ \A i \in DOMAIN NodeAt(Child(f, 1)).children :
                 /\ i \in Nat
                 /\ Child(Child(f, 1), i) \in Paths
                 /\ NodeAt(Child(Child(f, 1), i)) = NodeAt(Child(f, 1)).children[i]
                 /\ NodeAt(Child(Child(f, 1), i)).type = "typed"
                 /\ Kind(NodeAt(Child(Child(f, 1), i)), 2) = "identifier"
  <1>1. /\ Child(f, 1) \in Paths /\ NodeAt(Child(f, 1)).type = "parameters"
        /\ NodeAt(Child(f, 1)) = NodeAt(f).children[1]
    BY FunctionChildren
  <1>2. HasShape(NodeAt(f), Operators) /\ HasShape(NodeAt(Child(f, 1)), Operators)
    BY <1>1 DEF PathsOK
  <1>3. PICK list : list = NodeAt(f).children[1]
    OBVIOUS
  <1>4. /\ Kinds(list) \in Seq({"typed"})
        /\ \A i \in DOMAIN list.children : Kinds(list.children[i]) = <<"identifier", "identifier">>
    BY <1>2, <1>3 DEF HasShape
  <1>5. /\ Len(list.children) \in Nat /\ DOMAIN list.children = 1 .. Len(list.children)
        /\ Len(Kinds(list)) = Len(list.children)
        /\ \A i \in DOMAIN list.children : i \in Nat /\ Kinds(list)[i] = list.children[i].type
    BY <1>1, <1>2, <1>3, ChildrenCount
  <1>6. ASSUME NEW i \in DOMAIN list.children
        PROVE  /\ list.children[i].type = "typed"
               /\ Kind(list.children[i], 2) = "identifier"
    <2>1. list.children[i].type = "typed"
      <3>1. i \in 1 .. Len(Kinds(list))
        BY <1>5
      <3>2. Kinds(list)[i] \in {"typed"}
        BY <1>4, <3>1
      <3>. QED
        BY <1>5, <3>2
    <2>2. DOMAIN Kinds(list.children[i]) = DOMAIN list.children[i].children
      BY DEF Kinds
    <2>3. 2 \in DOMAIN list.children[i].children /\ Kinds(list.children[i])[2] = "identifier"
      <3>1. Kinds(list.children[i]) = <<"identifier", "identifier">>
        BY <1>4
      <3>2. DOMAIN <<"identifier", "identifier">> = 1 .. 2 /\ 2 \in 1 .. 2
        OBVIOUS
      <3>3. 2 \in DOMAIN Kinds(list.children[i]) /\ Kinds(list.children[i])[2] = "identifier"
        BY <3>1, <3>2
      <3>. QED
        BY <2>2, <3>3
    <2>4. Kinds(list.children[i])[2] = list.children[i].children[2].type
      BY <2>3 DEF Kinds
    <2>. QED
      BY <2>1, <2>3, <2>4 DEF Kind
  <1>7. \A i \in DOMAIN list.children :
           Child(Child(f, 1), i) \in Paths /\ NodeAt(Child(Child(f, 1), i)) = list.children[i]
    BY <1>1, <1>3, ChildOf
  <1>. QED
    BY <1>1, <1>3, <1>5, <1>6, <1>7

\* A function that a call calls, with what it says of its parameters and its return type.
LEMMA CalleeFacts ==
    ASSUME PathsOK, NEW c, NEW d \in Callees(c)
    PROVE  /\ d \in Paths /\ d \in Numbers /\ DeclaresFunction(d) /\ Visible(d)
           /\ NodeAt(d).type \in {"assign", "constant"}
           /\ Child(d, 1) \in Paths /\ NodeAt(Child(d, 1)).type = "typed"
           /\ Child(d, 2) \in Paths /\ NodeAt(Child(d, 2)).type = "function"
           /\ DeclaredName(Child(d, 1)) = NameAt(Child(c, 1))
           /\ Child(Child(d, 2), 2) \in Paths
           /\ NodeAt(Child(Child(d, 2), 2)).type = "identifier"
  <1>1. d \in Paths /\ DeclaresFunction(d) /\ Visible(d) /\ NodeAt(d).type \in {"assign", "constant"}
    BY OfVisible DEF Callees
  <1>2. /\ d \in Numbers /\ Child(d, 1) \in Paths /\ NodeAt(Child(d, 1)).type = "typed"
        /\ Child(d, 2) \in Paths /\ NodeAt(Child(d, 2)).type = "function"
    BY <1>1, Declares
  <1>3. DeclaredName(Child(d, 1)) = NameAt(Child(c, 1))
    BY DEF Callees
  <1>. QED
    BY <1>1, <1>2, <1>3, FunctionChildren

\* A function that a call calls stays as it is.
LEMMA CalleeKept ==
    ASSUME MachineOK, Step, NEW c \in Paths, NodeAt(c).type = "call", NEW d \in Callees(c)
    PROVE  /\ d \in Callees(c)'
           /\ ReturnName(d)' = ReturnName(d)
           /\ NodeAt(Child(Child(d, 2), 1))' = NodeAt(Child(Child(d, 2), 1))
           /\ \A i \in DOMAIN NodeAt(Child(Child(d, 2), 1)).children :
                 DeclaredName(ParameterAt(d, i))' = DeclaredName(ParameterAt(d, i))
  <1>1. PathsOK /\ PathsKept
    BY StepProgram
  <1>2. /\ d \in Paths /\ DeclaresFunction(d) /\ Visible(d)
        /\ NodeAt(d).type \in {"assign", "constant"}
        /\ Child(d, 1) \in Paths /\ NodeAt(Child(d, 1)).type = "typed"
        /\ Child(d, 2) \in Paths /\ NodeAt(Child(d, 2)).type = "function"
        /\ DeclaredName(Child(d, 1)) = NameAt(Child(c, 1))
        /\ Child(Child(d, 2), 2) \in Paths /\ NodeAt(Child(Child(d, 2), 2)).type = "identifier"
    BY <1>1, CalleeFacts
  <1>3. NodeAt(d)' = NodeAt(d) /\ DeclaredName(Child(d, 1))' = DeclaredName(Child(d, 1))
    BY <1>2, PairKept, DeclarationKept
  <1>4. d \in Of({"assign", "constant"})'
    BY <1>2, OfVisible, OfKept
  <1>5. DeclaresFunction(d)'
    BY <1>2, <1>3 DEF DeclaresFunction
  <1>6. NameAt(Child(c, 1))' = NameAt(Child(c, 1))
    BY CallKept
  <1>7. d \in Callees(c)'
    BY <1>2, <1>3, <1>4, <1>5, <1>6 DEF Callees
  <1>8. ReturnName(d)' = ReturnName(d)
    <2>1. NodeAt(Child(Child(d, 2), 2))' = NodeAt(Child(Child(d, 2), 2))
      BY <1>2, StepProgram
    <2>. QED
      BY <2>1 DEF ReturnName, NameAt
  <1>9. PICK f : f = Child(d, 2)
    OBVIOUS
  <1>10. Child(f, 1) \in Paths /\ NodeAt(Child(f, 1)).type = "parameters"
    BY <1>1, <1>2, <1>9, ParameterFacts
  <1>11. NodeAt(Child(f, 1))' = NodeAt(Child(f, 1))
    BY <1>10, StepProgram
  <1>12. ASSUME NEW i \in DOMAIN NodeAt(Child(f, 1)).children
         PROVE  DeclaredName(Child(Child(f, 1), i))' = DeclaredName(Child(Child(f, 1), i))
    BY <1>1, <1>2, <1>9, ParameterFacts, DeclarationKept
  <1>. QED
    BY <1>7, <1>8, <1>9, <1>11, <1>12 DEF ParameterAt

\* An operand keeps its meaning.
LEMMA MeansKept ==
    ASSUME MachineOK, Step, NEW q \in Paths, NEW type, Means(q, type)
    PROVE  Means(q, type)'
  <1>1. NodeAt(q).type # "scope" /\ NodeAt(q)' = NodeAt(q)
    BY StepProgram DEF Means
  <1>2. NameAt(q)' = NameAt(q)
    BY <1>1 DEF NameAt
  <1>3. CASE NodeAt(q).type = "literal" /\ type = NameAt(q)
    BY <1>1, <1>2, <1>3 DEF Means
  <1>4. CASE NodeAt(q).type = "identifier" /\ TypeFound(NameAt(q), type)
    <2>1. PICK name : name = NameAt(q)
      OBVIOUS
    <2>2. TypeFound(name, type)'
      BY <1>4, <2>1, TypeKept
    <2>. QED
      BY <1>1, <1>2, <1>4, <2>1, <2>2 DEF Means, TypeFound
  <1>5. CASE NodeAt(q).type = "function" /\ type = "function"
    BY <1>1, <1>5 DEF Means
  <1>6. CASE NodeAt(q).type = "call" /\ \E d \in Callees(q) : TypeFound(ReturnName(d), type)
    <2>1. PICK d \in Callees(q) : TypeFound(ReturnName(d), type)
      BY <1>6
    <2>2. PICK name : name = ReturnName(d)
      OBVIOUS
    <2>3. TypeFound(name, type)'
      BY <2>1, <2>2, TypeKept
    <2>4. d \in Callees(q)' /\ ReturnName(d)' = name
      BY <1>6, <2>2, CalleeKept
    <2>5. TypeFound(ReturnName(d), type)'
      BY <2>3, <2>4 DEF TypeFound
    <2>. QED
      BY <1>1, <1>6, <2>4, <2>5 DEF Means
  <1>. QED
    BY <1>3, <1>4, <1>5, <1>6 DEF Means

\* So does an expression.
LEMMA AllMeanKept ==
    ASSUME MachineOK, Step, NEW p \in Paths, p # <<>>, NEW type, AllMean(p, type)
    PROVE  AllMean(p, type)'
  <1>1. Operands(p)' = Operands(p) /\ Operands(p) \subseteq Paths
    BY OperandsKept DEF Operands
  <1>2. \A q \in Operands(p) : Means(q, type)'
    BY <1>1, MeansKept DEF AllMean
  <1>. QED
    BY <1>1, <1>2 DEF AllMean

\* Arguments that fit go on fitting.
LEMMA FitKept ==
    ASSUME MachineOK, Step, NEW c \in Paths, NodeAt(c).type = "call", NEW d \in Callees(c),
           NEW n, n \in Nat, n <= Len(NodeAt(Child(c, 2)).children), FitSoFar(c, d, n)
    PROVE  FitSoFar(c, d, n)'
  <1>1. PathsOK
    BY StepProgram
  <1>2. /\ NodeAt(Child(c, 2))' = NodeAt(Child(c, 2))
        /\ NodeAt(Child(Child(d, 2), 1))' = NodeAt(Child(Child(d, 2), 1))
        /\ \A i \in DOMAIN NodeAt(Child(Child(d, 2), 1)).children :
              DeclaredName(ParameterAt(d, i))' = DeclaredName(ParameterAt(d, i))
    BY CallKept, CalleeKept
  <1>3. /\ Len(NodeAt(Child(c, 2)).children) = Len(NodeAt(Child(Child(d, 2), 1)).children)
        /\ \A i \in 1 .. n : Fits(c, d, i)
    BY DEF FitSoFar
  <1>4. /\ Len(NodeAt(Child(c, 2)).children) \in Nat
        /\ \A i \in 1 .. Len(NodeAt(Child(c, 2)).children) :
              Child(Child(c, 2), i) \in Paths /\ Child(Child(c, 2), i) # <<>>
    <2>1. /\ Child(c, 2) \in Paths /\ NodeAt(Child(c, 2)) = NodeAt(c).children[2]
          /\ Len(NodeAt(c).children[2].children) \in Nat
          /\ DOMAIN NodeAt(c).children[2].children = 1 .. Len(NodeAt(c).children[2].children)
          /\ \A i \in DOMAIN NodeAt(c).children[2].children : Child(Child(c, 2), i) \in Paths
      BY <1>1, CallArguments
    <2>2. ASSUME NEW i \in 1 .. Len(NodeAt(Child(c, 2)).children)
          PROVE  Child(Child(c, 2), i) # <<>>
      <3>1. Child(c, 2) \in Numbers /\ i \in Nat
        BY <1>1, <2>1 DEF PathsOK
      <3>. QED
        BY <3>1, ChildPath
    <2>. QED
      BY <2>1, <2>2
  <1>5. DOMAIN NodeAt(Child(Child(d, 2), 1)).children = 1 .. Len(NodeAt(Child(c, 2)).children)
    <2>1. Child(d, 2) \in Paths /\ NodeAt(Child(d, 2)).type = "function"
      BY <1>1, CalleeFacts
    <2>. QED
      BY <1>1, <1>3, <2>1, ParameterFacts
  <1>6. ASSUME NEW i \in 1 .. n
        PROVE  Fits(c, d, i)'
    <2>1. i \in 1 .. Len(NodeAt(Child(c, 2)).children)
      BY <1>4
    <2>2. PICK type \in Types : /\ TypeFound(DeclaredName(ParameterAt(d, i)), type)
                                /\ type = "unknown" \/ AllMean(Child(Child(c, 2), i), type)
      BY <1>3 DEF Fits
    <2>3. PICK name, p : name = DeclaredName(ParameterAt(d, i)) /\ p = Child(Child(c, 2), i)
      OBVIOUS
    <2>4. TypeFound(name, type)' /\ DeclaredName(ParameterAt(d, i))' = name
      BY <1>2, <1>5, <2>1, <2>2, <2>3, TypeKept
    <2>5. type = "unknown" \/ AllMean(p, type)'
      BY <1>4, <2>1, <2>2, <2>3, AllMeanKept
    <2>6. TypeFound(DeclaredName(ParameterAt(d, i)), type)'
      BY <2>4 DEF TypeFound
    <2>. QED
      BY <2>3, <2>5, <2>6 DEF Fits, Types, Child
  <1>. QED
    BY <1>2, <1>3, <1>6 DEF FitSoFar

-----------------------------------------------------------------------------
\* What expressions are made of.
LEMMA OperandsAlone ==
    ASSUME PathsOK, NEW p \in Paths, NodeAt(p).type \notin Operators
    PROVE  Operands(p) = {p}
  <1>1. p \in Numbers /\ Len(p) \in Nat
    BY DEF PathsOK, Numbers
  <1>2. ASSUME NEW q \in Operands(p)
        PROVE  q = p
    <2>1. /\ q \in Paths /\ Within(q, p)
          /\ \A n \in Len(p) .. Len(q) - 1 : NodeAt(SubSeq(q, 1, n)).type \in Operators
      BY DEF Operands
    <2>2. q \in Numbers /\ Len(q) \in Nat
      BY <2>1 DEF PathsOK, Numbers
    <2>3. Len(q) >= Len(p) /\ SubSeq(q, 1, Len(p)) = p
      BY <2>1 DEF Within
    <2>4. ~(Len(p) \in Len(p) .. Len(q) - 1)
      BY <2>1, <2>3
    <2>5. Len(q) = Len(p)
      BY <1>1, <2>2, <2>3, <2>4
    <2>6. SubSeq(q, 1, Len(q)) = q
      BY <2>2 DEF Numbers
    <2>. QED
      BY <2>3, <2>5, <2>6
  <1>3. p \in Operands(p)
    <2>1. Within(p, p)
      BY <1>1, WithinItself
    <2>2. Len(p) .. Len(p) - 1 = {}
      BY <1>1
    <2>. QED
      BY <2>1, <2>2 DEF Operands
  <1>. QED
    BY <1>2, <1>3

\* The operands of an operator are those of its children.
LEMMA OperandsBelow ==
    ASSUME PathsOK, NEW p \in Paths, NodeAt(p).type \in Operators, NEW q \in Operands(p)
    PROVE  q \in Operands(Child(p, 1)) \/ q \in Operands(Child(p, 2))
  <1>1. /\ q \in Paths /\ Within(q, p) /\ NodeAt(q).type \notin Operators
        /\ \A n \in Len(p) .. Len(q) - 1 : NodeAt(SubSeq(q, 1, n)).type \in Operators
    BY DEF Operands
  <1>2. q # p /\ HasShape(NodeAt(p), Operators) /\ p \in Numbers
    BY <1>1 DEF PathsOK
  <1>3. PICK i \in DOMAIN NodeAt(p).children : Within(q, Child(p, i))
    BY <1>1, <1>2, BelowAChild
  <1>4. i \in Nat /\ i \in {1, 2}
    <2>1. Len(NodeAt(p).children) = 2 /\ DOMAIN NodeAt(p).children = 1 .. Len(NodeAt(p).children)
      BY <1>2, ChildKinds
    <2>. QED
      BY <2>1
  <1>5. Len(Child(p, i)) = Len(p) + 1
    BY <1>2, <1>4, ChildPath
  <1>6. Len(p) \in Nat /\ Len(q) \in Int
    BY <1>1, <1>2 DEF PathsOK, Numbers
  <1>7. \A n \in Len(Child(p, i)) .. Len(q) - 1 : NodeAt(SubSeq(q, 1, n)).type \in Operators
    <2>1. Len(Child(p, i)) .. Len(q) - 1 \subseteq Len(p) .. Len(q) - 1
      BY <1>5, <1>6
    <2>. QED
      BY <1>1, <2>1
  <1>8. q \in Operands(Child(p, i))
    BY <1>1, <1>3, <1>7 DEF Operands
  <1>. QED
    BY <1>4, <1>8

\* An operator means what both of its children mean.
LEMMA BothMean ==
    ASSUME PathsOK, NEW p \in Paths, NodeAt(p).type \in Operators, NEW type,
           AllMean(Child(p, 1), type), AllMean(Child(p, 2), type)
    PROVE  AllMean(p, type)
  BY OperandsBelow DEF AllMean

-----------------------------------------------------------------------------
\* The types that are written into nodes are right.
LEMMA OldMark ==
    ASSUME MachineOK, Step, NEW p \in DOMAIN typed, MarkMeans(p), typed'[p] = typed[p]
    PROVE  MarkMeans(p)'
  <1>1. p \in Paths /\ PathsKept
    BY StepProgram DEF MachineOK, TypedOK
  <1>2. NodeAt(p)'.type = NodeAt(p).type
    BY <1>1 DEF PathsKept
  <1>3. NodeAt(p).type # "scope" => NodeAt(p)' = NodeAt(p)
    BY <1>1, StepProgram
  <1>4. PICK type, name : type = typed[p] /\ name = NameAt(p)
    OBVIOUS
  <1>5. NodeAt(p).type = "identifier" => TypeFound(NameAt(p), typed[p])'
    <2>1. NodeAt(p).type = "identifier" => TypeFound(name, type)' /\ NameAt(p)' = name
      BY <1>3, <1>4, TypeKept DEF MarkMeans, NameAt
    <2>. QED
      BY <1>4, <2>1 DEF TypeFound
  <1>6. NodeAt(p).type = "typed" => TypeFound(DeclaredName(p), typed[p])'
    <2>1. PICK declared : declared = DeclaredName(p)
      OBVIOUS
    <2>2. NodeAt(p).type = "typed" => TypeFound(declared, type)' /\ DeclaredName(p)' = declared
      BY <1>1, <1>4, <2>1, TypeKept, DeclarationKept DEF MarkMeans
    <2>. QED
      BY <1>4, <2>2 DEF TypeFound
  <1>7. NodeAt(p).type = "literal" => typed'[p] = NameAt(p)'
    BY <1>3 DEF MarkMeans, NameAt
  <1>. QED
    BY <1>2, <1>5, <1>6, <1>7 DEF MarkMeans

\* A mark is that of the step, or was there before it.
LEMMA MarkedHere ==
    ASSUME NEW ps, NEW type, Mark(ps, type), NEW p \in DOMAIN typed'
    PROVE  /\ p \in ps => typed'[p] = type
           /\ p \notin ps => p \in DOMAIN typed /\ typed'[p] = typed[p]
  BY Marks

\* A mark that is written is the type of a name or a literal.
LEMMA NewMark ==
    ASSUME MachineOK, WayOK, Step, Sane', Answers, NEW p \in DOMAIN typed',
           ~(UNCHANGED typed), p \notin DOMAIN typed \/ typed'[p] # typed[p]
    PROVE  MarkMeans(p)'
  <1>1. /\ returned'.outcome = "success" /\ mishaps' = {} /\ UNCHANGED program /\ Running
        /\ PathsOK /\ StackOK /\ stack # <<>> /\ TableOK
    BY StepProgram, RunsHere DEF Sane, Answers, Pops, MachineOK
  <1>2. /\ Top.node \in Paths /\ NodeAt(Top.node) = Here
    BY <1>1, TopChildren
  <1>3. \A q : NodeAt(q)' = NodeAt(q) /\ NameAt(q)' = NameAt(q) /\ DeclaredName(q)' = DeclaredName(q)
    BY <1>1, PathsSame DEF NameAt, DeclaredName
  <1>4. ASSUME NEW type \in Types, Mark({Top.node}, type), Here.type \notin {"typed", "constant"}
        PROVE  MarkMeans(p)'
    <2>1. p = Top.node
      BY <1>4, MarkedHere
    <2>2. CASE Here.type = "literal"
      <3>1. typed'[p] = Here.name
        <4>1. PICK ps, name : ps = {Top.node} /\ name = Here.name
          OBVIOUS
        <4>2. Mark(ps, name) /\ p \in ps
          BY <2>1, <2>2, <4>1, AnsweredBy, LiteralStep
        <4>. QED
          BY <4>1, <4>2, MarkedHere
      <3>. QED
        BY <1>2, <1>3, <2>1, <2>2, <3>1, OperatorsApart DEF MarkMeans, NameAt
    <2>3. CASE Here.type = "identifier"
      <3>1. Identifier
        BY <2>3, AnsweredBy
      <3>2. /\ Found(table, Here.name) /\ Mark({Top.node}, SymbolOf(table, Here.name).type)
            /\ UNCHANGED <<table, mishaps>>
        BY <1>1, <3>1, IdentifierStep
      <3>3. typed'[p] = SymbolOf(table, Here.name).type
        <4>1. PICK ps, its : ps = {Top.node} /\ its = SymbolOf(table, Here.name).type
          OBVIOUS
        <4>2. Mark(ps, its) /\ p \in ps
          BY <2>1, <3>2, <4>1
        <4>. QED
          BY <4>1, <4>2, MarkedHere
      <3>4. TypeFound(NameAt(p), typed[p])'
        BY <1>2, <1>3, <2>1, <3>2, <3>3 DEF TypeFound, NameAt
      <3>. QED
        BY <1>2, <1>3, <2>1, <2>3, <3>4, OperatorsApart DEF MarkMeans
    <2>4. CASE Here.type \notin {"literal", "identifier"}
      <3>1. Here.type \notin Operators
        BY AnsweredBy, OperatorStep
      <3>2. Here.type # "call"
        BY AnsweredBy, CallStep, ArgumentStep
      <3>. QED
        BY <1>2, <1>3, <1>4, <2>1, <2>4, <3>1, <3>2 DEF MarkMeans
    <2>. QED
      BY <2>2, <2>3, <2>4
  <1>5. ASSUME TypeAssignment, NEW its \in Types, NEW read \in Types, NameAdded(its, read)
        PROVE  MarkMeans(p)'
    <2>1. /\ TableAdds(DeclaringName, its, FALSE, Unwritten) /\ read = its
          /\ Mark({Top.node, Child(Top.node, 1)}, its)
      BY <1>1, <1>5 DEF NameAdded
    <2>2. p \in {Top.node, Child(Top.node, 1)} /\ typed'[p] = its
      <3>1. PICK ps : ps = {Top.node, Child(Top.node, 1)}
        OBVIOUS
      <3>2. Mark(ps, its)
        BY <2>1, <3>1
      <3>3. p \in ps /\ typed'[p] = its
        BY <3>2, MarkedHere
      <3>. QED
        BY <3>1, <3>3
    <2>3. Here.type = "typed"
      BY <1>5, TypeAssignmentStep
    <2>4. /\ DeclaredName(Top.node) = DeclaringName
          /\ NodeAt(Child(Top.node, 1)).type = "identifier"
      BY <1>1, <1>2, <2>3, OldDeclaration, TypedChildren
    <2>5. PICK name : name = DeclaringName
      OBVIOUS
    <2>6. Found(table', name) /\ SymbolOf(table', name).type = its
      BY <2>1, <2>5, SymbolAdded
    <2>7. NameAt(Child(Top.node, 1)) = name
      BY <2>4, <2>5 DEF DeclaredName
    <2>. QED
      BY <1>2, <1>3, <2>2, <2>3, <2>4, <2>5, <2>6, <2>7, OperatorsApart DEF MarkMeans, TypeFound
  <1>6. ASSUME DeclareDeduced, NameDeclared(Results[1])
        PROVE  MarkMeans(p)'
    <2>1. PICK type : type = Results[1]
      OBVIOUS
    <2>2. PICK constant, node : TableAdds(NewName, type, constant, node)
      BY <1>6, <2>1 DEF NameDeclared
    <2>3. Mark({Child(Top.node, 1), Child(Child(Top.node, 1), 1), Top.node}, type)
      BY <1>6, <2>1 DEF NameDeclared
    <2>4. /\ p \in {Child(Top.node, 1), Child(Child(Top.node, 1), 1), Top.node}
          /\ typed'[p] = type
      <3>1. PICK ps : ps = {Child(Top.node, 1), Child(Child(Top.node, 1), 1), Top.node}
        OBVIOUS
      <3>2. Mark(ps, type)
        BY <2>3, <3>1
      <3>3. p \in ps /\ typed'[p] = type
        BY <3>2, MarkedHere
      <3>. QED
        BY <3>1, <3>3
    <2>5. PICK name : name = NewName
      OBVIOUS
    <2>6. Found(table', name) /\ SymbolOf(table', name).type = type
      BY <2>2, <2>5, SymbolAdded
    <2>7. Here.type \in {"assign", "constant"} /\ Kind(Here, 1) = "typed"
      BY <1>6, DeclareDeducedStep
    <2>8. /\ DeclaredName(Child(Top.node, 1)) = name
          /\ NodeAt(Child(Top.node, 1)).type = "typed"
          /\ NodeAt(Child(Child(Top.node, 1), 1)).type = "identifier"
      BY <1>1, <2>5, <2>7, NewDeclaration
    <2>9. NameAt(Child(Child(Top.node, 1), 1)) = name
      BY <2>8 DEF DeclaredName
    <2>. QED
      BY <1>2, <1>3, <2>4, <2>6, <2>7, <2>8, <2>9, OperatorsApart DEF MarkMeans, TypeFound
  <1>. QED
    BY <1>1, <1>4, <1>5, <1>6, DataSteps

\* Every step keeps the marks right.
LEMMA MarksKept ==
    ASSUME MachineOK, WayOK, Step, Sane', MarksMean
    PROVE  MarksMean'
  <1>1. SUFFICES ASSUME NEW p \in DOMAIN typed' PROVE MarkMeans(p)'
    BY DEF MarksMean
  <1>2. CASE p \in DOMAIN typed /\ typed'[p] = typed[p]
    BY <1>2, OldMark DEF MarksMean
  <1>3. CASE p \notin DOMAIN typed \/ typed'[p] # typed[p]
    <2>1. ~(UNCHANGED typed) /\ Answers
      BY <1>3, StepKinds, ChildFailedStep DEF PushesOnly
    <2>. QED
      BY <1>3, <2>1, NewMark
  <1>. QED
    BY <1>2, <1>3

-----------------------------------------------------------------------------
\* Calls agree with what they call.

\* The function a call calls was done before, and so was its return type.
LEMMA CalleeDone ==
    ASSUME MachineOK, Sane, MarksMean, DeclarationsPast, NEW c \in Paths, NodeAt(c).type = "call",
           NEW d \in Callees(c), PointsTo(c, d)
    PROVE  /\ Done(Child(d, 2))
           /\ TypeFound(ReturnName(d), CallType(Child(d, 2)))
  <1>1. PathsOK /\ TableOK
    BY PathsHold DEF MachineOK
  <1>2. /\ d \in Paths /\ d \in Numbers
        /\ Child(d, 2) \in Paths /\ NodeAt(Child(d, 2)).type = "function"
        /\ Child(Child(d, 2), 2) \in Paths
        /\ NodeAt(Child(Child(d, 2), 2)).type = "identifier"
    BY <1>1, CalleeFacts
  <1>3. Child(d, 2) # Unwritten
    BY <1>1, <1>2, UnwrittenAssumption DEF PathsOK, Numbers
  <1>4. /\ SymbolOf(table, NameAt(Child(c, 1))) \in Held(table)
        /\ SymbolOf(table, NameAt(Child(c, 1))).decl = Child(d, 2)
    BY <1>1, FoundSymbol DEF PointsTo
  <1>5. Done(Child(d, 2))
    BY <1>3, <1>4 DEF DeclarationsPast
  <1>6. Child(Child(d, 2), 2) \in DOMAIN typed
    BY <1>2, <1>5 DEF Sane
  <1>7. TypeFound(ReturnName(d), typed[Child(Child(d, 2), 2)])
    BY <1>2, <1>6 DEF MarksMean, MarkMeans, ReturnName
  <1>8. CallType(Child(d, 2)) = typed[Child(Child(d, 2), 2)]
    BY <1>6 DEF CallType, Typed, Child
  <1>. QED
    BY <1>5, <1>7, <1>8

\* A parameter of a function that is done has the type of its name.
LEMMA ParameterDone ==
    ASSUME MachineOK, MarksMean, AllDoneMean, NEW c, NEW d \in Callees(c), Done(Child(d, 2)),
           NEW i \in DOMAIN NodeAt(Child(Child(d, 2), 1)).children
    PROVE  /\ Typed(ParameterAt(d, i)) \in Types
           /\ TypeFound(DeclaredName(ParameterAt(d, i)), Typed(ParameterAt(d, i)))
           /\ ParameterAt(d, i) = Child(d, 2) \o <<1, i>>
  <1>1. PathsOK /\ TypedOK
    BY PathsHold DEF MachineOK
  <1>2. /\ d \in Paths /\ d \in Numbers /\ Visible(d) /\ NodeAt(d).type \in {"assign", "constant"}
        /\ Child(d, 2) \in Paths /\ NodeAt(Child(d, 2)).type = "function"
    BY <1>1, CalleeFacts
  <1>3. PICK f : f = Child(d, 2)
    OBVIOUS
  <1>4. /\ f \in Numbers
        /\ Child(f, 1) \in Paths /\ Child(f, 1) \in Numbers /\ NodeAt(Child(f, 1)).type = "parameters"
        /\ i \in Nat /\ i \in DOMAIN NodeAt(Child(f, 1)).children
        /\ Child(Child(f, 1), i) \in Paths /\ NodeAt(Child(Child(f, 1), i)).type = "typed"
        /\ Kind(NodeAt(Child(Child(f, 1), i)), 2) = "identifier"
    BY <1>1, <1>2, <1>3, ParameterFacts DEF PathsOK
  <1>5. Visible(Child(Child(f, 1), i))
    <2>1. 2 \in DOMAIN NodeAt(d).children /\ 1 \in DOMAIN NodeAt(f).children
      BY <1>1, <1>2, <1>3, PairChildren, FunctionChildren
    <2>2. Visible(f)
      BY <1>1, <1>2, <1>3, <2>1, VisibleChild
    <2>3. Visible(Child(f, 1))
      BY <1>1, <1>2, <1>3, <2>1, <2>2, VisibleChild
    <2>. QED
      BY <1>1, <1>4, <2>3, VisibleChild
  <1>6. Done(Child(Child(f, 1), i))
    <2>1. PICK e \in Paths : Known(e) /\ Within(f, e)
      BY <1>3 DEF Done
    <2>2. e \in Numbers /\ 1 \in Nat
      BY <1>1, <2>1 DEF PathsOK
    <2>3. Within(Child(f, 1), e)
      BY <1>4, <2>1, <2>2, WithinChild
    <2>4. Within(Child(Child(f, 1), i), e)
      BY <1>4, <2>2, <2>3, WithinChild
    <2>. QED
      BY <2>1, <2>4 DEF Done
  <1>7. Child(Child(f, 1), i) \in DOMAIN typed
    BY <1>4, <1>5, <1>6 DEF AllDoneMean, DoneMeans
  <1>8. TypeFound(DeclaredName(Child(Child(f, 1), i)), typed[Child(Child(f, 1), i)])
    BY <1>4, <1>7 DEF MarksMean, MarkMeans
  <1>9. Child(Child(f, 1), i) = f \o <<1, i>>
    BY <1>4, TwoSteps
  <1>. QED
    BY <1>1, <1>3, <1>7, <1>8, <1>9, TypedInTypes DEF ParameterAt, Typed

\* An argument with the type of the parameter fits.
LEMMA ArgumentFits ==
    ASSUME MachineOK, MarksMean, AllDoneMean, NEW c \in Paths, NodeAt(c).type = "call",
           NEW d \in Callees(c), Done(Child(d, 2)),
           NEW i \in DOMAIN NodeAt(Child(c, 2)).children,
           i \in DOMAIN NodeAt(Child(Child(d, 2), 1)).children,
           Typed(Child(d, 2) \o <<1, i>>) = Typed(Child(Child(c, 2), i))
    PROVE  Fits(c, d, i)
  <1>1. PathsOK
    BY PathsHold DEF MachineOK
  <1>2. PICK type \in Types : type = Typed(Child(d, 2) \o <<1, i>>)
    BY ParameterDone
  <1>3. TypeFound(DeclaredName(ParameterAt(d, i)), type)
    BY <1>2, ParameterDone
  <1>4. PICK p : p = Child(Child(c, 2), i)
    OBVIOUS
  <1>5. p \in Paths /\ NodeAt(p).type \in Expressions(Operators)
    BY <1>1, <1>4, CallArguments
  <1>6. CASE p \notin DOMAIN typed
    BY <1>2, <1>3, <1>4, <1>6 DEF Fits, Typed
  <1>7. CASE p \in DOMAIN typed
    <2>1. MarkMeans(p) /\ type = typed[p]
      BY <1>2, <1>4, <1>7 DEF MarksMean, Typed
    <2>2. NodeAt(p).type \in {"identifier", "literal"} /\ NodeAt(p).type \notin Operators
      BY <1>5, <2>1 DEF MarkMeans, Expressions
    <2>3. Operands(p) = {p}
      BY <1>1, <1>5, <2>2, OperandsAlone
    <2>4. Means(p, type)
      BY <2>1, <2>2 DEF MarkMeans, Means
    <2>. QED
      BY <1>3, <1>4, <2>3, <2>4 DEF Fits, AllMean
  <1>. QED
    BY <1>6, <1>7

\* The name of a call was resolved before the step that is made at it.
LEMMA CallReached ==
    ASSUME MachineOK, Call \/ Argument
    PROVE  Running /\ Here.type = "call" /\ Len(Results) >= 1
  <1>1. CASE Call
    BY <1>1, CallStep
  <1>2. CASE Argument
    <2>1. Running /\ Here.type = "call" /\ Len(Results) - 1 \in 1 .. Len(Arguments)
      BY <1>2, ArgumentStep
    <2>. QED
      BY <2>1, CallFacts
  <1>. QED
    BY <1>1, <1>2

\* What holds of the arguments of a call after the step that is made at it.
LEMMA CallFits ==
    ASSUME MachineOK, WayOK, Origin, Sane, MarksMean, AllDoneMean, FramesAgree, DeclarationsPast,
           Here.type = "call", (Call /\ CallMatches) \/ Argument,
           returned'.outcome # "failure"
    PROVE  /\ Top.node \in Paths /\ NodeAt(Top.node) = Here
           /\ Len(Results) \in Nat /\ Len(Results) >= 1
           /\ \E d \in Callees(Top.node) :
                 /\ PointsTo(Top.node, d)
                 /\ Callee.decl = Child(d, 2)
                 /\ FitSoFar(Top.node, d, Len(Results) - 1)
  <1>1. /\ Running /\ PathsOK /\ StackOK /\ stack # <<>> /\ TableOK
    BY PathsHold DEF Call, Argument, At, Running, MachineOK
  <1>2. /\ Top.node \in Paths /\ NodeAt(Top.node) = Here
        /\ Len(stack) \in Nat /\ Len(stack) > 0 /\ Top = stack[Len(stack)]
        /\ Len(Top.got) \in Nat /\ Len(Results) \in Nat
        /\ Len(Results) = 0 \/ Len(Results) = Len(Top.got) + 1
    <2>1. Top.node \in Paths /\ NodeAt(Top.node) = Here
      BY <1>1, TopChildren
    <2>2. /\ Len(stack) \in Nat /\ Len(stack) > 0 /\ Top = stack[Len(stack)]
          /\ Len(Top.got) \in Nat
          /\ Results \in Seq(Types)
          /\ Len(Results) = Len(Top.got) + IF returned.outcome = "success" THEN 1 ELSE 0
          /\ returned.outcome # "success" => Results = <<>>
      BY <1>1, TopFacts
    <2>4. Results \in Seq(Types)
      BY <2>2
    <2>3. Len(Results) \in Nat
      BY <2>4
    <2>. QED
      BY <2>1, <2>2, <2>3
  <1>3. PICK c : c = Top.node
    OBVIOUS
  <1>4. /\ NodeAt(c).type = "call" /\ c \in Paths
        /\ Arguments = NodeAt(Child(c, 2)).children /\ Len(Arguments) \in Nat
        /\ DOMAIN Arguments = 1 .. Len(Arguments)
    BY <1>1, <1>2, <1>3, CallArguments DEF Arguments
  <1>0. Len(Results) >= 1 /\ Written
    <2>1. Len(Results) >= 1
      BY CallReached
    <2>. QED
      BY <1>1, <2>1, CalleeWritten DEF Sane
  <1>5. CASE Call /\ CallMatches
    <2>1. Len(Results) = 1 /\ Callee.type = "function"
      BY <1>5, CallStep DEF CallMatches
    <2>2. PICK d \in Callees(c) : Callee.decl = Child(d, 2)
      BY <1>1, <1>2, <1>3, <2>1, CalleeDeclared DEF Sane
    <2>3. PointsTo(c, d)
      BY <1>1, <1>2, <1>3, <2>1, <2>2, CalleeFound DEF PointsTo
    <2>4. /\ Child(d, 2) \in Paths /\ NodeAt(Child(d, 2)).type = "function"
      BY <1>1, <2>2, CalleeFacts
    <2>5. /\ NodeAt(Child(Child(d, 2), 1)) = NodeAt(Child(d, 2)).children[1]
          /\ NodeAt(Child(Child(d, 2), 1)).type = "parameters"
      BY <1>1, <2>4, FunctionChildren
    <2>6. Len(NodeAt(Child(Child(d, 2), 1)).children) = Len(Arguments)
      BY <1>5, <2>2, <2>5 DEF CallMatches, Parameters
    <2>7. 1 .. Len(Results) - 1 = {}
      BY <2>1
    <2>8. FitSoFar(c, d, Len(Results) - 1)
      BY <1>4, <2>6, <2>7 DEF FitSoFar
    <2>. QED
      BY <1>2, <1>3, <2>1, <2>2, <2>3, <2>8
  <1>6. CASE Argument
    <2>1. PICK i : i = Len(Results) - 1
      OBVIOUS
    <2>2. /\ i \in 1 .. Len(Arguments)
          /\ Typed(Callee.decl \o <<1, i>>) = Typed(Child(Child(c, 2), i))
      BY <1>0, <1>3, <1>6, <2>1, ArgumentStep
    <2>3. i = Len(Top.got) /\ Len(Top.got) >= 1
      BY <1>2, <2>1, <2>2
    <2>4. PICK k : k = Len(stack)
      OBVIOUS
    <2>5. k \in 1 .. Len(stack) /\ stack[k].node = c /\ stack[k].got = Top.got
      BY <1>2, <1>3, <2>4
    <2>6. PICK d \in Callees(c) : PointsTo(c, d) /\ FitSoFar(c, d, i - 1)
      BY <1>4, <2>3, <2>5 DEF FramesAgree, FrameAgrees
    <2>7. Callee.decl = Child(d, 2)
      <3>1. Len(Results) >= 1
        BY <1>2, <1>4, <2>1, <2>2
      <3>2. Callee = SymbolOf(table, NameAt(Child(c, 1)))
        BY <1>1, <1>3, <3>1, CalleeFound
      <3>. QED
        BY <2>6, <3>2 DEF PointsTo
    <2>8. Done(Child(d, 2))
      BY <1>4, <2>6, CalleeDone
    <2>9. DOMAIN NodeAt(Child(Child(d, 2), 1)).children = 1 .. Len(Arguments)
      <3>1. Child(d, 2) \in Paths /\ NodeAt(Child(d, 2)).type = "function"
        BY <1>1, CalleeFacts
      <3>2. Len(NodeAt(Child(Child(d, 2), 1)).children) = Len(Arguments)
        BY <1>4, <2>6 DEF FitSoFar
      <3>. QED
        BY <1>1, <3>1, <3>2, ParameterFacts
    <2>10. Fits(c, d, i)
      BY <1>4, <2>2, <2>7, <2>8, <2>9, ArgumentFits
    <2>11. FitSoFar(c, d, i)
      <3>1. \A j \in 1 .. i : j \in 1 .. i - 1 \/ j = i
        BY <2>2
      <3>. QED
        BY <2>6, <2>10, <3>1 DEF FitSoFar
    <2>. QED
      BY <1>2, <1>3, <2>1, <2>2, <2>6, <2>7, <2>11
  <1>. QED
    BY <1>5, <1>6

-----------------------------------------------------------------------------
\* What a node is resolved with.

\* The operands of an operator, in the order they are resolved in.
LEMMA OperatorChildren ==
    ASSUME PathsOK, NEW p \in Paths, NodeAt(p).type \in Operators
    PROVE  /\ p \in Numbers /\ Steps(NodeAt(p)) = 2
           /\ DOMAIN NodeAt(p).children = 1 .. 2
           /\ Child(p, 1) \in Paths /\ Child(p, 2) \in Paths
           /\ NodeAt(Child(p, 1)).type \in Expressions(Operators)
           /\ NodeAt(Child(p, 2)).type \in Expressions(Operators)
           /\ StepPath(p, 1) = Child(p, 1) /\ StepPath(p, 2) = Child(p, 2)
  <1>1. p \in Numbers /\ HasShape(NodeAt(p), Operators)
    BY DEF PathsOK
  <1>2. /\ DOMAIN NodeAt(p).children = 1 .. 2
        /\ Kind(NodeAt(p), 1) \in Expressions(Operators)
        /\ Kind(NodeAt(p), 2) \in Expressions(Operators)
    BY <1>1, ChildKinds
  <1>3. 1 \in DOMAIN NodeAt(p).children /\ 2 \in DOMAIN NodeAt(p).children
    BY <1>2
  <1>4. /\ Child(p, 1) \in Paths /\ Child(p, 2) \in Paths
        /\ NodeAt(Child(p, 1)).type \in Expressions(Operators)
        /\ NodeAt(Child(p, 2)).type \in Expressions(Operators)
    BY <1>2, <1>3, ChildOf
  <1>5. Order(NodeAt(p)) = <<1, 2>>
    BY DEF Order
  <1>6. Len(Order(NodeAt(p))) = 2 /\ Order(NodeAt(p))[1] = 1 /\ Order(NodeAt(p))[2] = 2
    BY <1>5
  <1>7. Steps(NodeAt(p)) = 2
    BY <1>6, OperatorsApart DEF Steps
  <1>8. StepPath(p, 1) = Child(p, 1) /\ StepPath(p, 2) = Child(p, 2)
    BY <1>6 DEF StepPath
  <1>. QED
    BY <1>1, <1>2, <1>4, <1>7, <1>8

\* The type an expression is resolved with is that of all its operands.
LEMMA AnswerMeans ==
    ASSUME MachineOK, WayOK, Origin, Step, Sane, MarksMean, ResultsMean, AllDoneMean, FramesAgree,
           DeclarationsPast, Answers, returned'.outcome = "success", Here.type \in Values,
           NEW n, n = Top.node, NEW type, type = returned'.type
    PROVE  n \in Paths /\ AllMean(n, type)
  <1>1. /\ PathsOK /\ StackOK /\ stack # <<>> /\ Running
        /\ Len(Results) = Steps(Here)
    BY PathsHold, RunsHere DEF MachineOK, Answers
  <1>2. n \in Paths /\ NodeAt(n) = Here
    BY <1>1, TopChildren
  <1>3. ASSUME Here.type \notin Operators, Means(n, type)
        PROVE  AllMean(n, type)
    <2>1. Operands(n) = {n}
      BY <1>1, <1>2, <1>3, OperandsAlone
    <2>. QED
      BY <1>3, <2>1 DEF AllMean
  <1>4. CASE Here.type = "literal"
    <2>1. returned' = Success(Here.name)
      BY <1>4, AnsweredBy, LiteralStep
    <2>2. type = NameAt(n)
      BY <1>2, <2>1 DEF Success, NameAt
    <2>. QED
      BY <1>2, <1>3, <1>4, <2>2, OperatorsApart DEF Means
  <1>5. CASE Here.type = "identifier"
    <2>1. /\ Found(table, Here.name)
          /\ returned' = Success(SymbolOf(table, Here.name).type)
      BY <1>5, AnsweredBy, IdentifierStep
    <2>2. TypeFound(NameAt(n), type)
      BY <1>2, <2>1 DEF Success, NameAt, TypeFound
    <2>. QED
      BY <1>2, <1>3, <1>5, <2>2, OperatorsApart DEF Means
  <1>6. CASE Here.type = "function"
    <2>1. returned' = Success("function")
      BY <1>6, AnsweredBy, FunctionStep
    <2>2. type = "function"
      BY <2>1 DEF Success
    <2>. QED
      BY <1>2, <1>3, <1>6, <2>2, OperatorsApart DEF Means
  <1>7. CASE Here.type \in Operators
    <2>1. returned' = Success(Results[1]) /\ Results[1] = Results[2]
      BY <1>7, AnsweredBy, OperatorStep
    <2>2. type = Results[1] /\ type = Results[2]
      BY <2>1 DEF Success
    <2>3. /\ Steps(NodeAt(n)) = 2
          /\ Child(n, 1) \in Paths /\ Child(n, 2) \in Paths
          /\ NodeAt(Child(n, 1)).type \in Values /\ NodeAt(Child(n, 2)).type \in Values
          /\ StepPath(n, 1) = Child(n, 1) /\ StepPath(n, 2) = Child(n, 2)
      BY <1>1, <1>2, <1>7, OperatorChildren DEF Values
    <2>4. 1 \in 1 .. Len(Results) /\ 2 \in 1 .. Len(Results)
      BY <1>1, <1>2, <2>3
    <2>5. Resolved(Child(n, 1), type) /\ Resolved(Child(n, 2), type)
      BY <1>1, <2>2, <2>3, <2>4, ResultsResolved
    <2>6. type \in Types
      BY <2>5, ResolvedNodes
    <2>7. AllMean(Child(n, 1), type) /\ AllMean(Child(n, 2), type)
      BY <2>3, <2>5, <2>6 DEF ResultsMean, ResultMeans
    <2>. QED
      BY <1>1, <1>2, <1>7, <2>7, BothMean
  <1>8. CASE Here.type = "call"
    <2>1. Call \/ Argument
      BY <1>8, AnsweredBy
    <2>2. /\ (Call /\ CallMatches) \/ Argument
          /\ returned' = Success(CallType(Callee.decl))
      <3>1. ~PushesOnly
        <4>1. PushesOnly => returned' = Pending
          BY DEF PushesOnly, Pushes
        <4>. QED
          BY <4>1 DEF Pending
      <3>4. Written
        BY <1>1, <1>8, <2>1, CallReached, CalleeWritten DEF Sane
      <3>2. Call => CallMatches /\ returned' = Success(CallType(Callee.decl))
        BY <3>1, <3>4, CallStep
      <3>3. Argument => returned' = Success(CallType(Callee.decl))
        BY <3>1, <3>4, ArgumentStep
      <3>. QED
        BY <2>1, <3>2, <3>3
    <2>3. PICK d \in Callees(n) : PointsTo(n, d) /\ Callee.decl = Child(d, 2)
      BY <1>8, <2>2, CallFits
    <2>4. TypeFound(ReturnName(d), CallType(Child(d, 2)))
      BY <1>2, <1>8, <2>3, CalleeDone
    <2>5. type = CallType(Child(d, 2))
      BY <2>2, <2>3 DEF Success
    <2>6. Means(n, type)
      BY <1>2, <1>8, <2>3, <2>4, <2>5 DEF Means
    <2>. QED
      BY <1>2, <1>3, <1>8, <2>6, OperatorsApart
  <1>. QED
    BY <1>2, <1>4, <1>5, <1>6, <1>7, <1>8 DEF Values, Expressions

\* The type a declaration that names one is resolved with is that of its name.
LEMMA AnswerNames ==
    ASSUME MachineOK, WayOK, Step, Sane', Answers, returned'.outcome = "success",
           Here.type = "typed", Kind(Here, 2) # "null",
           NEW n, n = Top.node, NEW type, type = returned'.type
    PROVE  /\ n \in Paths /\ NodeAt(n) = Here
           /\ n \in DOMAIN typed'
           /\ TypeFound(DeclaredName(n), type)'
  <1>1. /\ PathsOK /\ StackOK /\ stack # <<>> /\ Running /\ UNCHANGED program
        /\ mishaps' = {}
    BY PathsHold, RunsHere DEF MachineOK, Answers, Pops, Sane
  <1>2. n \in Paths /\ NodeAt(n) = Here
    BY <1>1, TopChildren
  <1>3. PICK its \in Types, read \in Types : NameAdded(its, read)
    BY AnsweredBy, TypeAssignmentStep
  <1>4. /\ TableAdds(DeclaringName, its, FALSE, Unwritten) /\ read = its
        /\ returned' = Success(its)
        /\ Mark({n, Child(n, 1)}, its)
    BY <1>1, <1>3 DEF NameAdded
  <1>5. type = its
    BY <1>4 DEF Success
  <1>6. PICK name : name = DeclaringName
    OBVIOUS
  <1>7. Found(table', name) /\ SymbolOf(table', name).type = type
    <2>1. PICK constant, node : constant = FALSE /\ node = Unwritten
      OBVIOUS
    <2>2. TableAdds(name, type, constant, node)
      BY <1>4, <1>5, <1>6, <2>1
    <2>. QED
      BY <2>2, SymbolAdded
  <1>8. DeclaredName(n) = name
    BY <1>1, <1>6, OldDeclaration
  <1>9. DeclaredName(n)' = name
    BY <1>1, <1>8, PathsSame DEF DeclaredName, NameAt, Child
  <1>10. n \in DOMAIN typed'
    <2>1. PICK ps : ps = {n, Child(n, 1)}
      OBVIOUS
    <2>2. Mark(ps, its)
      BY <1>4, <2>1
    <2>. QED
      BY <2>1, <2>2 DEF Mark
  <1>. QED
    BY <1>2, <1>7, <1>9, <1>10 DEF TypeFound

\* The results that the frames keep are right.
LEMMA ResultKept ==
    ASSUME MachineOK, Step, NEW p \in Paths, NEW type, ResultMeans(p, type)
    PROVE  ResultMeans(p, type)'
  <1>1. PathsOK /\ PathsKept /\ ProgramOK
    BY StepProgram DEF MachineOK
  <1>2. NodeAt(p)'.type = NodeAt(p).type
    BY <1>1 DEF PathsKept
  <1>3. CASE NodeAt(p).type \in Values
    <2>1. NodeAt(p).type # "scope"
      BY <1>3, OperatorsApart DEF Values, Expressions
    <2>2. p # <<>>
      BY <1>1, <2>1, ProgramShape DEF NodeAt
    <2>3. AllMean(p, type)'
      BY <1>3, <2>2, AllMeanKept DEF ResultMeans
    <2>4. NodeAt(p)'.type # "typed"
      BY <1>2, <1>3, OperatorsApart DEF Values, Expressions
    <2>. QED
      BY <2>3, <2>4 DEF ResultMeans
  <1>4. CASE NodeAt(p).type = "typed" /\ Kind(NodeAt(p), 2) # "null"
    <2>1. PICK name : name = DeclaredName(p)
      OBVIOUS
    <2>2. TypeFound(name, type)'
      BY <1>4, <2>1, TypeKept DEF ResultMeans
    <2>3. DeclaredName(p)' = name
      BY <1>4, <2>1, DeclarationKept
    <2>4. TypeFound(DeclaredName(p), type)'
      BY <2>2, <2>3 DEF TypeFound
    <2>5. NodeAt(p)'.type \notin Values
      BY <1>2, <1>4, OperatorsApart DEF Values, Expressions
    <2>. QED
      BY <2>4, <2>5 DEF ResultMeans, Values, Expressions
  <1>5. CASE NodeAt(p).type \notin Values \cup {"typed"}
    BY <1>2, <1>5 DEF ResultMeans, Values, Expressions
  <1>6. CASE NodeAt(p).type = "typed" /\ Kind(NodeAt(p), 2) = "null"
    <2>1. NodeAt(p)' = NodeAt(p)
      BY <1>6, DeclarationKept
    <2>2. NodeAt(p)'.type \notin Values
      BY <1>2, <1>6, OperatorsApart DEF Values, Expressions
    <2>. QED
      BY <1>6, <2>1, <2>2 DEF ResultMeans, Values, Expressions, Kind
  <1>. QED
    BY <1>3, <1>4, <1>5, <1>6

\* The result of the node that is left is right.
LEMMA NewResult ==
    ASSUME MachineOK, WayOK, Origin, Step, Sane, MarksMean, ResultsMean, AllDoneMean, FramesAgree,
           DeclarationsPast, Sane', Answers, returned'.outcome = "success",
           NEW n, n = Top.node, NEW type, type = returned'.type
    PROVE  ResultMeans(n, type)'
  <1>1. /\ PathsOK /\ StackOK /\ stack # <<>> /\ UNCHANGED program /\ ProgramOK
    BY PathsHold, RunsHere DEF MachineOK, Answers, Pops
  <1>2. n \in Paths /\ NodeAt(n) = Here
    BY <1>1, TopChildren
  <1>3. NodeAt(n)' = NodeAt(n)
    BY <1>1, PathsSame
  <1>4. CASE Here.type \in Values
    <2>1. NodeAt(n).type # "scope"
      BY <1>2, <1>4, OperatorsApart DEF Values, Expressions
    <2>2. n # <<>>
      BY <1>1, <2>1, ProgramShape DEF NodeAt
    <2>3. AllMean(n, type)
      BY <1>4, AnswerMeans
    <2>4. AllMean(n, type)'
      BY <1>2, <2>2, <2>3, AllMeanKept
    <2>5. NodeAt(n)'.type # "typed"
      BY <1>2, <1>3, <1>4, OperatorsApart DEF Values, Expressions
    <2>. QED
      BY <2>4, <2>5 DEF ResultMeans
  <1>5. CASE Here.type = "typed" /\ Kind(Here, 2) # "null"
    <2>1. TypeFound(DeclaredName(n), type)'
      BY <1>5, AnswerNames
    <2>2. NodeAt(n)'.type \notin Values
      BY <1>2, <1>3, <1>5, OperatorsApart DEF Values, Expressions
    <2>. QED
      BY <2>1, <2>2 DEF ResultMeans, Values, Expressions
  <1>6. CASE Here.type \notin Values /\ ~(Here.type = "typed" /\ Kind(Here, 2) # "null")
    BY <1>2, <1>3, <1>6 DEF ResultMeans, Values, Expressions, Kind
  <1>. QED
    BY <1>4, <1>5, <1>6

\* Every step keeps the results right.
LEMMA ResultsKept ==
    ASSUME MachineOK, WayOK, Origin, Step, Sane, MarksMean, ResultsMean, AllDoneMean, FramesAgree,
           DeclarationsPast, Sane'
    PROVE  ResultsMean'
  <1>1. SUFFICES ASSUME NEW p \in Paths', NEW type \in Types, Resolved(p, type)'
                 PROVE  ResultMeans(p, type)'
    BY DEF ResultsMean, Types
  <1>2. CASE Resolved(p, type)
    <2>1. p \in Paths
      BY <1>2, ResolvedNodes
    <2>2. ResultMeans(p, type)
      BY <1>2, <2>1 DEF ResultsMean
    <2>. QED
      BY <2>1, <2>2, ResultKept
  <1>3. CASE ~Resolved(p, type)
    <2>1. ~PushesOnly
      BY <1>1, <1>3, PushesResolve DEF PushesOnly
    <2>2. ~ChildFailed
      BY ChildFailedStep DEF Sane
    <2>3. Answers
      BY <2>1, <2>2, StepKinds
    <2>4. p = Top.node /\ type = returned'.type /\ returned'.outcome = "success"
      BY <1>1, <1>3, <2>3, PopsResolve DEF Answers
    <2>. QED
      BY <2>3, <2>4, NewResult
  <1>. QED
    BY <1>2, <1>3

-----------------------------------------------------------------------------
\* The functions that symbols point to are done.
LEMMA PointersKept ==
    ASSUME MachineOK, WayOK, Step, Sane, DeclarationsPast, Sane'
    PROVE  DeclarationsPast'
  <1>1. /\ PathsOK /\ StackOK /\ stack # <<>> /\ TableOK
    BY PathsHold, RunsHere DEF MachineOK
  <1>2. SUFFICES ASSUME NEW s \in Held(table'), s.decl # Unwritten PROVE Done(s.decl)'
    BY DEF DeclarationsPast
  <1>3. CASE s \in Held(table)
    <2>1. Done(s.decl) /\ s.decl \in Paths
      BY <1>1, <1>2, <1>3 DEF DeclarationsPast, TableOK
    <2>2. /\ returned.outcome \in {"none", "success"} /\ returned'.outcome \in {"none", "success"}
      BY DEF Sane
    <2>3. PICK p \in Paths : p = s.decl
      BY <2>1
    <2>4. Done(p)'
      BY <2>1, <2>2, <2>3, DoneKept
    <2>. QED
      BY <2>3, <2>4
  <1>4. CASE s \notin Held(table)
    <2>1. \/ TypeAssignment /\ \E its \in Types : TableAdds(DeclaringName, its, FALSE, Unwritten)
          \/ Answers /\ DeclareDeduced /\ NameDeclared(Results[1])
      <3>1. table' # table /\ ~TableHolds
        BY <1>4 DEF TableHolds
      <3>. QED
        BY <3>1, DataSteps
    <2>2. CASE TypeAssignment /\ \E its \in Types : TableAdds(DeclaringName, its, FALSE, Unwritten)
      BY <1>2, <1>4, <2>2 DEF TableAdds
    <2>3. CASE Answers /\ DeclareDeduced /\ NameDeclared(Results[1])
      <3>1. PICK name, type, constant, node :
               /\ node = (IF type = "function" THEN Child(Top.node, 2) ELSE Unwritten)
               /\ TableAdds(name, type, constant, node)
               /\ returned' = Success(type)
        BY <2>3 DEF NameDeclared
      <3>2. s.decl = node
        BY <1>2, <1>4, <3>1 DEF TableAdds
      <3>3. s.decl = Child(Top.node, 2)
        BY <1>2, <3>1, <3>2
      <3>4. PICK p : p = Child(Top.node, 2)
        OBVIOUS
      <3>5. returned'.outcome = "success"
        BY <3>1 DEF Success
      <3>6. Here.type \in {"assign", "constant"}
        BY <2>3, DeclareDeducedStep
      <3>7. /\ Top.node \in Paths /\ Top.node \in Numbers
            /\ NodeAt(Top.node) = Here
        BY <1>1, TopChildren
      <3>8. p \in Paths
        BY <1>1, <3>4, <3>6, <3>7, PairChildren
      <3>9. Within(p, Top.node)
        BY <3>4, <3>7, WithinItself, WithinChild
      <3>10. Done(p)'
        BY <2>3, <3>5, <3>8, <3>9, AnswerDone
      <3>. QED
        BY <3>3, <3>4, <3>10
    <2>. QED
      BY <2>1, <2>2, <2>3
  <1>. QED
    BY <1>3, <1>4

-----------------------------------------------------------------------------
\* The calls on the stack agree with what they call.
LEMMA CallAgrees ==
    ASSUME MachineOK, Step, NEW c \in Paths, NodeAt(c).type = "call", NEW n \in Nat,
           n <= Len(NodeAt(Child(c, 2)).children),
           NEW d \in Callees(c), PointsTo(c, d), FitSoFar(c, d, n)
    PROVE  d \in Callees(c)' /\ PointsTo(c, d)' /\ FitSoFar(c, d, n)'
  <1>1. FitSoFar(c, d, n)'
    BY FitKept
  <1>2. d \in Callees(c)'
    BY CalleeKept
  <1>3. PICK name : name = NameAt(Child(c, 1))
    OBVIOUS
  <1>4. NameAt(Child(c, 1))' = name
    BY <1>3, CallKept
  <1>5. Found(table, name) /\ SymbolOf(table, name).decl = Child(d, 2)
    BY <1>3 DEF PointsTo
  <1>6. Found(table', name) /\ SymbolOf(table', name).decl = Child(d, 2)
    BY <1>5, SymbolKept
  <1>. QED
    BY <1>1, <1>2, <1>4, <1>6 DEF PointsTo, Child

\* The number of arguments a frame has seen is at most that of the call.
LEMMA FrameBound ==
    ASSUME MachineOK, NEW k \in 1 .. Len(stack), NodeAt(stack[k].node).type = "call",
           Len(stack[k].got) >= 1
    PROVE  /\ Len(stack[k].got) - 1 \in Nat
           /\ Len(stack[k].got) - 1 <= Len(NodeAt(Child(stack[k].node, 2)).children)
  <1>1. PICK c : c = stack[k].node
    OBVIOUS
  <1>2. PathsOK /\ c \in Paths /\ NodeAt(c).type = "call" /\ Len(stack[k].got) \in Nat
    BY <1>1, PathsHold, ReachedSteps DEF MachineOK
  <1>3. Len(stack[k].got) <= Steps(NodeAt(c))
    BY <1>1 DEF MachineOK, StackOK
  <1>4. /\ NodeAt(Child(c, 2)) = NodeAt(c).children[2] /\ Order(NodeAt(c)) = <<1>>
        /\ Len(NodeAt(c).children[2].children) \in Nat
    BY <1>2, CallArguments
  <1>5. Len(Order(NodeAt(c))) = 1
    BY <1>4
  <1>6. Steps(NodeAt(c)) = 1 + Len(NodeAt(Child(c, 2)).children)
    BY <1>2, <1>4, <1>5 DEF Steps
  <1>. QED
    BY <1>1, <1>2, <1>3, <1>4, <1>6

\* A frame that a step leaves alone goes on agreeing.
LEMMA FrameKept ==
    ASSUME MachineOK, Step, NEW k \in 1 .. Len(stack), FrameAgrees(k), stack'[k] = stack[k]
    PROVE  FrameAgrees(k)'
  <1>1. PICK c, g : c = stack[k].node /\ g = stack[k].got
    OBVIOUS
  <1>2. c \in Paths /\ PathsKept
    BY <1>1, ReachedSteps, StepProgram
  <1>3. NodeAt(c)'.type = NodeAt(c).type
    BY <1>2 DEF PathsKept
  <1>4. SUFFICES ASSUME NodeAt(c).type = "call", Len(g) >= 1
                 PROVE  \E d \in Callees(c)' : PointsTo(c, d)' /\ FitSoFar(c, d, Len(g) - 1)'
    BY <1>1, <1>3 DEF FrameAgrees
  <1>5. PICK d \in Callees(c) : PointsTo(c, d) /\ FitSoFar(c, d, Len(g) - 1)
    BY <1>1, <1>4 DEF FrameAgrees
  <1>6. Len(g) - 1 \in Nat /\ Len(g) - 1 <= Len(NodeAt(Child(c, 2)).children)
    BY <1>1, <1>4, FrameBound
  <1>7. PICK n \in Nat : n = Len(g) - 1
    BY <1>6
  <1>8. d \in Callees(c)' /\ PointsTo(c, d)' /\ FitSoFar(c, d, n)'
    BY <1>2, <1>4, <1>5, <1>6, <1>7, CallAgrees
  <1>. QED
    BY <1>7, <1>8

\* Only an argument that was compared, or the count of them, leads on in a call.
LEMMA CallPushed ==
    ASSUME MachineOK, Step, PushesOnly, Here.type = "call", Len(Results) >= 1, Written
    PROVE  (Call /\ CallMatches) \/ Argument
  <1>1. Running /\ returned' = Pending
    BY DEF PushesOnly, Pushes
  <1>2. returned'.outcome = "none"
    BY <1>1 DEF Pending
  <1>3. Len(Order(Here)) = 1 /\ Len(Results) \in Nat
    BY <1>1, CallFacts
  <1>4. ~ResolveChild
    BY <1>3 DEF ResolveChild
  <1>5. ~ChildFailed
    BY <1>1 DEF ChildFailed, Running
  <1>6. Call \/ Argument
    BY <1>4, <1>5, OperatorsApart
       DEF Step, ResolveStatement, Literal, Operator, Identifier, TypeAssignment, AssignVariable,
           DeclareDeduced, DeclareTyped, Function, CallStatement, Untyped, At
  <1>7. Call => CallMatches
    <2>1. ~Answers
      BY <1>2 DEF Answers, Pops
    <2>. QED
      BY <2>1, CallStep
  <1>. QED
    BY <1>6, <1>7

\* Every step keeps the calls on the stack in agreement.
LEMMA FramesKept ==
    ASSUME MachineOK, WayOK, Origin, Step, Sane, MarksMean, AllDoneMean, FramesAgree,
           DeclarationsPast, Sane'
    PROVE  FramesAgree'
  <1>1. /\ PathsOK /\ StackOK /\ stack # <<>> /\ ProgramOK /\ PathsKept
    BY StepProgram, RunsHere DEF MachineOK
  <1>2. /\ Len(stack) \in Nat /\ Len(stack) > 0 /\ Top = stack[Len(stack)]
        /\ Top.node \in Paths /\ NodeAt(Top.node) = Here
        /\ Len(Below) = Len(stack) - 1
        /\ \A k \in 1 .. Len(stack) - 1 : Below[k] = stack[k]
    BY <1>1, TopFacts, TopChildren
  <1>3. CASE Answers
    <2>1. stack' = Below
      BY <1>3 DEF Answers, Pops
    <2>2. ASSUME NEW k \in 1 .. Len(stack')
          PROVE  FrameAgrees(k)'
      <3>1. k \in 1 .. Len(stack) - 1 /\ k \in 1 .. Len(stack)
        BY <1>2, <2>1
      <3>2. stack'[k] = stack[k]
        BY <1>2, <2>1, <3>1
      <3>. QED
        BY <3>1, <3>2, FrameKept DEF FramesAgree
    <2>. QED
      BY <2>2 DEF FramesAgree
  <1>4. CASE PushesOnly
    <2>1. PICK n, got : Pushes(n, got)
      BY <1>4 DEF PushesOnly
    <2>2. PICK m : m = Len(stack)
      OBVIOUS
    <2>3. /\ m \in Nat /\ m > 0 /\ n \in Paths' /\ Len(got) \in Nat
          /\ Len(stack') = m + 1
          /\ \A k \in 1 .. m - 1 : stack'[k] = stack[k]
          /\ stack'[m].node = n /\ stack'[m].got = got /\ stack'[m + 1].got = <<>>
      BY <1>1, <2>1, <2>2, PushedFrames
    <2>4. n = Top.node /\ got = Results /\ Running /\ returned' = Pending
      BY <2>1 DEF Pushes
    <2>5. ASSUME NEW k \in 1 .. m - 1
          PROVE  FrameAgrees(k)'
      <3>1. k \in 1 .. Len(stack)
        BY <2>2, <2>3
      <3>. QED
        BY <2>3, <2>5, <3>1, FrameKept DEF FramesAgree
    <2>6. FrameAgrees(m + 1)'
      <3>1. Len(stack'[m + 1].got) = 0
        BY <2>3
      <3>. QED
        BY <3>1 DEF FrameAgrees
    <2>7. FrameAgrees(m)'
      <3>1. NodeAt(n)'.type = NodeAt(n).type /\ n \in Paths /\ NodeAt(n) = Here
        BY <1>1, <1>2, <2>4 DEF PathsKept
      <3>2. SUFFICES ASSUME NodeAt(n).type = "call", Len(got) >= 1
                     PROVE  \E d \in Callees(n)' : PointsTo(n, d)' /\ FitSoFar(n, d, Len(got) - 1)'
        BY <2>3, <3>1 DEF FrameAgrees
      <3>3. (Call /\ CallMatches) \/ Argument
        BY <1>4, <2>4, <3>1, <3>2, CallPushed, CalleeWritten DEF Sane
      <3>4. returned'.outcome # "failure"
        BY <2>4 DEF Pending
      <3>5. PICK d \in Callees(n) : PointsTo(n, d) /\ FitSoFar(n, d, Len(got) - 1)
        BY <2>4, <3>1, <3>2, <3>3, <3>4, CallFits
      <3>6. Len(got) - 1 \in Nat /\ Len(got) - 1 <= Len(NodeAt(Child(n, 2)).children)
        <4>1. /\ Len(Results) <= Steps(Here) /\ Len(Arguments) \in Nat
              /\ Steps(Here) = 1 + Len(Arguments)
          BY <2>4, <3>1, <3>2, CallFacts
        <4>2. NodeAt(Child(n, 2)) = Here.children[2]
          BY <1>1, <3>1, <3>2, CallArguments
        <4>. QED
          BY <2>3, <2>4, <3>2, <4>1, <4>2 DEF Arguments
      <3>7. PICK j \in Nat : j = Len(got) - 1
        BY <3>6
      <3>8. d \in Callees(n)' /\ PointsTo(n, d)' /\ FitSoFar(n, d, j)'
        BY <3>1, <3>2, <3>5, <3>6, <3>7, CallAgrees
      <3>. QED
        BY <3>7, <3>8
    <2>8. \A k \in 1 .. Len(stack') : k \in 1 .. m - 1 \/ k = m \/ k = m + 1
      BY <2>3
    <2>. QED
      BY <2>5, <2>6, <2>7, <2>8 DEF FramesAgree
  <1>5. ~ChildFailed
    BY ChildFailedStep DEF Sane
  <1>. QED
    BY <1>3, <1>4, <1>5, StepKinds

-----------------------------------------------------------------------------
\* What the nodes that are done have shown of their types.

\* The name that is assigned to.
LEMMA TargetName ==
    ASSUME PathsOK, NEW p \in Paths, NodeAt(p).type \in {"assign", "constant"}
    PROVE  /\ NodeAt(Child(p, 1)).type = "typed" => NameAt(Target(p)) = DeclaredName(Child(p, 1))
           /\ NodeAt(Child(p, 1)).type = "identifier" => NameAt(Target(p)) = NameAt(Child(p, 1))
           /\ NodeAt(Child(p, 1)).type \in {"typed", "identifier"}
  <1>1. p \in Numbers /\ NodeAt(Child(p, 1)).type \in {"typed", "identifier"}
    BY PairChildren
  <1>2. p \o <<1, 1>> = Child(Child(p, 1), 1)
    BY <1>1, TwoSteps
  <1>. QED
    BY <1>1, <1>2 DEF Target, DeclaredName

\* The name that is assigned to stays.
LEMMA TargetKept ==
    ASSUME MachineOK, Step, NEW p \in Paths, NodeAt(p).type = "assign"
    PROVE  NameAt(Target(p))' = NameAt(Target(p))
  <1>1. /\ PathsOK /\ PathsOK' /\ p \in Paths' /\ NodeAt(p)' = NodeAt(p)
        /\ NodeAt(Child(p, 1))' = NodeAt(Child(p, 1))
        /\ NameAt(Child(p, 1))' = NameAt(Child(p, 1))
        /\ Kind(NodeAt(p), 1) = "typed" =>
              DeclaredName(Child(p, 1))' = DeclaredName(Child(p, 1))
    BY StepProgram, PairKept
  <1>2. NodeAt(Child(p, 1)).type = Kind(NodeAt(p), 1) /\ p \in Numbers
    BY <1>1, PairChildren
  <1>3. CASE NodeAt(Child(p, 1)).type = "typed"
    <2>1. p \o <<1, 1>> = Child(Child(p, 1), 1)
      BY <1>2, TwoSteps
    <2>2. Target(p) = p \o <<1, 1>> /\ Target(p)' = p \o <<1, 1>>
      BY <1>1, <1>3 DEF Target, Child
    <2>. QED
      BY <1>1, <1>2, <1>3, <2>1, <2>2 DEF DeclaredName, NameAt, Child
  <1>4. CASE NodeAt(Child(p, 1)).type # "typed"
    <2>1. Target(p) = Child(p, 1) /\ Target(p)' = Child(p, 1)
      BY <1>1, <1>4 DEF Target, Child
    <2>. QED
      BY <1>1, <2>1 DEF NameAt
  <1>. QED
    BY <1>3, <1>4

\* What a node has shown stays shown.
LEMMA DoneMeansKept ==
    ASSUME MachineOK, Step, NEW p \in Paths, DoneMeans(p)
    PROVE  DoneMeans(p)'
  <1>1. PathsOK /\ PathsKept /\ ProgramOK /\ p \in Numbers
    BY StepProgram DEF MachineOK, PathsOK
  <1>2. NodeAt(p)'.type = NodeAt(p).type
    BY <1>1 DEF PathsKept
  <1>3. NodeAt(p).type \in Operators => \E type \in Types : AllMean(p, type)'
    <2>1. SUFFICES ASSUME NodeAt(p).type \in Operators PROVE \E type \in Types : AllMean(p, type)'
      OBVIOUS
    <2>2. p # <<>>
      BY <1>1, <2>1, ProgramShape, OperatorsApart DEF NodeAt
    <2>3. PICK type \in Types : AllMean(p, type)
      BY <2>1 DEF DoneMeans
    <2>. QED
      BY <2>2, <2>3, AllMeanKept
  <1>4. NodeAt(p).type = "assign" =>
           \E type \in Types : TypeFound(NameAt(Target(p)), type)' /\ AllMean(Child(p, 2), type)'
    <2>1. SUFFICES ASSUME NodeAt(p).type = "assign"
                   PROVE  \E type \in Types :
                             TypeFound(NameAt(Target(p)), type)' /\ AllMean(Child(p, 2), type)'
      OBVIOUS
    <2>2. PICK type \in Types : TypeFound(NameAt(Target(p)), type) /\ AllMean(Child(p, 2), type)
      BY <2>1 DEF DoneMeans
    <2>3. PICK name, q : name = NameAt(Target(p)) /\ q = Child(p, 2)
      OBVIOUS
    <2>4. TypeFound(name, type)' /\ NameAt(Target(p))' = name
      BY <2>1, <2>2, <2>3, TypeKept, TargetKept
    <2>5. q \in Paths /\ q # <<>>
      BY <1>1, <2>1, <2>3, PairChildren, ChildPath
    <2>6. AllMean(q, type)'
      BY <2>2, <2>3, <2>5, AllMeanKept
    <2>7. TypeFound(NameAt(Target(p)), type)'
      BY <2>4 DEF TypeFound
    <2>. QED
      BY <2>3, <2>6, <2>7 DEF Child
  <1>5. NodeAt(p).type = "call" =>
           \E d \in Callees(p)' : FitSoFar(p, d, Len(NodeAt(Child(p, 2)).children))'
    <2>1. SUFFICES ASSUME NodeAt(p).type = "call"
                   PROVE  \E d \in Callees(p)' : FitSoFar(p, d, Len(NodeAt(Child(p, 2)).children))'
      OBVIOUS
    <2>2. PICK n : n = Len(NodeAt(Child(p, 2)).children)
      OBVIOUS
    <2>3. NodeAt(Child(p, 2))' = NodeAt(Child(p, 2))
      BY <2>1, CallKept
    <2>4. n \in Nat
      BY <1>1, <2>1, <2>2, CallArguments
    <2>5. PICK d \in Callees(p) : FitSoFar(p, d, n)
      BY <2>1, <2>2 DEF DoneMeans
    <2>6. d \in Callees(p)' /\ FitSoFar(p, d, n)'
      BY <2>1, <2>2, <2>4, <2>5, FitKept, CalleeKept
    <2>. QED
      BY <2>2, <2>3, <2>6 DEF FitSoFar
  <1>6. NodeAt(p).type = "typed" /\ Kind(NodeAt(p)', 2) # "null" => p \in DOMAIN typed'
    <2>1. SUFFICES ASSUME NodeAt(p).type = "typed", Kind(NodeAt(p)', 2) # "null"
                   PROVE  p \in DOMAIN typed'
      OBVIOUS
    <2>2. NodeAt(p)' = NodeAt(p)
      BY <2>1, DeclarationKept
    <2>3. p \in DOMAIN typed
      BY <2>1, <2>2 DEF DoneMeans
    <2>. QED
      BY <2>3, StepGrows DEF DataGrows
  <1>. QED
    BY <1>2, <1>3, <1>4, <1>5, <1>6 DEF DoneMeans, Types, Kind

\* The value of an assignment means the type of what is assigned to.
LEMMA AssignedMeans ==
    ASSUME MachineOK, WayOK, Step, ResultsMean, Answers, returned'.outcome = "success",
           Here.type = "assign", NEW n, n = Top.node
    PROVE  /\ n \in Paths
           /\ \E type \in Types : TypeFound(NameAt(Target(n)), type)' /\ AllMean(Child(n, 2), type)
  <1>1. /\ PathsOK /\ StackOK /\ stack # <<>> /\ Running /\ UNCHANGED program
        /\ Len(Results) = Steps(Here)
    BY PathsHold, RunsHere DEF MachineOK, Answers, Pops
  <1>2. n \in Paths /\ n \in Numbers /\ NodeAt(n) = Here
    BY <1>1, TopChildren
  <1>3. /\ Steps(Here) = 2
        /\ Child(n, 1) \in Paths /\ Child(n, 2) \in Paths
        /\ NodeAt(Child(n, 1)).type = Kind(Here, 1) /\ NodeAt(Child(n, 2)).type \in Values
        /\ NodeAt(Child(n, 1)) = Here.children[1]
        /\ StepPath(n, 1) = Child(n, 2) /\ StepPath(n, 2) = Child(n, 1)
    BY <1>1, <1>2, PairChildren
  <1>4. 1 \in 1 .. Len(Results) /\ 2 \in 1 .. Len(Results)
    BY <1>1, <1>3
  <1>5. PICK value, target : value = Results[1] /\ target = Results[2]
    OBVIOUS
  <1>6. Resolved(Child(n, 2), value) /\ Resolved(Child(n, 1), target)
    BY <1>1, <1>3, <1>4, <1>5, ResultsResolved
  <1>7. value \in Types /\ target \in Types
    BY <1>6, ResolvedNodes
  <1>8. AllMean(Child(n, 2), value)
    BY <1>3, <1>6, <1>7 DEF ResultsMean, ResultMeans
  <1>9. PICK name : name = NameAt(Target(n))
    OBVIOUS
  <1>10. NameAt(Target(n))' = name
    BY <1>2, <1>9, TargetKept
  <1>11. SUFFICES TypeFound(name, value)'
    BY <1>2, <1>7, <1>8, <1>10 DEF TypeFound
  <1>12. CASE AssignVariable
    <2>1. /\ Kind(Here, 1) = "identifier"
          /\ SymbolOf(table, Here.children[1].name).type = Results[1]
      BY <1>12, AssignVariableStep
    <2>2. Found(table, Here.children[1].name)
      BY <1>1, <1>3, <2>1, VariableFound
    <2>3. name = Here.children[1].name
      BY <1>1, <1>2, <1>3, <1>9, <2>1, TargetName DEF NameAt
    <2>4. TypeFound(name, value)
      BY <1>5, <2>1, <2>2, <2>3 DEF TypeFound
    <2>. QED
      BY <2>4, TypeKept
  <1>13. CASE DeclareDeduced
    <2>1. Kind(Here, 1) = "typed" /\ NameDeclared(Results[1])
      BY <1>13, DeclareDeducedStep
    <2>2. DeclaredName(Child(n, 1)) = NewName
      BY <1>1, <2>1, NewDeclaration
    <2>3. name = NewName
      BY <1>1, <1>2, <1>3, <1>9, <2>1, <2>2, TargetName
    <2>4. PICK constant, node : TableAdds(name, value, constant, node)
      BY <1>5, <2>1, <2>3 DEF NameDeclared
    <2>. QED
      BY <2>4, SymbolAdded DEF TypeFound
  <1>14. CASE DeclareTyped
    <2>1. Kind(Here, 1) = "typed" /\ target # "unknown" /\ value = target
      BY <1>5, <1>14, DeclareTypedStep
    <2>2. Kind(NodeAt(Child(n, 1)), 2) # "null"
      BY <1>3, <1>6, <1>7, <2>1 DEF WayOK, NullsUnknown
    <2>3. TypeFound(DeclaredName(Child(n, 1)), target)
      BY <1>3, <1>6, <1>7, <2>1, <2>2 DEF ResultsMean, ResultMeans
    <2>4. name = DeclaredName(Child(n, 1))
      BY <1>1, <1>2, <1>3, <1>9, <2>1, TargetName
    <2>5. TypeFound(name, value)
      BY <2>1, <2>3, <2>4
    <2>. QED
      BY <2>5, TypeKept
  <1>. QED
    BY <1>12, <1>13, <1>14, AnsweredBy

\* The node that is left has shown its types.
LEMMA DoneHere ==
    ASSUME MachineOK, WayOK, Origin, Step, Sane, MarksMean, ResultsMean, AllDoneMean, FramesAgree,
           DeclarationsPast, Sane', Answers, returned'.outcome = "success", NEW n, n = Top.node
    PROVE  DoneMeans(n)'
  <1>1. /\ PathsOK /\ StackOK /\ stack # <<>> /\ Running /\ UNCHANGED program /\ ProgramOK
        /\ Len(Results) = Steps(Here)
        /\ returned'.type \in Types
    BY PathsHold, RunsHere DEF MachineOK, Answers, Pops
  <1>2. /\ n \in Paths /\ n \in Numbers /\ NodeAt(n) = Here
    BY <1>1, TopChildren
  <1>3. /\ NodeAt(n)' = Here /\ NodeAt(Child(n, 2))' = NodeAt(Child(n, 2))
    BY <1>1, <1>2, PathsSame
  <1>4. CASE Here.type \in Operators
    <2>1. PICK type \in Types : type = returned'.type
      BY <1>1
    <2>2. AllMean(n, type)
      BY <1>4, <2>1, AnswerMeans DEF Values, Expressions
    <2>3. n # <<>>
      BY <1>1, <1>2, <1>4, ProgramShape, OperatorsApart DEF NodeAt
    <2>4. AllMean(n, type)'
      BY <1>2, <2>2, <2>3, AllMeanKept
    <2>. QED
      BY <1>3, <1>4, <2>1, <2>4, OperatorsApart DEF DoneMeans, Types
  <1>5. CASE Here.type = "assign"
    <2>1. PICK type \in Types : TypeFound(NameAt(Target(n)), type)' /\ AllMean(Child(n, 2), type)
      BY <1>5, AssignedMeans
    <2>2. PICK q : q = Child(n, 2)
      OBVIOUS
    <2>3. q \in Paths /\ q # <<>>
      BY <1>1, <1>2, <1>5, <2>2, PairChildren, ChildPath
    <2>4. AllMean(q, type)'
      BY <2>1, <2>2, <2>3, AllMeanKept
    <2>5. AllMean(Child(n, 2), type)'
      BY <2>2, <2>4 DEF Child
    <2>. QED
      BY <1>3, <1>5, <2>1, <2>5, OperatorsApart DEF DoneMeans, Types
  <1>6. CASE Here.type = "call"
    <2>1. /\ (Call /\ CallMatches) \/ Argument
      <3>1. ~PushesOnly
        <4>1. PushesOnly => returned' = Pending
          BY DEF PushesOnly, Pushes
        <4>. QED
          BY <4>1 DEF Pending
      <3>2. Call \/ Argument
        BY <1>6, AnsweredBy
      <3>4. Written
        BY <1>1, <1>6, <3>2, CallReached, CalleeWritten DEF Sane
      <3>3. Call => CallMatches
        BY <3>1, <3>4, CallStep
      <3>. QED
        BY <3>2, <3>3
    <2>2. PICK d \in Callees(n) : FitSoFar(n, d, Len(Results) - 1)
      BY <1>2, <1>6, <2>1, CallFits
    <2>3. Len(Results) - 1 = Len(Arguments) /\ Len(Arguments) \in Nat
      BY <1>1, <1>6, CallFacts
    <2>4. NodeAt(Child(n, 2)) = Here.children[2]
      BY <1>1, <1>2, <1>6, CallArguments
    <2>5. PICK j \in Nat : j = Len(NodeAt(Child(n, 2)).children) /\ FitSoFar(n, d, j)
      BY <2>2, <2>3, <2>4 DEF Arguments
    <2>6. d \in Callees(n)' /\ FitSoFar(n, d, j)'
      BY <1>2, <1>6, <2>5, FitKept, CalleeKept
    <2>. QED
      BY <1>3, <1>6, <2>5, <2>6, OperatorsApart DEF DoneMeans
  <1>7. CASE Here.type = "typed"
    <2>1. Kind(Here, 2) # "null" => n \in DOMAIN typed'
      <3>1. SUFFICES ASSUME Kind(Here, 2) # "null" PROVE n \in DOMAIN typed'
        OBVIOUS
      <3>2. PICK type : type = returned'.type
        OBVIOUS
      <3>. QED
        BY <1>7, <3>1, <3>2, AnswerNames
    <2>. QED
      BY <1>3, <1>7, <2>1, OperatorsApart DEF DoneMeans, Kind
  <1>8. CASE Here.type \notin Operators \cup {"assign", "call", "typed"}
    BY <1>3, <1>8 DEF DoneMeans
  <1>. QED
    BY <1>4, <1>5, <1>6, <1>7, <1>8

\* Every step keeps what the nodes that are done have shown.
LEMMA AllDoneKept ==
    ASSUME MachineOK, WayOK, Origin, Step, Sane, MarksMean, ResultsMean, AllDoneMean, FramesAgree,
           DeclarationsPast, Sane'
    PROVE  AllDoneMean'
  <1>1. SUFFICES ASSUME NEW p \in Paths', Done(p)', Visible(p)' PROVE DoneMeans(p)'
    BY DEF AllDoneMean
  <1>2. CASE NodeAt(p)'.type \in Passive
    BY <1>2, OperatorsApart DEF DoneMeans, Passive
  <1>3. CASE NodeAt(p)'.type \notin Passive
    <2>1. /\ p \in Paths
          /\ \/ Done(p) /\ Visible(p)
             \/ /\ p = Top.node /\ returned'.outcome = "success"
                /\ Answers \/ NodeAt(p).type = "function"
      BY <1>1, <1>3, DoneStep
    <2>2. CASE Done(p) /\ Visible(p)
      BY <2>1, <2>2, DoneMeansKept DEF AllDoneMean
    <2>3. CASE p = Top.node /\ returned'.outcome = "success" /\ Answers
      BY <2>3, DoneHere
    <2>4. CASE p = Top.node /\ NodeAt(p).type = "function"
      <3>1. PathsKept
        BY StepProgram
      <3>2. NodeAt(p)'.type = "function"
        BY <2>1, <2>4, <3>1 DEF PathsKept
      <3>. QED
        BY <3>2, OperatorsApart DEF DoneMeans
    <2>. QED
      BY <2>1, <2>2, <2>3, <2>4
  <1>. QED
    BY <1>2, <1>3

-----------------------------------------------------------------------------
\* The walk keeps its sense.
LEMMA SenseKept ==
    ASSUME MachineOK, WayOK, Origin, Step, Sense
    PROVE  Sense'
  <1>1. SUFFICES ASSUME Sane'
                 PROVE  /\ MarksMean' /\ ResultsMean' /\ AllDoneMean'
                        /\ FramesAgree' /\ DeclarationsPast'
    BY DEF Sense
  <1>2. Sane
    BY <1>1, SaneBefore
  <1>3. MarksMean /\ ResultsMean /\ AllDoneMean /\ FramesAgree /\ DeclarationsPast
    BY <1>2 DEF Sense
  <1>4. MarksMean'
    BY <1>1, <1>3, MarksKept
  <1>5. ResultsMean'
    BY <1>1, <1>2, <1>3, ResultsKept
  <1>6. AllDoneMean'
    BY <1>1, <1>2, <1>3, AllDoneKept
  <1>7. FramesAgree'
    BY <1>1, <1>2, <1>3, FramesKept
  <1>8. DeclarationsPast'
    BY <1>1, <1>2, <1>3, PointersKept
  <1>. QED
    BY <1>4, <1>5, <1>6, <1>7, <1>8

\* At the start there is nothing to know.
LEMMA SenseStarts ==
    ASSUME Init
    PROVE  Sense
  <1>1. MarksMean
    <2>1. typed = <<>>
      BY DEF Init
    <2>2. DOMAIN typed = {}
      BY <2>1
    <2>. QED
      BY <2>2 DEF MarksMean
  <1>2. ResultsMean
    BY NothingResolved DEF ResultsMean
  <1>3. AllDoneMean
    BY NothingDone DEF AllDoneMean
  <1>4. FramesAgree
    <2>1. stack = <<[node |-> <<>>, got |-> <<>>]>>
      BY DEF Init
    <2>2. \A k \in 1 .. Len(stack) : Len(stack[k].got) = 0
      BY <2>1
    <2>. QED
      BY <2>2 DEF FramesAgree, FrameAgrees
  <1>5. DeclarationsPast
    <2>1. table \in Created(FloatSymbol, IntSymbol)
      BY DEF Init, FloatSymbol, IntSymbol
    <2>2. Held(table) \subseteq {FloatSymbol, IntSymbol}
      BY <2>1, CreatedHeld
    <2>3. FloatSymbol.decl = Unwritten /\ IntSymbol.decl = Unwritten
      BY DEF FloatSymbol, IntSymbol, Builtin, Symbol
    <2>. QED
      BY <2>2, <2>3 DEF DeclarationsPast
  <1>. QED
    BY <1>1, <1>2, <1>3, <1>4, <1>5 DEF Sense

\* Meaning depends on the variables alone.
LEMMA MeaningSame ==
    ASSUME UNCHANGED vars
    PROVE  /\ \A p, type : AllMean(p, type)' = AllMean(p, type)
           /\ \A p : MarkMeans(p)' = MarkMeans(p)
           /\ \A p, type : ResultMeans(p, type)' = ResultMeans(p, type)
           /\ \A p : DoneMeans(p)' = DoneMeans(p)
           /\ \A k : FrameAgrees(k)' = FrameAgrees(k)
           /\ Misread' = Misread
  <1>1. /\ UNCHANGED <<program, table, typed, stack, returned, mishaps>>
        /\ Paths' = Paths /\ \A p : NodeAt(p)' = NodeAt(p) /\ NameAt(p)' = NameAt(p)
        /\ \A p : DeclaredName(p)' = DeclaredName(p)
        /\ \A kinds : Of(kinds)' = Of(kinds)
        /\ Declarations' = Declarations
    BY NodesSame DEF vars
  <1>2. \A name, type : TypeFound(name, type)' = TypeFound(name, type)
    BY <1>1 DEF TypeFound
  <1>3. \A p : Operands(p)' = Operands(p)
    BY <1>1 DEF Operands
  <1>4. \A c : Callees(c)' = Callees(c)
    BY <1>1 DEF Callees, DeclaresFunction, Child
  <1>5. \A d : ReturnName(d)' = ReturnName(d)
    BY <1>1 DEF ReturnName
  <1>6. \A q, type : Means(q, type)' = Means(q, type)
    BY <1>1, <1>2, <1>4, <1>5 DEF Means, TypeFound
  <1>7. \A p, type : AllMean(p, type)' = AllMean(p, type)
    BY <1>3, <1>6 DEF AllMean
  <1>8. \A p : MarkMeans(p)' = MarkMeans(p)
    BY <1>1, <1>2 DEF MarkMeans, TypeFound
  <1>9. \A p, type : ResultMeans(p, type)' = ResultMeans(p, type)
    BY <1>1, <1>2, <1>7 DEF ResultMeans, TypeFound
  <1>10. \A c, d, i : Fits(c, d, i)' = Fits(c, d, i)
    BY <1>1, <1>7 DEF Fits, TypeFound
  <1>11. \A c, d, n : FitSoFar(c, d, n)' = FitSoFar(c, d, n)
    BY <1>1, <1>10 DEF FitSoFar
  <1>12. \A p : Target(p)' = Target(p)
    BY <1>1 DEF Target
  <1>13. \A p : DoneMeans(p)' = DoneMeans(p)
    BY <1>1, <1>4, <1>7, <1>11, <1>12 DEF DoneMeans, TypeFound
  <1>14. \A c, d : PointsTo(c, d)' = PointsTo(c, d)
    BY <1>1 DEF PointsTo
  <1>15. \A k : FrameAgrees(k)' = FrameAgrees(k)
    BY <1>1, <1>4, <1>11, <1>14 DEF FrameAgrees
  <1>16. Misread' = Misread
    BY <1>1, TouchesSame
  <1>. QED
    BY <1>7, <1>8, <1>9, <1>13, <1>15, <1>16

\* So does what the walk knows.
LEMMA SenseSame ==
    ASSUME Sense, UNCHANGED vars
    PROVE  Sense'
  <1>1. /\ UNCHANGED <<program, table, typed, stack, returned, mishaps>>
        /\ Paths' = Paths /\ \A p : NodeAt(p)' = NodeAt(p)
        /\ \A p, type : Resolved(p, type)' = Resolved(p, type)
        /\ \A p : Done(p)' = Done(p)
        /\ Skipped' = Skipped
    BY NodesSame, DoneSame, ResolvedSame DEF vars, Skipped
  <1>2. \A p : Visible(p)' = Visible(p)
    BY <1>1 DEF Visible
  <1>3. Sane' = Sane
    BY <1>1, MeaningSame DEF Sane
  <1>4. SUFFICES ASSUME Sane
                 PROVE  /\ MarksMean' /\ ResultsMean' /\ AllDoneMean'
                        /\ FramesAgree' /\ DeclarationsPast'
    BY <1>3 DEF Sense
  <1>5. MarksMean /\ ResultsMean /\ AllDoneMean /\ FramesAgree /\ DeclarationsPast
    BY <1>4 DEF Sense
  <1>6. MarksMean'
    BY <1>1, <1>5, MeaningSame DEF MarksMean
  <1>7. ResultsMean'
    BY <1>1, <1>5, MeaningSame DEF ResultsMean, Types
  <1>8. AllDoneMean'
    BY <1>1, <1>2, <1>5, MeaningSame DEF AllDoneMean
  <1>9. FramesAgree'
    BY <1>1, <1>5, MeaningSame DEF FramesAgree
  <1>10. DeclarationsPast'
    BY <1>1, <1>5 DEF DeclarationsPast
  <1>. QED
    BY <1>6, <1>7, <1>8, <1>9, <1>10

-----------------------------------------------------------------------------
\* At the end what the walk knows says what was promised.

\* A name is called for one declaration.
LEMMA OneCallee ==
    ASSUME PathsOK, Accepted, mishaps = {}, NamesMeanOneThing,
           NEW c, NEW d \in Callees(c), NEW e \in Callees(c)
    PROVE  d = e
  <1>1. \A p, q \in Declarations : DeclaredName(p) = DeclaredName(q) => p = q
    BY DEF NamesMeanOneThing
  <1>2. ASSUME NEW f \in Callees(c)
        PROVE  /\ f \in Numbers /\ Child(f, 1) \in Declarations
               /\ DeclaredName(Child(f, 1)) = NameAt(Child(c, 1))
    <2>1. /\ f \in Paths /\ f \in Numbers /\ Visible(f)
          /\ NodeAt(f).type \in {"assign", "constant"}
          /\ Child(f, 1) \in Paths /\ NodeAt(Child(f, 1)).type = "typed"
          /\ DeclaredName(Child(f, 1)) = NameAt(Child(c, 1))
      BY CalleeFacts
    <2>2. 1 \in DOMAIN NodeAt(f).children
      BY <2>1, PairChildren
    <2>3. Visible(Child(f, 1))
      BY <2>1, <2>2, VisibleChild
    <2>. QED
      BY <2>1, <2>3, OfVisible DEF Declarations
  <1>3. Child(d, 1) = Child(e, 1)
    BY <1>1, <1>2
  <1>. QED
    BY <1>2, <1>3, ChildInjective

\* An operand means one type, that of its meaning.
LEMMA MeaningMeans ==
    ASSUME PathsOK, Accepted, mishaps = {}, NamesMeanOneThing, NEW q, NEW type, Means(q, type)
    PROVE  Meaning(q) = type
  <1>1. CASE NodeAt(q).type = "literal" /\ type = NameAt(q)
    BY <1>1 DEF Meaning, NameAt
  <1>2. CASE NodeAt(q).type = "identifier" /\ TypeFound(NameAt(q), type)
    BY <1>2 DEF Meaning, NameAt, TypeFound
  <1>3. CASE NodeAt(q).type = "function" /\ type = "function"
    BY <1>3 DEF Meaning
  <1>4. CASE NodeAt(q).type = "call" /\ \E d \in Callees(q) : TypeFound(ReturnName(d), type)
    <2>1. PICK d \in Callees(q) : TypeFound(ReturnName(d), type)
      BY <1>4
    <2>2. PICK e : e = CHOOSE d1 \in Callees(q) : TRUE
      OBVIOUS
    <2>3. e \in Callees(q)
      BY <2>1, <2>2
    <2>4. e = d
      BY <2>1, <2>3, OneCallee
    <2>5. d \o <<2, 2>> = Child(Child(d, 2), 2)
      <3>1. d \in Numbers
        BY <2>1, CalleeFacts
      <3>. QED
        BY <3>1, TwoSteps
    <2>6. Meaning(q) = SymbolOf(table, NameAt(e \o <<2, 2>>)).type
      <3>1. Callees(q) # {}
        BY <2>1
      <3>. QED
        BY <1>4, <2>2, <3>1 DEF Meaning
    <2>. QED
      BY <2>1, <2>4, <2>5, <2>6 DEF TypeFound, ReturnName
  <1>. QED
    BY <1>1, <1>2, <1>3, <1>4 DEF Means

\* A call that fits a function agrees with it.
LEMMA FitAgrees ==
    ASSUME PathsOK, Accepted, mishaps = {}, NamesMeanOneThing,
           NEW c \in Paths, NodeAt(c).type = "call", NEW d \in Callees(c),
           FitSoFar(c, d, Len(NodeAt(Child(c, 2)).children))
    PROVE  Agrees(c, d)
  <1>1. PICK f : f = Child(d, 2)
    OBVIOUS
  <1>2. /\ f \in Paths /\ NodeAt(f).type = "function" /\ d \in Numbers /\ c \in Numbers
    BY <1>1, CalleeFacts DEF PathsOK
  <1>3. /\ Child(f, 1) \in Paths
        /\ Len(NodeAt(Child(f, 1)).children) \in Nat
        /\ DOMAIN NodeAt(Child(f, 1)).children = 1 .. Len(NodeAt(Child(f, 1)).children)
        /\ \A i \in DOMAIN NodeAt(Child(f, 1)).children :
              /\ i \in Nat
              /\ Child(Child(f, 1), i) \in Paths
              /\ NodeAt(Child(Child(f, 1), i)) = NodeAt(Child(f, 1)).children[i]
              /\ NodeAt(Child(Child(f, 1), i)).type = "typed"
    BY <1>2, ParameterFacts
  <1>4. d \o <<2, 1>> = Child(f, 1)
    BY <1>1, <1>2, TwoSteps
  <1>5. Len(NodeAt(Child(f, 1)).children) = Len(NodeAt(Child(c, 2)).children)
    BY <1>1 DEF FitSoFar
  <1>6. ASSUME NEW i \in DOMAIN NodeAt(Child(f, 1)).children, NEW q \in Operands(c \o <<2, i>>)
        PROVE  SymbolOf(table, NodeAt(Child(f, 1)).children[i].children[1].name).type
                  \in {"unknown", Meaning(q)}
    <2>1. i \in Nat /\ i \in 1 .. Len(NodeAt(Child(c, 2)).children)
      BY <1>3, <1>5
    <2>2. c \o <<2, i>> = Child(Child(c, 2), i)
      BY <1>2, <2>1, TwoSteps
    <2>3. PICK type \in Types : /\ TypeFound(DeclaredName(ParameterAt(d, i)), type)
                                /\ type = "unknown" \/ AllMean(Child(Child(c, 2), i), type)
      BY <2>1 DEF FitSoFar, Fits
    <2>4. type = "unknown" \/ Meaning(q) = type
      BY <1>6, <2>2, <2>3, MeaningMeans DEF AllMean
    <2>5. ParameterAt(d, i) = Child(Child(f, 1), i)
      BY <1>1 DEF ParameterAt
    <2>6. NodeAt(Child(Child(Child(f, 1), i), 1)) = NodeAt(Child(Child(f, 1), i)).children[1]
      BY <1>3, TypedChildren
    <2>7. NodeAt(Child(f, 1)).children[i].children[1].name = DeclaredName(ParameterAt(d, i))
      BY <1>3, <2>5, <2>6 DEF DeclaredName, NameAt
    <2>. QED
      BY <2>3, <2>4, <2>7 DEF TypeFound
  <1>. QED
    BY <1>4, <1>5, <1>6 DEF Agrees

\* When everything is done, the program is well typed.
LEMMA TypesAccepted ==
    ASSUME MachineOK, Sense, NamesMeanOneThing
    PROVE  WellTyped
  <1>1. SUFFICES ASSUME Accepted, mishaps = {}, ~Misread, Skipped = {}
                 PROVE  /\ \A p \in Of(Operators) : \A q, r \in Operands(p) : Meaning(q) = Meaning(r)
                        /\ \A p \in Of({"assign"}) : \A q \in Operands(Child(p, 2)) :
                              SymbolOf(table, NameAt(Target(p))).type = Meaning(q)
                        /\ \A p \in Of({"call"}) : \E d \in Callees(p) : Agrees(p, d)
    BY DEF WellTyped
  <1>2. PathsOK
    BY PathsHold DEF MachineOK
  <1>3. Sane
    BY <1>1 DEF Sane, Accepted, Skipped, Child
  <1>4. AllDoneMean
    BY <1>3 DEF Sense
  <1>5. ASSUME NEW kinds, NEW p \in Of(kinds)
        PROVE  p \in Paths /\ NodeAt(p).type \in kinds /\ DoneMeans(p)
    BY <1>1, <1>4, AllDone, OfVisible DEF AllDoneMean
  <1>6. ASSUME NEW p \in Of(Operators), NEW q \in Operands(p), NEW r \in Operands(p)
        PROVE  Meaning(q) = Meaning(r)
    <2>1. PICK type \in Types : AllMean(p, type)
      BY <1>5 DEF DoneMeans
    <2>2. Meaning(q) = type /\ Meaning(r) = type
      BY <1>1, <1>2, <2>1, MeaningMeans DEF AllMean
    <2>. QED
      BY <2>2
  <1>7. ASSUME NEW p \in Of({"assign"}), NEW q \in Operands(Child(p, 2))
        PROVE  SymbolOf(table, NameAt(Target(p))).type = Meaning(q)
    <2>1. PICK type \in Types : TypeFound(NameAt(Target(p)), type) /\ AllMean(Child(p, 2), type)
      BY <1>5 DEF DoneMeans
    <2>2. Meaning(q) = type
      BY <1>1, <1>2, <2>1, MeaningMeans DEF AllMean
    <2>. QED
      BY <2>1, <2>2 DEF TypeFound
  <1>8. ASSUME NEW p \in Of({"call"})
        PROVE  \E d \in Callees(p) : Agrees(p, d)
    <2>1. p \in Paths /\ NodeAt(p).type = "call" /\ DoneMeans(p)
      BY <1>5
    <2>2. PICK d \in Callees(p) : FitSoFar(p, d, Len(NodeAt(Child(p, 2)).children))
      BY <2>1 DEF DoneMeans
    <2>. QED
      BY <1>1, <1>2, <2>1, <2>2, FitAgrees
  <1>. QED
    BY <1>6, <1>7, <1>8

\* In a program that is accepted all operands of an operator mean the same
\* type, what is assigned means the type of the variable, and the arguments of
\* a call are as many as the parameters and mean their types, but for
\* parameters of unknown type (type_info.c:47, :128, :190, :313-336).  Excepted
\* are functions that were misread or skipped.
THEOREM WellTypedSafe == Spec => []WellTyped
  <1>1. Init => Sense
    BY SenseStarts
  <1>2. MachineOK /\ WayOK /\ Origin /\ Sense /\ [Next]_vars => Sense'
    BY SenseKept, SenseSame DEF Next, Finished
  <1>3. MachineOK /\ Sense /\ NamesMeanOneThing => WellTyped
    BY TypesAccepted
  <1>. QED
    BY <1>1, <1>2, <1>3, MachineSafe, WaySafe, OriginSafe, NamesSafe, PTL DEF Spec
=============================================================================
