----------------------------- MODULE Dispatch_proofs -----------------------------
(***************************************************************************)
(* Theorems about RouteIndex and Dispatch, for any names, any routes and   *)
(* urls of any length and any order of registrations, those that fail      *)
(* included.                                                               *)
(***************************************************************************)
EXTENDS Dispatch, SequenceTheorems, FiniteSetTheorems, WellFoundedInduction, TLAPS

\* What the first i segments of a route are.
LEMMA UptoProperties ==
  ASSUME NEW S, NEW route \in Seq(S), NEW i \in 0..Len(route)
  PROVE  /\ Upto(route, i) \in Seq(S)
         /\ Len(Upto(route, i)) = i
         /\ DOMAIN Upto(route, i) = 1..i
         /\ \A j \in 1..i : Upto(route, i)[j] = route[j]
<1>1. /\ Len(route) \in Nat
      /\ \A j \in 1..i : route[j] \in S
  BY LenProperties, ElementOfSeq
<1>2. /\ SubSeq(route, 1, i) \in Seq(S)
      /\ Len(SubSeq(route, 1, i)) = IF 1 <= i THEN i - 1 + 1 ELSE 0
      /\ \A j \in 1..(i - 1 + 1) : SubSeq(route, 1, i)[j] = route[1 + j - 1]
  BY <1>1, SubSeqProperties
<1>3. Len(Upto(route, i)) = i /\ Upto(route, i) \in Seq(S)
  BY <1>1, <1>2 DEF Upto
<1>4. DOMAIN Upto(route, i) = 1..i
  BY <1>3, LenProperties
<1>5. \A j \in 1..i : Upto(route, i)[j] = route[j]
  BY <1>1, <1>2 DEF Upto
<1> QED
  BY <1>3, <1>4, <1>5

\* The beginning of the beginning of a route is a beginning of the route.
LEMMA UptoUpto ==
  ASSUME NEW S, NEW route \in Seq(S), NEW i \in 0..Len(route), NEW j \in 0..i
  PROVE  Upto(Upto(route, i), j) = Upto(route, j)
<1>1. Len(route) \in Nat /\ j \in 0..Len(route)
  BY LenProperties
<1>2. /\ Upto(route, i) \in Seq(S) /\ Len(Upto(route, i)) = i
      /\ \A k \in 1..i : Upto(route, i)[k] = route[k]
  BY UptoProperties
<1>3. /\ Upto(route, j) \in Seq(S) /\ Len(Upto(route, j)) = j
      /\ \A k \in 1..j : Upto(route, j)[k] = route[k]
  BY <1>1, UptoProperties
<1>4. /\ Upto(Upto(route, i), j) \in Seq(S) /\ Len(Upto(Upto(route, i), j)) = j
      /\ \A k \in 1..j : Upto(Upto(route, i), j)[k] = Upto(route, i)[k]
  BY <1>2, UptoProperties
<1>5. \A k \in 1..j : Upto(Upto(route, i), j)[k] = Upto(route, j)[k]
  BY <1>1, <1>2, <1>3, <1>4
<1> QED
  BY <1>3, <1>4, <1>5, SeqEqual

\* The segments of a route up to one that is refused may stand in the tree, whether their
\* nodes are there already or are to be created.
LEMMA AcceptedSegments ==
  ASSUME IndexTypeOK, TreeIsWellFormed,
         NEW route \in Seq(Segments), SizeCheck(route) = "found",
         NEW k \in 0..Len(route), \A j \in 1..k : ~Refused(route, j)
  PROVE  \A j \in 1..k : route[j] \in Names \/ (route[j] = Id /\ IdMayStandAt(route, j))
<1>1. Len(route) \in Nat /\ DOMAIN route = 1..Len(route)
  BY LenProperties
<1> SUFFICES ASSUME NEW j \in 1..k
             PROVE  route[j] \in Names \/ (route[j] = Id /\ IdMayStandAt(route, j))
  OBVIOUS
<1>2. route[j] \in Segments /\ j \in DOMAIN route /\ j \in 0..Len(route)
  BY <1>1, ElementOfSeq
<1>3. route[j] # Huge /\ route[j] # Blank
  BY <1>2 DEF SizeCheck, ToSet, Refused
<1>4. CASE Upto(route, j) \in nodes
  <2> DEFINE n == Upto(route, j)
  <2>1. DOMAIN n = 1..j /\ \A i \in 1..j : n[i] = route[i]
    BY <1>2, UptoProperties
  <2>2. n[j] = route[j] /\ (j > 1 => n[j - 1] = route[j - 1])
    BY <2>1
  <2>3. n[j] \in Names \/ (n[j] = Id /\ IdMayStandAt(n, j))
    BY <1>4, <2>1 DEF TreeIsWellFormed
  <2> QED
    BY <2>2, <2>3 DEF IdMayStandAt
<1>5. CASE Upto(route, j) \notin nodes
  BY <1>2, <1>3, <1>5 DEF Refused, Segments
<1> QED
  BY <1>4, <1>5

\* Adding the nodes of such segments keeps the tree what it should be.
LEMMA PrefixesJoin ==
  ASSUME IndexTypeOK, TreeIsWellFormed,
         NEW route \in Seq(Segments), SizeCheck(route) = "found",
         NEW k \in 0..Len(route), \A j \in 1..k : ~Refused(route, j),
         nodes' = nodes \cup {Upto(route, i) : i \in 0..k}
  PROVE  nodes' \subseteq Seq(Names \cup {Id}) /\ TreeIsWellFormed'
<1>1. Len(route) \in Nat
  BY LenProperties
<1>2. \A j \in 1..k : route[j] \in Names \/ (route[j] = Id /\ IdMayStandAt(route, j))
  BY AcceptedSegments
<1>3. ASSUME NEW i \in 0..k PROVE Upto(route, i) \in Seq(Names \cup {Id})
  <2>1. /\ Upto(route, i) \in Seq(Segments)
        /\ Len(Upto(route, i)) = i
        /\ \A j \in 1..i : Upto(route, i)[j] = route[j]
    BY <1>1, UptoProperties
  <2>2. \A j \in 1..i : Upto(route, i)[j] \in Names \cup {Id}
    BY <1>2, <2>1
  <2> QED
    BY <2>1, <2>2
<1>4. ASSUME NEW i \in 0..k
      PROVE  LET n == Upto(route, i)
             IN  /\ \A j \in 0..Len(n) : Upto(n, j) \in nodes'
                 /\ \A j \in DOMAIN n : n[j] \in Names \/ (n[j] = Id /\ IdMayStandAt(n, j))
  <2> DEFINE n == Upto(route, i)
  <2>1. i \in 0..Len(route)
    BY <1>1
  <2>2. Len(n) = i /\ DOMAIN n = 1..i /\ \A j \in 1..i : n[j] = route[j]
    BY <2>1, UptoProperties
  <2>3. ASSUME NEW j \in 0..Len(n) PROVE Upto(n, j) \in nodes'
    <3>1. Upto(n, j) = Upto(route, j) /\ j \in 0..k
      BY <2>1, <2>2, UptoUpto
    <3> QED
      BY <3>1
  <2>4. ASSUME NEW j \in DOMAIN n PROVE n[j] \in Names \/ (n[j] = Id /\ IdMayStandAt(n, j))
    <3>1. n[j] = route[j] /\ (j > 1 => n[j - 1] = route[j - 1]) /\ j \in 1..k
      BY <2>2
    <3> QED
      BY <1>2, <3>1 DEF IdMayStandAt
  <2> QED
    BY <2>3, <2>4
<1>5. TreeIsWellFormed'
  BY <1>4 DEF TreeIsWellFormed
<1> QED
  BY <1>3, <1>5 DEF IndexTypeOK

IndexInv == IndexTypeOK /\ Root \in nodes /\ TreeIsWellFormed

LEMMA IndexInvInit == IndexInit => IndexInv
<1> SUFFICES ASSUME IndexInit PROVE IndexInv
  OBVIOUS
<1>1. IndexTypeOK
  BY EmptySeq DEF IndexInit, IndexTypeOK, Root
<1>2. \A i \in 0..Len(Root) : Upto(Root, i) = Root
  BY SubSeqEmpty DEF Root, Upto
<1>3. TreeIsWellFormed
  BY <1>2 DEF IndexInit, TreeIsWellFormed, Root
<1> QED
  BY <1>1, <1>3 DEF IndexInv, IndexInit

LEMMA IndexInvStep == IndexInv /\ [IndexNext]_indexVars => IndexInv'
<1> SUFFICES ASSUME IndexInv, [IndexNext]_indexVars PROVE IndexInv'
  OBVIOUS
<1>1. ASSUME NEW route \in Registrations, NEW action \in Actions, Ensure(route, action)
      PROVE  IndexInv'
  <2>1. route \in Seq(Segments)
    BY RouteAssumption
  <2>2. Len(route) \in Nat /\ DOMAIN route = 1..Len(route) /\ Len(route) \in 0..Len(route)
    BY <2>1, LenProperties
  <2>3. /\ SizeCheck(route) = "found" /\ \A j \in 1..Len(route) : ~Refused(route, j)
        /\ nodes' = nodes \cup {Upto(route, i) : i \in 0..Len(route)}
        /\ entries' = entries \cup {<<route, action>>}
    BY <1>1, <2>2 DEF Ensure, Acceptable
  <2>4. nodes' \subseteq Seq(Names \cup {Id}) /\ TreeIsWellFormed'
    BY <2>1, <2>2, <2>3, PrefixesJoin DEF IndexInv
  <2>5. route \in nodes'
    <3>1. Upto(route, Len(route)) = route
      BY <2>1, SubSeqFull DEF Upto
    <3>2. Upto(route, Len(route)) \in {Upto(route, i) : i \in 0..Len(route)}
      BY <2>2
    <3> QED
      BY <2>3, <3>1, <3>2
  <2>6. Root \in nodes' /\ entries' \subseteq nodes' \X Actions
    BY <2>3, <2>5 DEF IndexInv, IndexTypeOK
  <2> QED
    BY <2>4, <2>6 DEF IndexInv, IndexTypeOK
<1>2. ASSUME NEW route \in Registrations, EnsureFails(route)
      PROVE  IndexInv'
  <2>1. route \in Seq(Segments)
    BY RouteAssumption
  <2>2. PICK i \in DOMAIN route :
          /\ \A j \in 1..(i - 1) : ~Refused(route, j)
          /\ nodes' = nodes \cup {Upto(route, j) : j \in 0..(i - 1)}
    BY <1>2 DEF EnsureFails
  <2>3. i - 1 \in 0..Len(route)
    BY <2>1, LenProperties
  <2>4. SizeCheck(route) = "found" /\ entries' = entries
    BY <1>2 DEF EnsureFails
  <2>5. nodes' \subseteq Seq(Names \cup {Id}) /\ TreeIsWellFormed'
    BY <2>1, <2>2, <2>3, <2>4, PrefixesJoin DEF IndexInv
  <2> QED
    BY <2>2, <2>4, <2>5 DEF IndexInv, IndexTypeOK
<1>3. CASE UNCHANGED indexVars
  BY <1>3 DEF indexVars, IndexInv, IndexTypeOK, TreeIsWellFormed
<1> QED
  BY <1>1, <1>2, <1>3 DEF IndexNext

LEMMA IndexInvAlways == IndexSpec => []IndexInv
BY IndexInvInit, IndexInvStep, PTL DEF IndexSpec

\* The nodes are routes of allowed segments, and the entries are on nodes.
THEOREM IndexTypeCorrect == IndexSpec => []IndexTypeOK
<1>1. IndexInv => IndexTypeOK
  BY DEF IndexInv
<1> QED
  BY <1>1, IndexInvAlways, PTL

\* The tree stays one, without an id after the root or another id, also when
\* registrations fail half-way.
THEOREM TreeIsWellFormedHolds == IndexSpec => []TreeIsWellFormed
<1>1. IndexInv => TreeIsWellFormed
  BY DEF IndexInv
<1> QED
  BY <1>1, IndexInvAlways, PTL

\* A set of naturals that is not empty has a least one.
LEMMA LeastNatural ==
  ASSUME NEW T, T \subseteq Nat, T # {}
  PROVE  \E n \in T : \A m \in T : n <= m
<1> DEFINE R == OpToRel(<, Nat)
<1>1. IsWellFoundedOn(R, Nat)
  BY NatLessThanWellFounded
<1>2. \A m, n \in Nat : m < n => <<m, n>> \in R
  BY DEF OpToRel
<1> HIDE DEF R
<1>3. PICK n \in T : \A m \in T : ~ (<<m, n>> \in R)
  BY <1>1, WFMin
<1>4. ASSUME NEW m \in T PROVE n <= m
  <2>1. m \in Nat /\ n \in Nat /\ ~ (<<m, n>> \in R)
    BY <1>3
  <2>2. ~ (m < n)
    BY <1>2, <2>1
  <2> QED
    BY <2>1, <2>2
<1> QED
  BY <1>4

\* Induction, for a set that stands for what is to be shown.
LEMMA InductionUpTo ==
  ASSUME NEW k \in Nat, NEW S, 0 \in S, \A n \in 0..(k - 1) : n \in S => n + 1 \in S
  PROVE  \A n \in 0..k : n \in S
<1> SUFFICES ASSUME (0..k) \ S # {} PROVE FALSE
  OBVIOUS
<1> DEFINE T == (0..k) \ S
<1>1. T \subseteq Nat /\ T # {}
  OBVIOUS
<1> HIDE DEF T
<1>2. PICK n \in T : \A m \in T : n <= m
  BY <1>1, LeastNatural
<1> USE DEF T
<1>3. n # 0 /\ n - 1 \in 0..(k - 1) /\ ~ (n <= n - 1) /\ n - 1 \in 0..k /\ n - 1 + 1 = n
  BY <1>2
<1>4. n - 1 \in S
  BY <1>2, <1>3
<1> QED
  BY <1>2, <1>3, <1>4

Turns(route) ==
  LET turn[i \in 0..Len(route)] ==
        IF i = 0 THEN At("found") ELSE Descend(turn[i - 1], route[i])
  IN  turn

LEMMA TurnsExist ==
  ASSUME NEW u, Len(u) \in Nat
  PROVE  \E f : f = [i \in 0..Len(u) |-> IF i = 0 THEN At("found") ELSE Descend(f[i - 1], u[i])]
<1> DEFINE Fits(f, n) == f = [i \in 0..n |-> IF i = 0 THEN At("found") ELSE Descend(f[i - 1], u[i])]
           S == {n \in Nat : \E f : Fits(f, n)}
<1>1. 0 \in S
  <2>1. Fits([i \in 0..0 |-> At("found")], 0)
    OBVIOUS
  <2> QED
    BY <2>1
<1>2. ASSUME NEW n \in 0..(Len(u) - 1), n \in S PROVE n + 1 \in S
  <2>1. PICK f : Fits(f, n)
    BY <1>2
  <2> DEFINE g == [i \in 0..(n + 1) |-> IF i <= n THEN f[i] ELSE Descend(f[n], u[i])]
  <2>2. Fits(g, n + 1)
    <3>1. ASSUME NEW i \in 0..(n + 1)
          PROVE  g[i] = IF i = 0 THEN At("found") ELSE Descend(g[i - 1], u[i])
      <4>1. CASE i = 0
        BY <2>1, <4>1
      <4>2. CASE i \in 1..n
        <5>1. g[i] = f[i] /\ g[i - 1] = f[i - 1]
          BY <4>2
        <5>2. f[i] = Descend(f[i - 1], u[i])
          BY <2>1, <4>2
        <5> QED
          BY <4>2, <5>1, <5>2
      <4>3. CASE i = n + 1
        <5>1. g[i] = Descend(f[n], u[i]) /\ g[i - 1] = f[n]
          BY <4>3
        <5> QED
          BY <4>3, <5>1
      <4> QED
        BY <4>1, <4>2, <4>3
    <3> QED
      BY <3>1
  <2> HIDE DEF g
  <2>3. n + 1 \in Nat /\ \E h : Fits(h, n + 1)
    BY <2>2
  <2> QED
    BY <2>3
<1> HIDE DEF S
<1>3. \A n \in 0..Len(u) : n \in S
  BY <1>1, <1>2, InductionUpTo
<1>4. Len(u) \in S
  BY <1>3
<1> QED
  BY <1>4 DEF S

LEMMA TurnsFollow ==
  ASSUME NEW u, Len(u) \in Nat
  PROVE  /\ Turns(u)[0] = At("found")
         /\ \A i \in 1..Len(u) : Turns(u)[i] = Descend(Turns(u)[i - 1], u[i])
<1> DEFINE turn == Turns(u)
<1>1. turn = [i \in 0..Len(u) |-> IF i = 0 THEN At("found") ELSE Descend(turn[i - 1], u[i])]
  BY TurnsExist DEF Turns
<1> HIDE DEF turn
<1>2. turn[0] = At("found")
  BY <1>1
<1>3. ASSUME NEW i \in 1..Len(u) PROVE turn[i] = Descend(turn[i - 1], u[i])
  BY <1>1
<1> QED
  BY <1>2, <1>3 DEF turn

LEMMA DetailedAtIsLastTurn ==
  ASSUME NEW u, SizeCheck(u) = "found"
  PROVE DetailedAt(u) = Turns(u)[Len(u)]
BY DEF DetailedAt, Turns
LEMMA UptoStep ==
  ASSUME NEW S, NEW route \in Seq(S), NEW i \in 1..Len(route)
  PROVE  Upto(route, i) = Append(Upto(route, i - 1), route[i])
<1>1. Len(route) \in Nat /\ i - 1 \in 0..Len(route) /\ i \in 0..Len(route) /\ route[i] \in S
  BY LenProperties, ElementOfSeq
<1>2. /\ Upto(route, i) \in Seq(S) /\ Len(Upto(route, i)) = i
      /\ \A j \in 1..i : Upto(route, i)[j] = route[j]
  BY <1>1, UptoProperties
<1>3. /\ Upto(route, i - 1) \in Seq(S) /\ Len(Upto(route, i - 1)) = i - 1
      /\ \A j \in 1..(i - 1) : Upto(route, i - 1)[j] = route[j]
  BY <1>1, UptoProperties
<1> DEFINE longer == Append(Upto(route, i - 1), route[i])
<1>4. /\ longer \in Seq(S) /\ Len(longer) = i
      /\ \A j \in 1..i : longer[j] = route[j]
  <2>1. /\ longer \in Seq(S) /\ Len(longer) = i - 1 + 1
        /\ \A j \in 1..(i - 1) : longer[j] = Upto(route, i - 1)[j]
        /\ longer[i - 1 + 1] = route[i]
    BY <1>1, <1>3, AppendProperties
  <2> QED
    BY <1>1, <1>3, <2>1
<1> HIDE DEF longer
<1>5. \A j \in 1..i : Upto(route, i)[j] = longer[j]
  BY <1>2, <1>4
<1>6. Upto(route, i) = longer
  BY <1>2, <1>4, <1>5, SeqEqual
<1> QED
  BY <1>6 DEF longer

LEMMA UptoAll ==
  ASSUME NEW S, NEW route \in Seq(S)
  PROVE  Upto(route, Len(route)) = route
BY SubSeqFull DEF Upto

\* A child of a node goes on where the node ends.
LEMMA AppendExtends ==
  ASSUME NEW S, NEW n \in Seq(S), NEW x \in S
  PROVE  /\ Append(n, x) \in Seq(S)
         /\ Len(Append(n, x)) = Len(n) + 1
         /\ DOMAIN Append(n, x) = 1..(Len(n) + 1)
         /\ \A j \in 1..Len(n) : Append(n, x)[j] = n[j]
         /\ Append(n, x)[Len(n) + 1] = x
         /\ \A j \in 0..Len(n) : Upto(Append(n, x), j) = Upto(n, j)
<1> DEFINE c == Append(n, x)
<1>1. /\ c \in Seq(S) /\ Len(c) = Len(n) + 1 /\ Len(n) \in Nat
      /\ \A j \in 1..Len(n) : c[j] = n[j]
      /\ c[Len(n) + 1] = x
  BY AppendProperties, LenProperties
<1> HIDE DEF c
<1>2. DOMAIN c = 1..(Len(n) + 1)
  BY <1>1, LenProperties
<1>3. ASSUME NEW j \in 0..Len(n) PROVE Upto(c, j) = Upto(n, j)
  <2>1. /\ Upto(c, j) \in Seq(S) /\ Len(Upto(c, j)) = j
        /\ \A k \in 1..j : Upto(c, j)[k] = c[k]
    BY <1>1, UptoProperties
  <2>2. /\ Upto(n, j) \in Seq(S) /\ Len(Upto(n, j)) = j
        /\ \A k \in 1..j : Upto(n, j)[k] = n[k]
    BY UptoProperties
  <2>3. \A k \in 1..j : Upto(c, j)[k] = Upto(n, j)[k]
    BY <1>1, <2>1, <2>2
  <2> QED
    BY <2>1, <2>2, <2>3, SeqEqual
<1> QED
  BY <1>1, <1>2, <1>3 DEF c

NodeNames == Names \cup {Id}

\* The first i segments of a node are those that the route leads to, none of which is
\* refused.
Leads(u, n, i) ==
  /\ Len(n) >= i
  /\ \A j \in 1..i : u[j] \notin {Id, Blank}
  /\ \A j \in 1..i : n[j] = IF Append(Upto(n, j - 1), u[j]) \in nodes THEN u[j] ELSE Id

\* The match after i turns of the loop of detailed_at().
TurnInv(u, m, i) ==
  /\ m = [result |-> m.result, node |-> m.node, last_id |-> m.last_id, ids |-> m.ids]
  /\ m.result \in {"found", "not found", "malformed"}
  /\ m.result = "malformed" => \E j \in 1..i : u[j] \in {Id, Blank}
  /\ m.node \in nodes
  /\ m.result = "found" => Len(m.node) = i /\ Leads(u, m.node, i)
  /\ \A n \in nodes : Leads(u, n, i) => m.result = "found" /\ m.node = Upto(n, i)

LEMMA RootFacts ==
  /\ Len(Root) = 0 /\ DOMAIN Root = {}
  /\ \A n : Upto(n, 0) = Root
<1>1. \A n : Upto(n, 0) = Root
  BY SubSeqEmpty DEF Upto, Root
<1> QED
  BY <1>1 DEF Root

LEMMA FirstTurn ==
  ASSUME IndexInv, NEW u PROVE TurnInv(u, At("found"), 0)
BY RootFacts DEF IndexInv, TurnInv, Leads, At

\* A node, of which the segments up to a node are known, that of the next turn included.
LEMMA NodeFacts ==
  ASSUME IndexInv, NEW n \in nodes
  PROVE  /\ n \in Seq(NodeNames) /\ Len(n) \in Nat /\ DOMAIN n = 1..Len(n)
         /\ \A j \in 1..Len(n) : n[j] \in NodeNames
         /\ \A j \in 0..Len(n) : Upto(n, j) \in nodes
         /\ \A j \in 1..Len(n) : n[j] = Id => j > 1 /\ n[j - 1] \in Names
<1>1. n \in Seq(NodeNames)
  BY DEF IndexInv, IndexTypeOK, NodeNames
<1>2. /\ Len(n) \in Nat /\ DOMAIN n = 1..Len(n)
      /\ \A j \in 1..Len(n) : n[j] \in NodeNames
  BY <1>1, LenProperties, ElementOfSeq
<1>3. \A j \in 0..Len(n) : Upto(n, j) \in nodes
  BY DEF IndexInv, TreeIsWellFormed
<1>4. ASSUME NEW j \in 1..Len(n), n[j] = Id
      PROVE  j > 1 /\ n[j - 1] \in Names
  <2>1. IdMayStandAt(n, j)
    BY <1>2, <1>4, SegmentAssumption DEF IndexInv, TreeIsWellFormed
  <2>2. j > 1 /\ n[j - 1] # Id
    BY <2>1 DEF IdMayStandAt
  <2>3. n[j - 1] \in NodeNames
    BY <1>2, <2>2
  <2> QED
    BY <2>2, <2>3 DEF NodeNames
<1> QED
  BY <1>1, <1>2, <1>3, <1>4

\* A turn that finds a child goes on to it.
LEMMA ReachIs ==
  ASSUME NEW m, NEW n, NEW s, m.result = "found",
         m = [result |-> m.result, node |-> m.node, last_id |-> m.last_id, ids |-> m.ids]
  PROVE  Reach(m, n, s) =
           [result  |-> "found",
            node    |-> n,
            last_id |-> IF Last(n) # Id THEN m.last_id ELSE s,
            ids     |-> IF Last(n) # Id THEN m.ids ELSE KeepId(m.ids, n[Len(n) - 1], s)]
BY DEF Reach

\* A turn of the loop leaves the root again only as the code does.
LEMMA DescendIs ==
  ASSUME NEW m, NEW s
  PROVE  LET x == IF Append(m.node, s) \in nodes THEN s ELSE Id
             c == Append(m.node, x)
         IN  Descend(m, s) = IF m.result # "found" THEN m
                             ELSE IF s \in {Id, Blank} THEN [m EXCEPT !.result = "malformed"]
                             ELSE IF c \notin nodes THEN [m EXCEPT !.result = "not found"]
                             ELSE Reach(m, c, s)
<1> DEFINE x == IF Append(m.node, s) \in nodes THEN s ELSE Id
           c == Append(m.node, x)
<1>1. Child(m.node, s) = {c} \cap nodes
  BY DEF Child
<1> HIDE DEF c
<1>2. Child(m.node, s) = IF c \in nodes THEN {c} ELSE {}
  BY <1>1
<1>3. (CHOOSE r \in {Reach(m, n, s) : n \in {c}} : TRUE) = Reach(m, c, s)
  OBVIOUS
<1>4. Descend(m, s) = IF m.result # "found" THEN m
                      ELSE IF s \in {Id, Blank} THEN [m EXCEPT !.result = "malformed"]
                      ELSE IF c \notin nodes THEN [m EXCEPT !.result = "not found"]
                      ELSE Reach(m, c, s)
  BY <1>2, <1>3 DEF Descend
<1> QED
  BY <1>4 DEF c

\* A node and its child: the child leads on by one segment of the route.
LEMMA ChildLeads ==
  ASSUME IndexInv, NEW u \in Seq(Segments), NEW i \in 1..Len(u), NEW n \in nodes,
         Len(n) = i - 1, Leads(u, n, i - 1), u[i] \notin {Id, Blank}
  PROVE  LET x == IF Append(n, u[i]) \in nodes THEN u[i] ELSE Id
             c == Append(n, x)
         IN  /\ c \in nodes => Len(c) = i /\ Leads(u, c, i) /\ c[i] = x
                                 /\ \A j \in 1..(i - 1) : c[j] = n[j]
             /\ \A p \in nodes : Leads(u, p, i) /\ Upto(p, i - 1) = n => Upto(p, i) = c
<1> DEFINE x == IF Append(n, u[i]) \in nodes THEN u[i] ELSE Id
           c == Append(n, x)
<1>1. n \in Seq(Segments) /\ x \in Segments /\ Len(u) \in Nat
  <2>1. n \in Seq(NodeNames) /\ NodeNames \subseteq Segments
    BY NodeFacts DEF NodeNames, Segments
  <2>2. u[i] \in Segments /\ Id \in Segments /\ Len(u) \in Nat
    BY LenProperties, ElementOfSeq DEF Segments
  <2> QED
    BY <2>1, <2>2
<1>2. /\ Len(c) = i
      /\ \A j \in 1..(i - 1) : c[j] = n[j]
      /\ c[i] = x
      /\ \A j \in 0..(i - 1) : Upto(c, j) = Upto(n, j)
      /\ Upto(n, i - 1) = n
  <2> HIDE DEF x
  <2> QED
    BY <1>1, AppendExtends, UptoAll
<1> HIDE DEF c
<1>3. ASSUME c \in nodes PROVE Leads(u, c, i)
  <2>1. ASSUME NEW j \in 1..i
        PROVE  c[j] = IF Append(Upto(c, j - 1), u[j]) \in nodes THEN u[j] ELSE Id
    <3>1. CASE j = i
      BY <1>2, <3>1
    <3>2. CASE j \in 1..(i - 1)
      <4>1. c[j] = n[j] /\ Upto(c, j - 1) = Upto(n, j - 1)
        BY <1>2, <3>2
      <4> QED
        BY <3>2, <4>1 DEF Leads
    <3> QED
      BY <3>1, <3>2
  <2> QED
    BY <1>2, <2>1 DEF Leads
<1>4. ASSUME NEW p \in nodes, Leads(u, p, i), Upto(p, i - 1) = n
      PROVE  Upto(p, i) = c
  <2>1. p \in Seq(NodeNames) /\ i \in 1..Len(p)
    BY <1>4, NodeFacts DEF Leads
  <2>2. Upto(p, i) = Append(Upto(p, i - 1), p[i])
    BY <2>1, UptoStep
  <2>3. p[i] = x
    BY <1>4 DEF Leads
  <2> QED
    BY <1>4, <2>2, <2>3 DEF c
<1> QED
  BY <1>2, <1>3, <1>4 DEF c

LEMMA NextTurn ==
  ASSUME IndexInv, NEW u \in Seq(Segments), NEW i \in 1..Len(u), NEW m, TurnInv(u, m, i - 1)
  PROVE  TurnInv(u, Descend(m, u[i]), i)
<1> DEFINE s == u[i]
           x == IF Append(m.node, s) \in nodes THEN s ELSE Id
           c == Append(m.node, x)
           d == Descend(m, s)
<1>0. Len(u) \in Nat
  BY LenProperties
<1>1. ASSUME NEW n \in nodes, Leads(u, n, i)
      PROVE  /\ Leads(u, n, i - 1) /\ s \notin {Id, Blank}
             /\ m.result = "found" /\ m.node = Upto(n, i - 1)
  <2>1. Len(n) \in Nat /\ i \in Nat /\ i \in 1..i /\ \A j \in 1..(i - 1) : j \in 1..i
    BY <1>0, NodeFacts
  <2>2. Leads(u, n, i - 1) /\ s \notin {Id, Blank}
    BY <1>1, <2>1 DEF Leads
  <2> QED
    BY <2>2 DEF TurnInv
<1>2. CASE m.result # "found"
  <2>1. d = m
    BY <1>2, DescendIs
  <2>2. m.result = "malformed" => \E j \in 1..i : u[j] \in {Id, Blank}
    BY <1>0 DEF TurnInv
  <2>3. TurnInv(u, m, i)
    BY <1>1, <1>2, <2>2 DEF TurnInv
  <2> QED
    BY <2>1, <2>3
<1>3. CASE m.result = "found" /\ s \in {Id, Blank}
  <2>1. d = [m EXCEPT !.result = "malformed"]
    BY <1>3, DescendIs
  <2>2. d.result = "malformed" /\ d.node = m.node
        /\ d = [result |-> d.result, node |-> d.node, last_id |-> d.last_id, ids |-> d.ids]
    BY <2>1 DEF TurnInv
  <2> HIDE DEF d
  <2>3. TurnInv(u, d, i)
    BY <1>0, <1>1, <1>3, <2>2 DEF TurnInv
  <2> QED
    BY <2>3 DEF d
<1> HIDE DEF c
<1>4. /\ c \in nodes /\ m.result = "found" /\ s \notin {Id, Blank} =>
           Len(c) = i /\ Leads(u, c, i)
      /\ m.result = "found" /\ s \notin {Id, Blank} =>
           \A p \in nodes : Leads(u, p, i) => Upto(p, i) = c
  <2>1. m.result = "found" => m.node \in nodes /\ Len(m.node) = i - 1 /\ Leads(u, m.node, i - 1)
    BY DEF TurnInv
  <2> QED
    BY <1>1, <2>1, ChildLeads DEF c
<1>5. CASE m.result = "found" /\ s \notin {Id, Blank} /\ c \notin nodes
  <2>1. d = [m EXCEPT !.result = "not found"]
    BY <1>5, DescendIs DEF c
  <2>2. d.result = "not found" /\ d.node = m.node
        /\ d = [result |-> d.result, node |-> d.node, last_id |-> d.last_id, ids |-> d.ids]
    BY <2>1 DEF TurnInv
  <2>3. \A n \in nodes : ~ Leads(u, n, i)
    <3>1. \A n \in nodes : Leads(u, n, i) => Upto(n, i) \in nodes
      BY <1>0, NodeFacts DEF Leads
    <3> QED
      BY <1>4, <1>5, <3>1
  <2> HIDE DEF d
  <2>4. TurnInv(u, d, i)
    BY <2>2, <2>3 DEF TurnInv
  <2> QED
    BY <2>4 DEF d
<1>6. CASE m.result = "found" /\ s \notin {Id, Blank} /\ c \in nodes
  <2>1. d = Reach(m, c, s)
    BY <1>6, DescendIs DEF c
  <2> DEFINE last_id == IF Last(c) # Id THEN m.last_id ELSE s
             ids == IF Last(c) # Id THEN m.ids ELSE KeepId(m.ids, c[Len(c) - 1], s)
  <2>0. d = [result |-> "found", node |-> c, last_id |-> last_id, ids |-> ids]
    BY <1>6, <2>1, ReachIs DEF TurnInv
  <2> HIDE DEF last_id, ids
  <2>2. d.result = "found" /\ d.node = c
        /\ d = [result |-> d.result, node |-> d.node, last_id |-> d.last_id, ids |-> d.ids]
    BY <2>0
  <2> HIDE DEF d
  <2>3. TurnInv(u, d, i)
    BY <1>4, <1>6, <2>2 DEF TurnInv
  <2> QED
    BY <2>3 DEF d
<1> QED
  BY <1>2, <1>3, <1>5, <1>6

\* j is the last of the ids of a node that follow a name.
LastAfter(n, name, j) ==
  /\ j \in IdsOf(n) /\ n[j - 1] = name
  /\ \A k \in IdsOf(n) : n[k - 1] = name => k <= j

\* The ids that a match holds are those to be found at a node, and no others.
IdsMatch(u, n, ids, last_id) ==
  /\ ids = [name \in DOMAIN ids |-> ids[name]]
  /\ DOMAIN ids = {n[j - 1] : j \in IdsOf(n)}
  /\ \A name \in DOMAIN ids : \E j \in IdsOf(n) : LastAfter(n, name, j) /\ ids[name] = u[j]
  /\ IF IdsOf(n) = {} THEN last_id = Blank
     ELSE \E j \in IdsOf(n) : (\A k \in IdsOf(n) : k <= j) /\ last_id = u[j]

LEMMA FirstIds ==
  ASSUME NEW u PROVE IdsMatch(u, Root, <<>>, Blank)
<1>1. IdsOf(Root) = {}
  BY RootFacts DEF IdsOf
<1>2. DOMAIN <<>> = {} /\ <<>> = [name \in DOMAIN <<>> |-> <<>>[name]]
  OBVIOUS
<1> QED
  BY <1>1, <1>2 DEF IdsMatch

\* A child that is not an ":id" has the ids of its parent, ...
LEMMA IdsOfNamedChild ==
  ASSUME NEW u, NEW i \in Nat \ {0}, NEW n, NEW c, NEW ids, NEW last_id,
         DOMAIN n = 1..(i - 1), DOMAIN c = 1..i, \A j \in 1..(i - 1) : c[j] = n[j],
         1 \notin IdsOf(n), c[i] # Id, IdsMatch(u, n, ids, last_id)
  PROVE  IdsMatch(u, c, ids, last_id)
<1>1. \A j \in IdsOf(n) : j \in 2..(i - 1) /\ c[j - 1] = n[j - 1]
  BY DEF IdsOf
<1>2. IdsOf(c) = IdsOf(n)
  BY DEF IdsOf
<1>3. {c[j - 1] : j \in IdsOf(c)} = {n[j - 1] : j \in IdsOf(n)}
  BY <1>1, <1>2
<1>4. ASSUME NEW name, NEW j, LastAfter(n, name, j) PROVE LastAfter(c, name, j)
  BY <1>1, <1>2, <1>4 DEF LastAfter
<1> QED
  BY <1>2, <1>3, <1>4 DEF IdsMatch

\* ... and one that is has one more.
LEMMA IdsOfIdChild ==
  ASSUME NEW u, NEW i \in Nat \ {0}, NEW n, NEW c, NEW ids, NEW last_id,
         DOMAIN n = 1..(i - 1), DOMAIN c = 1..i, \A j \in 1..(i - 1) : c[j] = n[j],
         1 \notin IdsOf(n), c[i] = Id, i > 1, IdsMatch(u, n, ids, last_id)
  PROVE  IdsMatch(u, c, KeepId(ids, c[i - 1], u[i]), u[i])
<1> DEFINE p == c[i - 1]
           new == KeepId(ids, p, u[i])
<1>1. \A j \in IdsOf(n) : j \in 2..(i - 1) /\ c[j - 1] = n[j - 1]
  BY DEF IdsOf
<1>2. IdsOf(c) = IdsOf(n) \cup {i}
  BY DEF IdsOf
<1>3. new = [name \in DOMAIN ids \cup {p} |-> IF name = p THEN u[i] ELSE ids[name]]
  BY DEF KeepId
<1> HIDE DEF new
<1>4. DOMAIN new = {c[j - 1] : j \in IdsOf(c)} /\ new = [name \in DOMAIN new |-> new[name]]
  <2>1. DOMAIN ids = {n[j - 1] : j \in IdsOf(n)}
    BY DEF IdsMatch
  <2>2. {c[j - 1] : j \in IdsOf(c)} = {n[j - 1] : j \in IdsOf(n)} \cup {p}
    BY <1>1, <1>2
  <2> QED
    BY <1>3, <2>1, <2>2
<1>5. ASSUME NEW name \in DOMAIN new
      PROVE  \E j \in IdsOf(c) : LastAfter(c, name, j) /\ new[name] = u[j]
  <2>1. CASE name = p
    <3>1. LastAfter(c, name, i)
      BY <1>1, <1>2, <2>1 DEF LastAfter
    <3>2. new[name] = u[i]
      BY <1>3, <2>1
    <3> QED
      BY <1>2, <3>1, <3>2
  <2>2. CASE name # p
    <3>1. name \in DOMAIN ids /\ new[name] = ids[name]
      BY <1>3, <2>2
    <3>2. PICK j \in IdsOf(n) : LastAfter(n, name, j) /\ ids[name] = u[j]
      BY <3>1 DEF IdsMatch
    <3>3. LastAfter(c, name, j)
      BY <1>1, <1>2, <2>2, <3>2 DEF LastAfter
    <3> QED
      BY <1>2, <3>1, <3>2, <3>3
  <2> QED
    BY <2>1, <2>2
<1>6. \A k \in IdsOf(c) : k <= i
  BY <1>1, <1>2
<1>7. IdsMatch(u, c, new, u[i])
  BY <1>2, <1>4, <1>5, <1>6 DEF IdsMatch
<1> QED
  BY <1>7 DEF new

LEMMA NextIds ==
  ASSUME IndexInv, NEW u \in Seq(Segments), NEW i \in 1..Len(u), NEW m, TurnInv(u, m, i - 1),
         m.result = "found" => IdsMatch(u, m.node, m.ids, m.last_id),
         Descend(m, u[i]).result = "found"
  PROVE  LET d == Descend(m, u[i]) IN IdsMatch(u, d.node, d.ids, d.last_id)
<1> DEFINE s == u[i]
           x == IF Append(m.node, s) \in nodes THEN s ELSE Id
           c == Append(m.node, x)
           d == Descend(m, s)
<1> HIDE DEF c, d
<1>0. i \in Nat \ {0}
  BY LenProperties
<1>1. m = [result |-> m.result, node |-> m.node, last_id |-> m.last_id, ids |-> m.ids]
  BY DEF TurnInv
<1>2. m.result = "found" /\ s \notin {Id, Blank} /\ c \in nodes /\ d = Reach(m, c, s)
  BY <1>1, DescendIs DEF d, c
<1>3. /\ Len(c) = i /\ c[i] = x /\ \A j \in 1..(i - 1) : c[j] = m.node[j]
      /\ DOMAIN c = 1..i
      /\ DOMAIN m.node = 1..(i - 1) /\ 1 \notin IdsOf(m.node)
  <2>1. m.node \in nodes /\ Len(m.node) = i - 1 /\ Leads(u, m.node, i - 1)
    BY <1>2 DEF TurnInv
  <2>2. Len(c) = i /\ c[i] = x /\ \A j \in 1..(i - 1) : c[j] = m.node[j]
    BY <1>2, <2>1, ChildLeads DEF c
  <2>3. 1 \notin IdsOf(m.node)
    BY <2>1, NodeFacts DEF IdsOf
  <2> QED
    BY <1>2, <2>1, <2>2, <2>3, NodeFacts
<1>4. IdsMatch(u, m.node, m.ids, m.last_id)
  BY <1>2
<1>5. Last(c) = c[i]
  BY <1>3 DEF Last
<1> HIDE DEF x, s
<1>6. CASE c[i] # Id
  <2>1. d.node = c /\ d.ids = m.ids /\ d.last_id = m.last_id
    BY <1>1, <1>2, <1>5, <1>6, ReachIs
  <2>2. IdsMatch(u, c, m.ids, m.last_id)
    BY <1>0, <1>3, <1>4, <1>6, IdsOfNamedChild
  <2>3. IdsMatch(u, d.node, d.ids, d.last_id)
    BY <2>1, <2>2
  <2> QED
    BY <2>3 DEF d, s
<1>7. CASE c[i] = Id
  <2>1. i > 1
    <3>1. i \in 1..Len(c)
      BY <1>0, <1>3
    <3> QED
      BY <1>2, <1>7, <3>1, NodeFacts
  <2>2. d.node = c /\ d.ids = KeepId(m.ids, c[i - 1], s) /\ d.last_id = s
    BY <1>1, <1>2, <1>3, <1>5, <1>7, ReachIs
  <2>3. IdsMatch(u, c, KeepId(m.ids, c[i - 1], s), s)
    BY <1>0, <1>3, <1>4, <1>7, <2>1, IdsOfIdChild DEF s
  <2>4. IdsMatch(u, d.node, d.ids, d.last_id)
    BY <2>2, <2>3
  <2> QED
    BY <2>4 DEF d, s
<1> QED
  BY <1>6, <1>7

LEMMA TurnsHold ==
  ASSUME IndexInv, NEW u \in Seq(Segments)
  PROVE  \A i \in 0..Len(u) :
           LET m == Turns(u)[i]
           IN  TurnInv(u, m, i) /\ (m.result = "found" => IdsMatch(u, m.node, m.ids, m.last_id))
<1> DEFINE Holds(m, i) ==
             TurnInv(u, m, i) /\ (m.result = "found" => IdsMatch(u, m.node, m.ids, m.last_id))
           S == {i \in Nat : Holds(Turns(u)[i], i)}
<1>1. Len(u) \in Nat
  BY LenProperties
<1>2. 0 \in S
  <2>1. Turns(u)[0] = At("found")
    BY <1>1, TurnsFollow
  <2>2. Holds(At("found"), 0)
    BY FirstTurn, FirstIds DEF At
  <2> HIDE DEF Holds
  <2> QED
    BY <2>1, <2>2
<1>3. ASSUME NEW n \in 0..(Len(u) - 1), n \in S PROVE n + 1 \in S
  <2> DEFINE i == n + 1
             m == Turns(u)[n]
  <2>1. i \in 1..Len(u) /\ i - 1 = n /\ i \in Nat
    BY <1>1
  <2>2. Turns(u)[i] = Descend(m, u[i])
    BY <1>1, <2>1, TurnsFollow
  <2>3. Holds(m, i - 1)
    BY <1>3, <2>1
  <2> HIDE DEF i, m
  <2>4. Holds(Descend(m, u[i]), i)
    BY <2>1, <2>3, NextTurn, NextIds
  <2> HIDE DEF Holds
  <2>5. Holds(Turns(u)[i], i)
    BY <2>2, <2>4
  <2>6. i \in S
    BY <2>1, <2>5
  <2> QED
    BY <2>6 DEF i
<1> HIDE DEF S
<1>4. \A i \in 0..Len(u) : i \in S
  BY <1>1, <1>2, <1>3, InductionUpTo
<1> QED
  BY <1>4 DEF S

\* What detailed_at() finds.
LEMMA LookupHolds ==
  ASSUME IndexInv, NEW u \in LookUps
  PROVE  LET m == DetailedAt(u)
         IN  /\ TurnInv(u, m, Len(u))
             /\ m.result = "found" => IdsMatch(u, m.node, m.ids, m.last_id)
<1>1. u \in Seq(Segments) /\ SizeCheck(u) = "found"
  BY RouteAssumption DEF LookUps
<1>2. Len(u) \in 0..Len(u)
  BY <1>1, LenProperties
<1>3. DetailedAt(u) = Turns(u)[Len(u)]
  BY <1>1, DetailedAtIsLastTurn
<1> QED
  BY <1>1, <1>2, <1>3, TurnsHold

\* A node is where a route leads when all of its segments are.
LEMMA LeadsWholly ==
  ASSUME IndexInv, NEW u \in Seq(Segments), NEW n \in nodes
  PROVE  IsUrl(u) /\ Matches(u, n) <=> Len(n) = Len(u) /\ Leads(u, n, Len(u))
<1>1. Len(u) \in Nat /\ DOMAIN u = 1..Len(u) /\ Len(n) \in Nat /\ DOMAIN n = 1..Len(n)
  BY LenProperties, NodeFacts
<1>2. IsUrl(u) <=> \A j \in 1..Len(u) : u[j] \notin {Id, Blank}
  BY <1>1 DEF IsUrl, ToSet
<1>3. Len(n) = Len(u) => (Leads(u, n, Len(u)) <=> IsUrl(u) /\ Matches(u, n))
  BY <1>1, <1>2 DEF Leads, Matches
<1> QED
  BY <1>3 DEF Matches

LEMMA GreedyNow == IndexInv => LookupIsGreedy
<1> SUFFICES ASSUME IndexInv, NEW u \in LookUps, NEW n \in nodes
             PROVE  LET m == DetailedAt(u)
                    IN  m.result = "found" /\ m.node = n <=> IsUrl(u) /\ Matches(u, n)
  BY DEF LookupIsGreedy
<1> DEFINE m == DetailedAt(u)
<1>1. TurnInv(u, m, Len(u))
  BY LookupHolds
<1>2. u \in Seq(Segments) /\ n \in Seq(NodeNames)
  BY RouteAssumption, NodeFacts DEF LookUps
<1> HIDE DEF m
<1>3. ASSUME m.result = "found", m.node = n PROVE IsUrl(u) /\ Matches(u, n)
  <2>1. Len(n) = Len(u) /\ Leads(u, n, Len(u))
    BY <1>1, <1>3 DEF TurnInv
  <2> QED
    BY <1>2, <2>1, LeadsWholly
<1>4. ASSUME IsUrl(u), Matches(u, n) PROVE m.result = "found" /\ m.node = n
  <2>1. Len(n) = Len(u) /\ Leads(u, n, Len(u))
    BY <1>2, <1>4, LeadsWholly
  <2>2. m.result = "found" /\ m.node = Upto(n, Len(u))
    BY <1>1, <2>1 DEF TurnInv
  <2>3. Upto(n, Len(u)) = n
    BY <1>2, <2>1, UptoAll
  <2> QED
    BY <2>2, <2>3
<1> QED
  BY <1>3, <1>4 DEF m

\* detailed_at() finds a node when, and only when, a url leads there, and then that node.
THEOREM LookupIsGreedyHolds == IndexSpec => []LookupIsGreedy
BY GreedyNow, IndexInvAlways, PTL

LEMMA IdsKeptNow == IndexInv => IdsAreKept
<1> SUFFICES ASSUME IndexInv, NEW u \in LookUps, DetailedAt(u).result = "found"
             PROVE  LET m == DetailedAt(u)
                        last(name) == CHOOSE i \in IdsOf(m.node) :
                                        /\ m.node[i - 1] = name
                                        /\ \A j \in IdsOf(m.node) : m.node[j - 1] = name => j <= i
                    IN  /\ DOMAIN m.ids = {m.node[i - 1] : i \in IdsOf(m.node)}
                        /\ \A name \in DOMAIN m.ids : m.ids[name] = u[last(name)]
                        /\ \A i \in IdsOf(m.node) : (\A j \in IdsOf(m.node) : j <= i) => m.last_id = u[i]
  BY DEF IdsAreKept
<1> DEFINE m == DetailedAt(u)
           last(name) == CHOOSE i \in IdsOf(m.node) :
                           /\ m.node[i - 1] = name
                           /\ \A j \in IdsOf(m.node) : m.node[j - 1] = name => j <= i
<1>1. IdsMatch(u, m.node, m.ids, m.last_id) /\ m.node \in nodes
  BY LookupHolds DEF TurnInv
<1> HIDE DEF m
<1>2. \A i \in IdsOf(m.node) : i \in Nat
  BY <1>1, NodeFacts DEF IdsOf
<1>3. ASSUME NEW name \in DOMAIN m.ids PROVE m.ids[name] = u[last(name)]
  <2>1. PICK j \in IdsOf(m.node) : LastAfter(m.node, name, j) /\ m.ids[name] = u[j]
    BY <1>1 DEF IdsMatch
  <2>2. LastAfter(m.node, name, last(name))
    BY <2>1 DEF LastAfter
  <2> HIDE DEF last
  <2>3. last(name) = j
    BY <1>2, <2>1, <2>2 DEF LastAfter
  <2> QED
    BY <2>1, <2>3
<1>4. ASSUME NEW i \in IdsOf(m.node), \A j \in IdsOf(m.node) : j <= i PROVE m.last_id = u[i]
  <2>1. PICK j \in IdsOf(m.node) : (\A k \in IdsOf(m.node) : k <= j) /\ m.last_id = u[j]
    BY <1>1 DEF IdsMatch
  <2>2. j = i
    BY <1>2, <1>4, <2>1
  <2> QED
    BY <2>1, <2>2
<1>5. DOMAIN m.ids = {m.node[i - 1] : i \in IdsOf(m.node)}
  BY <1>1 DEF IdsMatch
<1> QED
  BY <1>3, <1>4, <1>5 DEF m

\* A handler finds the ids of its url, each under the name that it follows.
THEOREM IdsAreKeptHolds == IndexSpec => []IdsAreKept
BY IdsKeptNow, IndexInvAlways, PTL

\* The ids of a match are determined by its url and its node.
LEMMA IdsDetermined ==
  ASSUME NEW u, NEW n, NEW ids1, NEW ids2, NEW last1, NEW last2, IdsOf(n) \subseteq Nat,
         IdsMatch(u, n, ids1, last1), IdsMatch(u, n, ids2, last2)
  PROVE  ids1 = ids2 /\ last1 = last2
<1>1. DOMAIN ids1 = DOMAIN ids2
  BY DEF IdsMatch
<1>2. ASSUME NEW name \in DOMAIN ids1 PROVE ids1[name] = ids2[name]
  <2>1. PICK i \in IdsOf(n) : LastAfter(n, name, i) /\ ids1[name] = u[i]
    BY DEF IdsMatch
  <2>2. PICK j \in IdsOf(n) : LastAfter(n, name, j) /\ ids2[name] = u[j]
    BY <1>1 DEF IdsMatch
  <2>3. i = j
    BY <2>1, <2>2 DEF LastAfter
  <2> QED
    BY <2>1, <2>2, <2>3
<1>3. ids1 = ids2
  <2>1. ids1 = [name \in DOMAIN ids1 |-> ids1[name]] /\ ids2 = [name \in DOMAIN ids2 |-> ids2[name]]
    BY DEF IdsMatch
  <2> QED
    BY <1>1, <1>2, <2>1
<1>4. last1 = last2
  <2>1. CASE IdsOf(n) = {}
    BY <2>1 DEF IdsMatch
  <2>2. CASE IdsOf(n) # {}
    <3>1. PICK i \in IdsOf(n) : (\A k \in IdsOf(n) : k <= i) /\ last1 = u[i]
      BY <2>2 DEF IdsMatch
    <3>2. PICK j \in IdsOf(n) : (\A k \in IdsOf(n) : k <= j) /\ last2 = u[j]
      BY <2>2 DEF IdsMatch
    <3>3. i = j
      BY <3>1, <3>2
    <3> QED
      BY <3>1, <3>2, <3>3
  <2> QED
    BY <2>1, <2>2
<1> QED
  BY <1>3, <1>4

\* What detailed_at() finds, as a formula of one state.
Found(u, m) ==
  /\ m = [result |-> m.result, node |-> m.node, last_id |-> m.last_id, ids |-> m.ids]
  /\ m.result = "found" => m.node \in nodes /\ IdsMatch(u, m.node, m.ids, m.last_id)
AllFound == \A u \in LookUps : Found(u, DetailedAt(u))

LEMMA AllFoundNow == IndexInv => AllFound
BY LookupHolds DEF AllFound, Found, TurnInv

LEMMA NodesOnlyGrow == [IndexNext]_indexVars => nodes \subseteq nodes'
BY DEF IndexNext, indexVars, Ensure, EnsureFails

LEMMA OnlyShadowedStep ==
  ASSUME IndexInv, LookupIsGreedy, AllFound, LookupIsGreedy', AllFound', nodes \subseteq nodes',
         NEW u \in LookUps
  PROVE  OnlyShadowed(u)
<1> SUFFICES ASSUME DetailedAt(u).result = "found",
                    ~ \E i \in DOMAIN DetailedAt(u).node :
                        /\ DetailedAt(u).node[i] = Id
                        /\ Append(Upto(DetailedAt(u).node, i - 1), u[i]) \in nodes'
             PROVE  DetailedAt(u)' = DetailedAt(u)
  BY DEF OnlyShadowed
<1>1. PICK m : m = DetailedAt(u)
  OBVIOUS
<1>2. PICK n : n = m.node
  OBVIOUS
<1>3. /\ m.result = "found" /\ n \in nodes /\ IdsMatch(u, n, m.ids, m.last_id)
      /\ m = [result |-> m.result, node |-> m.node, last_id |-> m.last_id, ids |-> m.ids]
  BY <1>1, <1>2 DEF AllFound, Found
<1>4. IsUrl(u) /\ Matches(u, n)
  BY <1>1, <1>2, <1>3 DEF LookupIsGreedy
<1>5. Matches(u, n)'
  <2> SUFFICES ASSUME NEW i \in DOMAIN n
               PROVE  n[i] = IF Append(Upto(n, i - 1), u[i]) \in nodes' THEN u[i] ELSE Id
    BY <1>4 DEF Matches, Upto
  <2>1. n[i] = IF Append(Upto(n, i - 1), u[i]) \in nodes THEN u[i] ELSE Id
    BY <1>4 DEF Matches
  <2>2. ~ (n[i] = Id /\ Append(Upto(n, i - 1), u[i]) \in nodes')
    BY <1>1, <1>2
  <2> QED
    BY <2>1, <2>2
<1>6. PICK d : d = DetailedAt(u)'
  OBVIOUS
<1>7. d.result = "found" /\ d.node = n
  BY <1>3, <1>4, <1>5, <1>6 DEF LookupIsGreedy
<1>8. /\ IdsMatch(u, n, d.ids, d.last_id)
      /\ d = [result |-> d.result, node |-> d.node, last_id |-> d.last_id, ids |-> d.ids]
  BY <1>6, <1>7 DEF AllFound, Found
<1>9. IdsOf(n) \subseteq Nat
  BY <1>3, NodeFacts DEF IdsOf
<1>10. d.ids = m.ids /\ d.last_id = m.last_id
  BY <1>3, <1>8, <1>9, IdsDetermined
<1> QED
  BY <1>1, <1>2, <1>3, <1>6, <1>7, <1>8, <1>10

\* A registration changes what another route matches only by shadowing one of its ids.
THEOREM OnlyShadowingDisturbsHolds == IndexSpec => OnlyShadowingDisturbs
<1>1. IndexInv /\ LookupIsGreedy /\ AllFound /\ LookupIsGreedy' /\ AllFound'
      /\ [IndexNext]_indexVars => [\A u \in LookUps : OnlyShadowed(u)]_nodes
  BY NodesOnlyGrow, OnlyShadowedStep
<1> QED
  BY <1>1, IndexInvAlways, GreedyNow, AllFoundNow, PTL DEF IndexSpec, OnlyShadowingDisturbs

Steps(route) ==
  LET turn[i \in 0..Len(route)] ==
        IF i = 0 THEN {Root} ELSE AtDescend(turn[i - 1], route[i])
  IN  turn

LEMMA StepsExist ==
  ASSUME NEW start, NEW u, Len(u) \in Nat
  PROVE  \E f : f = [i \in 0..Len(u) |-> IF i = 0 THEN start ELSE AtDescend(f[i - 1], u[i])]
<1> DEFINE Fits(f, n) == f = [i \in 0..n |-> IF i = 0 THEN start ELSE AtDescend(f[i - 1], u[i])]
           S == {n \in Nat : \E f : Fits(f, n)}
<1>1. 0 \in S
  <2>1. Fits([i \in 0..0 |-> start], 0)
    OBVIOUS
  <2> QED
    BY <2>1
<1>2. ASSUME NEW n \in 0..(Len(u) - 1), n \in S PROVE n + 1 \in S
  <2>1. PICK f : Fits(f, n)
    BY <1>2
  <2> DEFINE g == [i \in 0..(n + 1) |-> IF i <= n THEN f[i] ELSE AtDescend(f[n], u[i])]
  <2>2. Fits(g, n + 1)
    <3>1. ASSUME NEW i \in 0..(n + 1)
          PROVE  g[i] = IF i = 0 THEN start ELSE AtDescend(g[i - 1], u[i])
      <4>1. CASE i = 0
        BY <2>1, <4>1
      <4>2. CASE i \in 1..n
        <5>1. g[i] = f[i] /\ g[i - 1] = f[i - 1]
          BY <4>2
        <5>2. f[i] = AtDescend(f[i - 1], u[i])
          BY <2>1, <4>2
        <5> QED
          BY <4>2, <5>1, <5>2
      <4>3. CASE i = n + 1
        <5>1. g[i] = AtDescend(f[n], u[i]) /\ g[i - 1] = f[n]
          BY <4>3
        <5> QED
          BY <4>3, <5>1
      <4> QED
        BY <4>1, <4>2, <4>3
    <3> QED
      BY <3>1
  <2> HIDE DEF g
  <2>3. n + 1 \in Nat /\ \E h : Fits(h, n + 1)
    BY <2>2
  <2> QED
    BY <2>3
<1> HIDE DEF S
<1>3. \A n \in 0..Len(u) : n \in S
  BY <1>1, <1>2, InductionUpTo
<1>4. Len(u) \in S
  BY <1>3
<1> QED
  BY <1>4 DEF S

LEMMA StepsFollow ==
  ASSUME NEW u, Len(u) \in Nat
  PROVE  /\ Steps(u)[0] = {Root}
         /\ \A i \in 1..Len(u) : Steps(u)[i] = AtDescend(Steps(u)[i - 1], u[i])
<1> DEFINE turn == Steps(u)
           start == {Root}
<1> HIDE DEF start
<1>1. turn = [i \in 0..Len(u) |-> IF i = 0 THEN start ELSE AtDescend(turn[i - 1], u[i])]
  BY StepsExist DEF Steps, start
<1> HIDE DEF turn
<1>2. turn[0] = start
  BY <1>1
<1>3. ASSUME NEW i \in 1..Len(u) PROVE turn[i] = AtDescend(turn[i - 1], u[i])
  BY <1>1
<1> QED
  BY <1>2, <1>3 DEF turn, start

LEMMA NodeAtIsLastStep ==
  ASSUME NEW u PROVE NodeAt(u) = Steps(u)[Len(u)]
BY DEF NodeAt, Steps

\* Where no node is ambiguous, the turns of the two loops go the same way.
LEMMA SameTurn ==
  ASSUME IndexInv, \A n \in nodes : ~Ambiguous(n),
         NEW m, m.node \in nodes, NEW s \in Segments \ {Id, Blank},
         m = [result |-> m.result, node |-> m.node, last_id |-> m.last_id, ids |-> m.ids]
  PROVE  LET d == Descend(m, s)
             Nodes(x) == IF x.result = "found" THEN {x.node} ELSE {}
         IN  AtDescend(Nodes(m), s) = Nodes(d)
<1> DEFINE d == Descend(m, s)
           x == IF Append(m.node, s) \in nodes THEN s ELSE Id
           c == Append(m.node, x)
           y == IF HasIdChild(m.node) THEN Id ELSE s
<1> HIDE DEF d
<1>1. CASE m.result # "found"
  <2>1. d = m
    BY <1>1, DescendIs DEF d
  <2> QED
    BY <1>1, <2>1 DEF AtDescend, d
<1>2. CASE m.result = "found"
  <2>1. AtDescend({m.node}, s) = {Append(m.node, y)} \cap nodes
    BY DEF AtDescend
  <2>2. Append(m.node, s) \in nodes => s \in Names
    <3>1. ASSUME Append(m.node, s) \in nodes PROVE s \in Names
      <4>1. m.node \in Seq(Segments) /\ s \in Segments
        <5>1. NodeNames \subseteq Segments
          BY DEF NodeNames, Segments
        <5> QED
          BY <5>1, NodeFacts
      <4>2. Len(m.node) \in Nat /\ Len(Append(m.node, s)) = Len(m.node) + 1
            /\ Append(m.node, s)[Len(m.node) + 1] = s
        BY <4>1, AppendExtends, NodeFacts
      <4>3. s \in NodeNames
        <5> DEFINE child == Append(m.node, s)
        <5> HIDE DEF child
        <5>1. child \in nodes /\ Len(child) \in Nat /\ Len(child) \in 1..Len(child) /\ child[Len(child)] = s
          BY <3>1, <4>2 DEF child
        <5> QED
          BY <5>1, NodeFacts
      <4> QED
        BY <4>3 DEF NodeNames
    <3> QED
      BY <3>1
  <2>3. ~ (HasIdChild(m.node) /\ Append(m.node, s) \in nodes)
    BY <2>2 DEF Ambiguous
  <2>4. {Append(m.node, y)} \cap nodes = {c} \cap nodes
    BY <2>3 DEF HasIdChild
  <2> HIDE DEF c, y
  <2>5. CASE c \in nodes
    <3>1. d = Reach(m, c, s)
      BY <1>2, <2>5, DescendIs DEF c, d
    <3>2. d.result = "found" /\ d.node = c
      BY <1>2, <3>1, ReachIs
    <3> QED
      BY <1>2, <2>1, <2>4, <2>5, <3>2 DEF d
  <2>6. CASE c \notin nodes
    <3>1. d = [m EXCEPT !.result = "not found"]
      BY <1>2, <2>6, DescendIs DEF c, d
    <3>2. d.result = "not found"
      BY <3>1
    <3> QED
      BY <1>2, <2>1, <2>4, <2>6, <3>2 DEF d
  <2> QED
    BY <2>5, <2>6
<1> QED
  BY <1>1, <1>2

LEMMA AtAgreesNow == IndexInv => AtAgrees
<1> SUFFICES ASSUME IndexInv, \A n \in nodes : ~Ambiguous(n), NEW u \in LookUps, IsUrl(u)
             PROVE  NodeAt(u) = IF DetailedAt(u).result = "found" THEN {DetailedAt(u).node} ELSE {}
  BY DEF AtAgrees
<1> DEFINE Nodes(m) == IF m.result = "found" THEN {m.node} ELSE {}
           S == {i \in Nat : Steps(u)[i] = Nodes(Turns(u)[i])}
<1>1. u \in Seq(Segments) /\ SizeCheck(u) = "found"
  BY RouteAssumption DEF LookUps
<1>2. Len(u) \in Nat /\ DOMAIN u = 1..Len(u)
  BY <1>1, LenProperties
<1>3. 0 \in S
  <2>1. Nodes(At("found")) = {Root}
    BY DEF At
  <2>2. Steps(u)[0] = {Root} /\ Turns(u)[0] = At("found")
    BY <1>2, TurnsFollow, StepsFollow
  <2> HIDE DEF Nodes
  <2>3. Steps(u)[0] = Nodes(Turns(u)[0])
    BY <2>1, <2>2
  <2> QED
    BY <2>3
<1>4. ASSUME NEW n \in 0..(Len(u) - 1), n \in S PROVE n + 1 \in S
  <2> DEFINE i == n + 1
             m == Turns(u)[n]
  <2>1. i \in 1..Len(u) /\ i - 1 = n /\ i \in Nat /\ n \in 0..Len(u)
    BY <1>2
  <2>2. u[i] \in Segments \ {Id, Blank}
    <3>1. u[i] \in Segments
      BY <1>1, <2>1, ElementOfSeq
    <3>2. u[i] \in ToSet(u)
      BY <1>2, <2>1 DEF ToSet
    <3> QED
      BY <3>1, <3>2 DEF IsUrl
  <2>3. TurnInv(u, m, n)
    BY <1>1, <2>1, TurnsHold
  <2> HIDE DEF i, m
  <2>4. AtDescend(Nodes(m), u[i]) = Nodes(Descend(m, u[i]))
    BY <2>2, <2>3, SameTurn DEF TurnInv
  <2>5. Steps(u)[i] = AtDescend(Steps(u)[n], u[i]) /\ Turns(u)[i] = Descend(m, u[i])
    BY <1>2, <2>1, TurnsFollow, StepsFollow DEF m
  <2>6. Steps(u)[n] = Nodes(m)
    BY <1>4 DEF m
  <2> HIDE DEF Nodes
  <2>7. Steps(u)[i] = Nodes(Turns(u)[i])
    BY <2>4, <2>5, <2>6
  <2>8. i \in S
    BY <2>1, <2>7
  <2> QED
    BY <2>8 DEF i
<1> HIDE DEF S
<1>5. \A n \in 0..Len(u) : n \in S
  BY <1>2, <1>3, <1>4, InductionUpTo
<1>6. Len(u) \in S
  BY <1>2, <1>5
<1>7. Steps(u)[Len(u)] = Nodes(Turns(u)[Len(u)])
  BY <1>6 DEF S
<1> HIDE DEF Nodes
<1>8. NodeAt(u) = Nodes(DetailedAt(u))
  BY <1>1, <1>7, NodeAtIsLastStep, DetailedAtIsLastTurn
<1> QED
  BY <1>8 DEF Nodes

\* at() and detailed_at() agree on trees where no node has both a ":id" child and others.
THEOREM AtAgreesHolds == IndexSpec => []AtAgrees
BY AtAgreesNow, IndexInvAlways, PTL

\* Match infos agree with how the index sees their url, at the time they are looked up.
AgreesWith(m, v, action) ==
  /\ m.result \in {"found", "not found", "malformed", "too long"}
  /\ m.action_found \in BOOLEAN /\ m.no_actions \in BOOLEAN
  /\ m.result = "found" => /\ v.targets = {m.node}
                           /\ m.action_found <=> action \in v.actions
                           /\ m.no_actions <=> v.actions = {}
  /\ m.result # "found" => v.targets = {} /\ v.actions = {} /\ ~m.action_found /\ m.no_actions

LEMMA ViewIs ==
  ASSUME IndexInv, NEW url \in Urls
  PROVE  LET m == DetailedAt(url)
         IN  /\ m.result \in {"found", "not found", "malformed", "too long"}
             /\ m.node \in nodes
             /\ View(url) = [targets |-> IF m.result = "found" THEN {m.node} ELSE {},
                             actions |-> IF m.result = "found" THEN ActionsOf(m.node) ELSE {}]
<1> DEFINE m == DetailedAt(url)
           targets == {n \in nodes : SizeCheck(url) = "found" /\ IsUrl(url) /\ Matches(url, n)}
<1>1. CASE SizeCheck(url) = "found"
  <2>1. url \in LookUps
    BY <1>1 DEF LookUps
  <2>2. m.result \in {"found", "not found", "malformed"} /\ m.node \in nodes
    BY <2>1, LookupHolds DEF TurnInv
  <2>3. \A n \in nodes : m.result = "found" /\ m.node = n <=> IsUrl(url) /\ Matches(url, n)
    BY <2>1, GreedyNow DEF LookupIsGreedy
  <2> HIDE DEF m
  <2>4. targets = IF m.result = "found" THEN {m.node} ELSE {}
    BY <1>1, <2>2, <2>3
  <2> HIDE DEF targets
  <2>5. UNION {ActionsOf(n) : n \in targets} = IF m.result = "found" THEN ActionsOf(m.node) ELSE {}
    BY <2>4
  <2>6. View(url) = [targets |-> targets, actions |-> UNION {ActionsOf(n) : n \in targets}]
    BY DEF View, targets
  <2> QED
    BY <2>2, <2>4, <2>5, <2>6 DEF m
<1>2. CASE SizeCheck(url) # "found"
  <2>1. m.result \in {"malformed", "too long"} /\ m.node = Root
    BY <1>2 DEF DetailedAt, At, SizeCheck
  <2> HIDE DEF m
  <2>2. targets = {}
    BY <1>2
  <2> HIDE DEF targets
  <2>3. UNION {ActionsOf(n) : n \in targets} = {}
    BY <2>2
  <2>4. View(url) = [targets |-> targets, actions |-> UNION {ActionsOf(n) : n \in targets}]
    BY DEF View, targets
  <2> QED
    BY <2>1, <2>2, <2>3, <2>4 DEF m, IndexInv
<1> QED
  BY <1>1, <1>2

LEMMA LookupAgrees ==
  ASSUME IndexInv, NEW url \in Urls, NEW action \in Actions
  PROVE  LET m == Lookup(url, action)
         IN  /\ AgreesWith(m, View(url), action)
             /\ m.node \in nodes
<1> DEFINE d == DetailedAt(url)
           m == Lookup(url, action)
           v == View(url)
<1>1. /\ d.result \in {"found", "not found", "malformed", "too long"}
      /\ d.node \in nodes
      /\ v = [targets |-> IF d.result = "found" THEN {d.node} ELSE {},
              actions |-> IF d.result = "found" THEN ActionsOf(d.node) ELSE {}]
  BY ViewIs
<1>2. m = [result       |-> d.result,
           node         |-> d.node,
           action_found |-> d.result = "found" /\ <<d.node, action>> \in entries,
           no_actions   |-> ~ (d.result = "found") \/ ActionsOf(d.node) = {}]
  BY DEF Lookup
<1> HIDE DEF d, m, v
<1>3. /\ m.result = d.result /\ m.node = d.node
      /\ m.action_found = (d.result = "found" /\ <<d.node, action>> \in entries)
      /\ m.no_actions = (~ (d.result = "found") \/ ActionsOf(d.node) = {})
  BY <1>2
<1>4. action \in ActionsOf(d.node) <=> <<d.node, action>> \in entries
  BY DEF ActionsOf
<1>5. CASE d.result = "found"
  <2>1. v.targets = {d.node} /\ v.actions = ActionsOf(d.node)
    BY <1>1, <1>5
  <2>2. AgreesWith(m, v, action)
    BY <1>3, <1>4, <1>5, <2>1 DEF AgreesWith
  <2> QED
    BY <1>1, <1>3, <2>2 DEF m, v
<1>6. CASE d.result # "found"
  <2>1. v.targets = {} /\ v.actions = {}
    BY <1>1, <1>6
  <2>2. AgreesWith(m, v, action)
    BY <1>1, <1>3, <1>6, <2>1 DEF AgreesWith
  <2> QED
    BY <1>1, <1>3, <2>2 DEF m, v
<1> QED
  BY <1>5, <1>6

ReplyTypes == [status : Statuses, by : SUBSET Handlers, allow : SUBSET Actions]

LEMMA AnswerIs ==
  ASSUME NEW status
  PROVE  Answer(status) = [status |-> status, by |-> {}, allow |-> {}]
BY DEF Answer, Unanswered

LEMMA AnswerBy ==
  ASSUME NEW status, NEW h
  PROVE  [Answer(status) EXCEPT !.by = h] = [status |-> status, by |-> h, allow |-> {}]
<1>1. PICK a : a = Answer(status)
  OBVIOUS
<1>2. a = [status |-> status, by |-> {}, allow |-> {}]
  BY <1>1, AnswerIs
<1>3. [a EXCEPT !.by = h] = [status |-> status, by |-> h, allow |-> {}]
  BY <1>2
<1> QED
  BY <1>1, <1>3

\* The three answers, case by case.
LEMMA CallbackIs ==
  ASSUME NEW m, NEW action, NEW outcome,
         m.action_found => m.result \notin {"too long", "malformed", "gone"}
  PROVE  CallbackMW(m, action, outcome) =
           IF m.result = "too long" THEN Answer("414")
           ELSE IF m.result = "malformed" THEN Answer("400")
           ELSE IF m.result = "gone" THEN Answer("500")
           ELSE IF m.action_found /\ <<m.node, action>> \in DOMAIN callbacks
             THEN [status |-> IF outcome = "replies" THEN "handler's" ELSE "500",
                   by |-> {callbacks[<<m.node, action>>]}, allow |-> {}]
           ELSE Unanswered
<1>1. \A status, h : [Answer(status) EXCEPT !.by = h] = [status |-> status, by |-> h, allow |-> {}]
  BY AnswerBy
<1> QED
  BY <1>1 DEF CallbackMW

LEMMA MetaIs ==
  ASSUME NEW m, NEW url, NEW action
  PROVE  MetaMW(m, url, action) =
           IF action = "OPTIONS" /\ url = Star THEN Answer("501")
           ELSE IF action = "TRACE" THEN Answer("500")
           ELSE IF action = "OPTIONS" /\ m.result = "found"
             THEN [status |-> "200", by |-> {}, allow |-> ListMatchedMethods(m)]
           ELSE Unanswered
<1>1. ASSUME NEW status, NEW allow
      PROVE  [Answer(status) EXCEPT !.allow = allow] = [status |-> status, by |-> {}, allow |-> allow]
  <2>1. PICK a : a = Answer(status)
    OBVIOUS
  <2>2. a = [status |-> status, by |-> {}, allow |-> {}]
    BY <2>1, AnswerIs
  <2>3. [a EXCEPT !.allow = allow] = [status |-> status, by |-> {}, allow |-> allow]
    BY <2>2
  <2> QED
    BY <2>1, <2>3
<1> QED
  BY <1>1 DEF MetaMW

LEMMA CatchAllIs ==
  ASSUME NEW m, NEW action, m.action_found \in BOOLEAN, m.no_actions \in BOOLEAN,
         m.result # "found" => ~m.action_found
  PROVE  CatchAllMW(m, action) =
           IF m.result # "found" THEN Answer("404")
           ELSE IF m.action_found THEN Answer("500")
           ELSE IF m.no_actions THEN Answer("404")
           ELSE IF action \in KnownMethods THEN Answer("405") ELSE Answer("501")
BY DEF CatchAllMW

\* The first answer is the response.
LEMMA FirstAnswer ==
  ASSUME NEW m, NEW url, NEW action, NEW outcome, CatchAllMW(m, action) # Unanswered
  PROVE  Response(m, url, action, outcome) =
           IF CallbackMW(m, action, outcome) # Unanswered THEN CallbackMW(m, action, outcome)
           ELSE IF MetaMW(m, url, action) # Unanswered THEN MetaMW(m, url, action)
           ELSE CatchAllMW(m, action)
<1>1. PICK c, d, k : c = CallbackMW(m, action, outcome) /\ d = MetaMW(m, url, action) /\ k = CatchAllMW(m, action)
  OBVIOUS
<1> DEFINE answers == <<c, d, k>>
           First(i) == answers[i] # Unanswered /\ \A j \in 1..(i - 1) : answers[j] = Unanswered
<1>2. Response(m, url, action, outcome) = answers[CHOOSE i \in 1..3 : First(i)]
  BY <1>1 DEF Response
<1>3. answers[1] = c /\ answers[2] = d /\ answers[3] = k
  OBVIOUS
<1> HIDE DEF answers
<1>4. \A i, j \in 1..3 : First(i) /\ First(j) => i = j
  OBVIOUS
<1>5. First(1) <=> c # Unanswered
  BY <1>3
<1>6. First(2) <=> d # Unanswered /\ c = Unanswered
  BY <1>3
<1>7. First(3) <=> c = Unanswered /\ d = Unanswered
  BY <1>1, <1>3
<1> HIDE DEF First
<1>8. /\ First(1) => (CHOOSE i \in 1..3 : First(i)) = 1
      /\ First(2) => (CHOOSE i \in 1..3 : First(i)) = 2
      /\ First(3) => (CHOOSE i \in 1..3 : First(i)) = 3
  BY <1>4
<1> QED
  BY <1>1, <1>2, <1>3, <1>5, <1>6, <1>7, <1>8

InfosTypes == [result : Results, node : nodes, action_found : BOOLEAN, no_actions : BOOLEAN]

\* The match infos of a request are not known, or were looked up at some time since it came.
RequestInv ==
  request # NoRequest =>
    /\ request \in [url : Urls, action : Actions, infos : InfosTypes]
    /\ IsFiniteSet(views) /\ View(request.url) \in views
    /\ request.infos \notin {Unknown, Gone} =>
         \E v \in views : AgreesWith(request.infos, v, request.action)

\* What the chain answers.
Chain(m, url, action, outcome) ==
  IF CallbackMW(m, action, outcome) # Unanswered THEN CallbackMW(m, action, outcome)
  ELSE IF MetaMW(m, url, action) # Unanswered THEN MetaMW(m, url, action)
  ELSE CatchAllMW(m, action)

\* m is what get_match_infos() may tell the middlewares of the request.
Informed(m) ==
  IF request.infos = Gone THEN m = Gone
  ELSE \E v \in views : AgreesWith(m, v, request.action)

\* The response is what the chain would still answer, nothing being registered meanwhile.
ReplyInv ==
  Replied =>
    /\ request # NoRequest
    /\ reply.outcome \in Outcomes
    /\ \E m : /\ Informed(m)
              /\ reply.response = Chain(m, request.url, request.action, reply.outcome)

CallbacksInv == DOMAIN callbacks \subseteq entries /\ callbacks \in [DOMAIN callbacks -> Handlers]

DispatchInv == IndexInv /\ CallbacksInv /\ RequestInv /\ ReplyInv

LEMMA DispatchInvInit == DispatchInit => DispatchInv
<1> SUFFICES ASSUME DispatchInit PROVE DispatchInv
  OBVIOUS
<1>1. IndexInv /\ CallbacksInv
  BY IndexInvInit DEF DispatchInit, CallbacksInv
<1>2. RequestInv /\ ReplyInv
  BY DEF DispatchInit, RequestInv, ReplyInv, Replied
<1> QED
  BY <1>1, <1>2 DEF DispatchInv

\* A registration changes the index and nothing of the request, which sees it from now on.
LEMMA RegistrationStep ==
  ASSUME DispatchInv, IndexInv', CallbacksInv', nodes \subseteq nodes', ~Replied, Observe,
         UNCHANGED <<request, reply>>
  PROVE  DispatchInv'
<1>1. ~Replied'
  BY DEF Replied
<1>2. RequestInv'
  <2> SUFFICES ASSUME request # NoRequest
               PROVE  /\ request \in [url : Urls, action : Actions, infos : InfosTypes']
                      /\ IsFiniteSet(views') /\ View(request.url)' \in views'
                      /\ request.infos \notin {Unknown, Gone} =>
                           \E v \in views' : AgreesWith(request.infos, v, request.action)
    BY DEF RequestInv
  <2>1. views' = views \cup {View(request.url)'}
    BY DEF Observe, Held
  <2>2. /\ request \in [url : Urls, action : Actions, infos : InfosTypes]
        /\ IsFiniteSet(views)
        /\ request.infos \notin {Unknown, Gone} =>
             \E v \in views : AgreesWith(request.infos, v, request.action)
    BY DEF DispatchInv, RequestInv
  <2>3. IsFiniteSet(views')
    BY <2>1, <2>2, FS_AddElement
  <2>4. request \in [url : Urls, action : Actions, infos : InfosTypes']
    BY <2>2 DEF InfosTypes
  <2> QED
    BY <2>1, <2>2, <2>3, <2>4
<1>3. ReplyInv'
  BY <1>1 DEF ReplyInv
<1> QED
  BY <1>2, <1>3 DEF DispatchInv

LEMMA RegisteredHandlers ==
  ASSUME CallbacksInv, NEW route, NEW action, NEW h \in Handlers, Register(route, action, h),
         entries' = entries \cup {<<route, action>>}
  PROVE  CallbacksInv'
<1> DEFINE e == <<route, action>>
           D == DOMAIN callbacks \cup {e}
<1>1. callbacks' = [f \in D |-> IF f = e THEN h ELSE callbacks[f]]
  BY DEF Register
<1>2. \A f \in DOMAIN callbacks : callbacks[f] \in Handlers
  BY DEF CallbacksInv
<1> HIDE DEF e
<1>3. DOMAIN callbacks' = D /\ callbacks' \in [D -> Handlers]
  BY <1>1, <1>2
<1>4. D \subseteq entries'
  BY DEF CallbacksInv, e
<1> QED
  BY <1>3, <1>4 DEF CallbacksInv

LEMMA OnStep ==
  ASSUME DispatchInv, NEW route \in Registrations,
         \/ \E action \in Actions : \/ \E h \in Handlers : On(route, action, h)
                                   \/ Share(route, action)
         \/ OnFails(route)
  PROVE  DispatchInv'
<1>1. IndexNext /\ ~Replied /\ Observe /\ UNCHANGED <<request, reply>>
  BY DEF On, Share, OnFails, IndexNext, Bounded
<1>2. IndexInv' /\ nodes \subseteq nodes'
  BY <1>1, IndexInvStep, NodesOnlyGrow DEF DispatchInv
<1>3. CallbacksInv'
  <2>1. ASSUME NEW action \in Actions, NEW h \in Handlers, On(route, action, h) PROVE CallbacksInv'
    BY <2>1, RegisteredHandlers DEF On, Ensure, DispatchInv
  <2>2. ASSUME NEW action \in Actions, Share(route, action) PROVE CallbacksInv'
    BY <2>2 DEF Share, Ensure, DispatchInv, CallbacksInv
  <2>3. CASE OnFails(route)
    BY <2>3 DEF OnFails, EnsureFails, DispatchInv, CallbacksInv
  <2> QED
    BY <2>1, <2>2, <2>3
<1> QED
  BY <1>1, <1>2, <1>3, RegistrationStep

LEMMA ViewSame ==
  ASSUME UNCHANGED <<nodes, entries>>, NEW url
  PROVE  View(url)' = View(url)
BY DEF View, Matches, ActionsOf

LEMMA ArriveStep ==
  ASSUME DispatchInv, NEW url \in Urls, NEW action \in Actions, Arrive(url, action)
  PROVE  DispatchInv'
<1>1. IndexInv' /\ CallbacksInv' /\ Root \in nodes /\ UNCHANGED <<nodes, entries>>
  BY DEF Arrive, DispatchInv, IndexInv, IndexTypeOK, TreeIsWellFormed, CallbacksInv
<1>2. ~Replied'
  BY DEF Arrive, DispatchInv, ReplyInv, Replied
<1>3. /\ request' = [url |-> url, action |-> action, infos |-> Unknown]
      /\ Unknown \in InfosTypes'
  BY <1>1 DEF Arrive, Unknown, InfosTypes, Results
<1>4. views' = {View(url)'} /\ IsFiniteSet(views')
  BY <1>1, ViewSame, FS_Singleton DEF Arrive
<1>5. RequestInv'
  BY <1>3, <1>4 DEF RequestInv
<1> QED
  BY <1>1, <1>2, <1>5 DEF DispatchInv, ReplyInv

\* What get_match_infos() returns, the session being there, was so at some time.
LEMMA InfosInformed ==
  ASSUME DispatchInv, request # NoRequest
  PROVE  /\ Informed(MatchInfos(request))
         /\ MatchInfos(request) \in InfosTypes
<1>1. /\ request.url \in Urls /\ request.action \in Actions /\ request.infos \in InfosTypes
      /\ View(request.url) \in views /\ IndexInv
  BY DEF DispatchInv, RequestInv
<1>2. CASE request.infos = Unknown
  <2>1. MatchInfos(request) = Lookup(request.url, request.action) /\ request.infos # Gone
    BY <1>2 DEF MatchInfos, Unknown, Gone
  <2>2. Informed(MatchInfos(request))
    BY <1>1, <2>1, LookupAgrees DEF Informed
  <2>3. MatchInfos(request) \in InfosTypes
    <3>1. PICK m : m = Lookup(request.url, request.action)
      OBVIOUS
    <3>2. /\ m.result \in Results /\ m.node \in nodes
          /\ m.action_found \in BOOLEAN /\ m.no_actions \in BOOLEAN
      BY <1>1, <3>1, LookupAgrees DEF AgreesWith, Results
    <3>3. m = [result |-> m.result, node |-> m.node,
               action_found |-> m.action_found, no_actions |-> m.no_actions]
      BY <3>1 DEF Lookup
    <3> QED
      BY <2>1, <3>1, <3>2, <3>3 DEF InfosTypes
  <2> QED
    BY <2>2, <2>3
<1>3. CASE request.infos # Unknown
  <2>1. MatchInfos(request) = request.infos
    BY <1>3 DEF MatchInfos
  <2> QED
    BY <1>1, <1>3, <2>1 DEF Informed, DispatchInv, RequestInv
<1> QED
  BY <1>2, <1>3

LEMMA PeekCloseStep ==
  ASSUME DispatchInv, Peek \/ Close PROVE DispatchInv'
<1>1. /\ IndexInv' /\ CallbacksInv' /\ UNCHANGED <<nodes, entries, views>>
      /\ ~Replied' /\ request # NoRequest /\ request.infos = Unknown
      /\ Root \in nodes
  BY DEF Peek, Close, Held, DispatchInv, IndexInv, IndexTypeOK, TreeIsWellFormed, CallbacksInv, Replied
<1>2. /\ request \in [url : Urls, action : Actions, infos : InfosTypes]
      /\ IsFiniteSet(views) /\ View(request.url) \in views
  BY <1>1 DEF DispatchInv, RequestInv
<1>3. PICK infos : /\ request' = [request EXCEPT !.infos = infos]
                   /\ infos \in InfosTypes
                   /\ infos \notin {Unknown, Gone} => \E v \in views : AgreesWith(infos, v, request.action)
  <2>1. CASE Peek
    <3>1. MatchInfos(request) \in InfosTypes /\ Informed(MatchInfos(request))
      BY <1>1, InfosInformed
    <3>2. \E v \in views : AgreesWith(MatchInfos(request), v, request.action)
      BY <1>1, <3>1 DEF Informed, Unknown, Gone
    <3> QED
      BY <2>1, <3>1, <3>2 DEF Peek
  <2>2. CASE Close
    BY <1>1, <2>2 DEF Close, Gone, Unknown, InfosTypes, Results
  <2> QED
    BY <2>1, <2>2
<1>4. /\ request' \in [url : Urls, action : Actions, infos : InfosTypes']
      /\ request'.url = request.url /\ request'.action = request.action /\ request'.infos = infos
  BY <1>1, <1>2, <1>3 DEF InfosTypes
<1>5. View(request.url)' \in views'
  <2>1. PICK url : url = request.url
    OBVIOUS
  <2>2. View(url)' = View(url)
    BY <1>1, ViewSame
  <2> QED
    BY <1>1, <1>2, <1>4, <2>1, <2>2
<1>6. RequestInv'
  BY <1>1, <1>2, <1>3, <1>4, <1>5 DEF RequestInv
<1> QED
  BY <1>1, <1>6 DEF DispatchInv, ReplyInv

\* What match infos are like, those of any request.
SoundInfos(m) ==
  /\ m.result \in {"found", "not found", "malformed", "too long", "gone"}
  /\ m.action_found \in BOOLEAN /\ m.no_actions \in BOOLEAN
  /\ m.result # "found" => ~m.action_found

LEMMA InformedFacts ==
  ASSUME NEW m, Informed(m)
  PROVE  SoundInfos(m) /\ (request.infos = Gone => m.result = "gone")
<1>1. CASE request.infos = Gone
  BY <1>1 DEF Informed, Gone, Unknown, SoundInfos
<1>2. CASE request.infos # Gone
  BY <1>2 DEF Informed, AgreesWith, SoundInfos
<1> QED
  BY <1>1, <1>2

\* The chain always answers.
LEMMA CatchAllAnswers ==
  ASSUME NEW m, NEW action, SoundInfos(m) PROVE CatchAllMW(m, action) # Unanswered
<1>1. \A status : status # "none" => Answer(status) # Unanswered
  BY AnswerIs DEF Unanswered
<1>2. /\ m.action_found \in BOOLEAN /\ m.no_actions \in BOOLEAN
      /\ m.result # "found" => ~m.action_found
  BY DEF SoundInfos
<1> QED
  BY <1>1, <1>2, CatchAllIs

LEMMA ChainSame ==
  ASSUME UNCHANGED <<entries, callbacks>>, NEW m, NEW url, NEW action, NEW outcome
  PROVE  Chain(m, url, action, outcome)' = Chain(m, url, action, outcome)
<1>1. /\ CallbackMW(m, action, outcome)' = CallbackMW(m, action, outcome)
      /\ MetaMW(m, url, action)' = MetaMW(m, url, action)
      /\ CatchAllMW(m, action)' = CatchAllMW(m, action)
  BY DEF CallbackMW, MetaMW, CatchAllMW, ListMatchedMethods, ActionsOf
<1> QED
  BY <1>1 DEF Chain

LEMMA ServeStep ==
  ASSUME DispatchInv, NEW outcome \in Outcomes, Serve(outcome) PROVE DispatchInv'
<1>1. /\ IndexInv' /\ CallbacksInv' /\ UNCHANGED <<nodes, entries, callbacks, request, views>>
      /\ request # NoRequest
  BY DEF Serve, Held, DispatchInv, IndexInv, IndexTypeOK, TreeIsWellFormed, CallbacksInv
<1>2. PICK m, url, action : m = MatchInfos(request) /\ url = request.url /\ action = request.action
  OBVIOUS
<1>3. Informed(m)
  BY <1>1, <1>2, InfosInformed
<1>4. Response(m, url, action, outcome) = Chain(m, url, action, outcome)
  BY <1>3, InformedFacts, CatchAllAnswers, FirstAnswer DEF Chain
<1>5. reply'.outcome = outcome /\ reply'.response = Chain(m, url, action, outcome)
  BY <1>2, <1>4 DEF Serve
<1>6. Informed(m)'
  BY <1>1, <1>3 DEF Informed
<1>7. ReplyInv'
  <2>1. reply'.response = Chain(m, url, action, outcome)'
    BY <1>1, <1>5, ChainSame
  <2> QED
    BY <1>1, <1>2, <1>5, <1>6, <2>1 DEF ReplyInv
<1>8. RequestInv'
  BY <1>1, ViewSame DEF DispatchInv, RequestInv, InfosTypes
<1> QED
  BY <1>1, <1>7, <1>8 DEF DispatchInv

LEMMA ReceiveStep ==
  ASSUME DispatchInv, Receive PROVE DispatchInv'
<1>1. IndexInv' /\ CallbacksInv'
  BY DEF Receive, DispatchInv, IndexInv, IndexTypeOK, TreeIsWellFormed, CallbacksInv
<1>2. RequestInv' /\ ReplyInv'
  BY DEF Receive, RequestInv, ReplyInv, Replied
<1> QED
  BY <1>1, <1>2 DEF DispatchInv

LEMMA StutterStep ==
  ASSUME DispatchInv, UNCHANGED dispatchVars PROVE DispatchInv'
<1>1. IndexInv' /\ CallbacksInv' /\ UNCHANGED <<nodes, entries, callbacks, request, views, reply>>
  BY DEF dispatchVars, DispatchInv, IndexInv, IndexTypeOK, TreeIsWellFormed, CallbacksInv
<1>2. RequestInv'
  BY <1>1, ViewSame DEF DispatchInv, RequestInv, InfosTypes
<1>3. ReplyInv'
  <2> SUFFICES ASSUME Replied PROVE ReplyInv'
    BY <1>1 DEF ReplyInv, Replied
  <2>1. PICK m : Informed(m) /\ reply.response = Chain(m, request.url, request.action, reply.outcome)
    BY DEF DispatchInv, ReplyInv
  <2>2. PICK url, action, outcome :
          url = request.url /\ action = request.action /\ outcome = reply.outcome
    OBVIOUS
  <2>3. Informed(m)'
    BY <1>1, <2>1 DEF Informed
  <2>4. reply'.response = Chain(m, url, action, outcome)'
    BY <1>1, <2>1, <2>2, ChainSame
  <2> QED
    BY <1>1, <2>2, <2>3, <2>4 DEF DispatchInv, ReplyInv
<1> QED
  BY <1>1, <1>2, <1>3 DEF DispatchInv

LEMMA DispatchInvStep == DispatchInv /\ [DispatchNext]_dispatchVars => DispatchInv'
BY OnStep, ArriveStep, PeekCloseStep, ServeStep, ReceiveStep, StutterStep DEF DispatchNext

LEMMA DispatchInvAlways == DispatchSpec => []DispatchInv
BY DispatchInvInit, DispatchInvStep, PTL DEF DispatchSpec

\* The response, case by case.
Cases(m, url, action, outcome, response) ==
  \/ m.result = "too long" /\ response = Answer("414")
  \/ m.result = "malformed" /\ response = Answer("400")
  \/ m.result = "gone" /\ response = Answer("500")
  \/ /\ m.action_found /\ <<m.node, action>> \in DOMAIN callbacks
     /\ response = [status |-> IF outcome = "replies" THEN "handler's" ELSE "500",
                    by |-> {callbacks[<<m.node, action>>]}, allow |-> {}]
  \/ /\ m.result \in {"found", "not found"}
     /\ ~ (m.action_found /\ <<m.node, action>> \in DOMAIN callbacks)
     /\ \/ action = "OPTIONS" /\ url = Star /\ response = Answer("501")
        \/ action = "TRACE" /\ response = Answer("500")
        \/ /\ action = "OPTIONS" /\ m.result = "found"
           /\ response = [status |-> "200", by |-> {}, allow |-> ListMatchedMethods(m)]
        \/ m.result # "found" /\ response = Answer("404")
        \/ m.result = "found" /\ m.action_found /\ response = Answer("500")
        \/ m.result = "found" /\ ~m.action_found /\ m.no_actions /\ response = Answer("404")
        \/ /\ m.result = "found" /\ ~m.action_found /\ ~m.no_actions /\ action # "OPTIONS"
           /\ \/ action \in KnownMethods /\ response = Answer("405")
              \/ action \notin KnownMethods /\ response = Answer("501")

LEMMA ChainIs ==
  ASSUME NEW m, SoundInfos(m), NEW url, NEW action, NEW outcome
  PROVE  Cases(m, url, action, outcome, Chain(m, url, action, outcome))
<1>1. /\ m.action_found \in BOOLEAN /\ m.no_actions \in BOOLEAN
      /\ m.result # "found" => ~m.action_found
      /\ m.action_found => m.result \notin {"too long", "malformed", "gone"}
      /\ m.result \in {"found", "not found", "malformed", "too long", "gone"}
  BY DEF SoundInfos
<1>2. \A status : status # "none" => Answer(status) # Unanswered
  BY AnswerIs DEF Unanswered
<1>3. PICK c, d, k : /\ c = CallbackMW(m, action, outcome) /\ d = MetaMW(m, url, action)
                     /\ k = CatchAllMW(m, action)
  OBVIOUS
<1>4. c = IF m.result = "too long" THEN Answer("414")
          ELSE IF m.result = "malformed" THEN Answer("400")
          ELSE IF m.result = "gone" THEN Answer("500")
          ELSE IF m.action_found /\ <<m.node, action>> \in DOMAIN callbacks
            THEN [status |-> IF outcome = "replies" THEN "handler's" ELSE "500",
                  by |-> {callbacks[<<m.node, action>>]}, allow |-> {}]
          ELSE Unanswered
  BY <1>1, <1>3, CallbackIs
<1>5. d = IF action = "OPTIONS" /\ url = Star THEN Answer("501")
          ELSE IF action = "TRACE" THEN Answer("500")
          ELSE IF action = "OPTIONS" /\ m.result = "found"
            THEN [status |-> "200", by |-> {}, allow |-> ListMatchedMethods(m)]
          ELSE Unanswered
  BY <1>3, MetaIs
<1>6. k = IF m.result # "found" THEN Answer("404")
          ELSE IF m.action_found THEN Answer("500")
          ELSE IF m.no_actions THEN Answer("404")
          ELSE IF action \in KnownMethods THEN Answer("405") ELSE Answer("501")
  <2>0. /\ m.action_found \in BOOLEAN /\ m.no_actions \in BOOLEAN
        /\ m.result # "found" => ~m.action_found
    BY <1>1
  <2>1. CatchAllMW(m, action) =
          IF m.result # "found" THEN Answer("404")
          ELSE IF m.action_found THEN Answer("500")
          ELSE IF m.no_actions THEN Answer("404")
          ELSE IF action \in KnownMethods THEN Answer("405") ELSE Answer("501")
    BY <2>0 DEF CatchAllMW
  <2> QED
    BY <1>3, <2>1
<1>7. \A by : /\ [status |-> "handler's", by |-> by, allow |-> {}] # Unanswered
              /\ [status |-> "500", by |-> by, allow |-> {}] # Unanswered
  BY DEF Unanswered
<1>8. \A allow : [status |-> "200", by |-> {}, allow |-> allow] # Unanswered
  BY DEF Unanswered
<1>9. Chain(m, url, action, outcome) = IF c # Unanswered THEN c ELSE IF d # Unanswered THEN d ELSE k
  BY <1>3 DEF Chain
<1>10. CASE m.result \in {"too long", "malformed", "gone"}
  <2>1. Chain(m, url, action, outcome) = c
    BY <1>2, <1>4, <1>9, <1>10
  <2> QED
    BY <1>4, <1>10, <2>1 DEF Cases
<1>11. CASE m.action_found /\ <<m.node, action>> \in DOMAIN callbacks
  <2>1. Chain(m, url, action, outcome) = c
    BY <1>1, <1>4, <1>7, <1>9, <1>11
  <2> QED
    BY <1>1, <1>4, <1>11, <2>1 DEF Cases
<1>12. CASE /\ m.result \notin {"too long", "malformed", "gone"}
            /\ ~ (m.action_found /\ <<m.node, action>> \in DOMAIN callbacks)
  <2>1. Chain(m, url, action, outcome) = IF d # Unanswered THEN d ELSE k
    BY <1>4, <1>9, <1>12
  <2>2. CASE d # Unanswered
    <3>1. Chain(m, url, action, outcome) = d
      BY <2>1, <2>2
    <3> QED
      BY <1>1, <1>5, <1>12, <2>2, <3>1 DEF Cases
  <2>3. CASE d = Unanswered
    <3>1. Chain(m, url, action, outcome) = k
      BY <2>1, <2>3
    <3>2. action = "OPTIONS" => m.result # "found"
      BY <1>2, <1>5, <1>8, <2>3
    <3> QED
      BY <1>1, <1>6, <1>12, <3>1, <3>2 DEF Cases
  <2> QED
    BY <2>2, <2>3
<1> QED
  BY <1>10, <1>11, <1>12

LEMMA DispatchTypeNow == DispatchInv => DispatchTypeOK
<1> SUFFICES ASSUME DispatchInv PROVE DispatchTypeOK
  OBVIOUS
<1>1. IndexTypeOK /\ \E E \in SUBSET entries : callbacks \in [E -> Handlers]
  BY DEF DispatchInv, IndexInv, CallbacksInv
<1>2. /\ request = NoRequest \/ (request.url \in Urls /\ request.action \in Actions)
      /\ request.infos.result \in Results /\ request.infos.node \in nodes
  <2>1. CASE request = NoRequest
    <3>1. request.infos = Unknown
      BY <2>1 DEF NoRequest
    <3>2. Unknown.result = "unknown" /\ Unknown.node = Root
      BY DEF Unknown
    <3> QED
      BY <2>1, <3>1, <3>2 DEF DispatchInv, IndexInv, Results
  <2>2. CASE request # NoRequest
    BY <2>2 DEF DispatchInv, RequestInv, InfosTypes
  <2> QED
    BY <2>1, <2>2
<1>3. reply.response \in ReplyTypes
  <2>1. CASE ~Replied
    BY <2>1 DEF Replied, NoReply, Unanswered, ReplyTypes, Statuses
  <2>2. CASE Replied
    <3>1. PICK m : Informed(m) /\ reply.response = Chain(m, request.url, request.action, reply.outcome)
      BY <2>2 DEF DispatchInv, ReplyInv
    <3>2. PICK url, action, outcome :
            url = request.url /\ action = request.action /\ outcome = reply.outcome
      OBVIOUS
    <3>3. Cases(m, url, action, outcome, reply.response)
      BY <3>1, <3>2, InformedFacts, ChainIs
    <3>4. \A status \in Statuses : Answer(status) \in ReplyTypes
      BY AnswerIs DEF ReplyTypes
    <3>5. ASSUME <<m.node, action>> \in DOMAIN callbacks
          PROVE  [status |-> IF outcome = "replies" THEN "handler's" ELSE "500",
                  by |-> {callbacks[<<m.node, action>>]}, allow |-> {}] \in ReplyTypes
      <4>1. callbacks[<<m.node, action>>] \in Handlers
        BY <3>5 DEF DispatchInv, CallbacksInv
      <4> QED
        BY <4>1 DEF ReplyTypes, Statuses
    <3>6. [status |-> "200", by |-> {}, allow |-> ListMatchedMethods(m)] \in ReplyTypes
      BY DEF ReplyTypes, Statuses, ListMatchedMethods, ActionsOf
    <3> QED
      BY <3>3, <3>4, <3>5, <3>6 DEF Cases, Statuses
  <2> QED
    BY <2>1, <2>2
<1> QED
  BY <1>1, <1>2, <1>3 DEF DispatchTypeOK, ReplyTypes

\* The state of the dispatch has its types: what is looked up is a node of the tree, and
\* only entries of the index have handlers.
THEOREM DispatchTypeCorrect == DispatchSpec => []DispatchTypeOK
BY DispatchTypeNow, DispatchInvAlways, PTL

LEMMA GoneNow == DispatchInv => GoneIsNotServed
<1> SUFFICES ASSUME DispatchInv, Replied, request.infos = Gone
             PROVE  reply.response = Answer("500")
  BY DEF GoneIsNotServed
<1>1. PICK m : Informed(m) /\ reply.response = Chain(m, request.url, request.action, reply.outcome)
  BY DEF DispatchInv, ReplyInv
<1>2. m.result = "gone" /\ ~m.action_found
  BY <1>1, InformedFacts DEF SoundInfos
<1>3. Cases(m, request.url, request.action, reply.outcome, reply.response)
  BY <1>1, InformedFacts, ChainIs
<1> QED
  BY <1>2, <1>3 DEF Cases

\* A request whose session was closed before anyone looked its match infos up is not served.
THEOREM GoneIsNotServedHolds == DispatchSpec => []GoneIsNotServed
BY GoneNow, DispatchInvAlways, PTL

\* A response that was received: how it was made, and as of when.
LEMMA ReplyFacts ==
  ASSUME DispatchInv, Replied
  PROVE  /\ request.url \in Urls /\ request.action \in Actions
         /\ IsFiniteSet(views) /\ View(request.url) \in views
         /\ reply.outcome \in Outcomes
         /\ \E m : /\ Informed(m)
                   /\ Cases(m, request.url, request.action, reply.outcome, reply.response)
<1>1. request # NoRequest /\ reply.outcome \in Outcomes
  BY DEF DispatchInv, ReplyInv
<1>2. PICK m : Informed(m) /\ reply.response = Chain(m, request.url, request.action, reply.outcome)
  BY DEF DispatchInv, ReplyInv
<1>3. Cases(m, request.url, request.action, reply.outcome, reply.response)
  BY <1>2, InformedFacts, ChainIs
<1>4. /\ request.url \in Urls /\ request.action \in Actions
      /\ IsFiniteSet(views) /\ View(request.url) \in views
  BY <1>1 DEF DispatchInv, RequestInv
<1> QED
  BY <1>1, <1>2, <1>3, <1>4

\* A request that nothing disturbed was seen in one way only.
LEMMA OneView ==
  ASSUME DispatchInv, Replied, Undisturbed
  PROVE  \A v \in views : v = View(request.url)
<1>1. IsFiniteSet(views) /\ View(request.url) \in views /\ Cardinality(views) = 1
  BY ReplyFacts DEF Undisturbed
<1> QED
  BY <1>1, FS_Singleton

LEMMA AnswerFields ==
  ASSUME NEW status
  PROVE  Answer(status).status = status /\ Answer(status).by = {} /\ Answer(status).allow = {}
<1>1. PICK a : a = Answer(status)
  OBVIOUS
<1>2. a = [status |-> status, by |-> {}, allow |-> {}]
  BY <1>1, AnswerIs
<1>3. a.status = status /\ a.by = {} /\ a.allow = {}
  BY <1>2
<1> QED
  BY <1>1, <1>3

\* Which function has handled the request.
LEMMA HandledBy ==
  ASSUME NEW m, NEW url, NEW action, NEW outcome, NEW response,
         SoundInfos(m), Cases(m, url, action, outcome, response)
  PROVE  IF m.action_found /\ <<m.node, action>> \in DOMAIN callbacks
         THEN /\ response.by = {callbacks[<<m.node, action>>]}
              /\ response.status = IF outcome = "replies" THEN "handler's" ELSE "500"
         ELSE response.by = {}
<1>1. CASE m.action_found /\ <<m.node, action>> \in DOMAIN callbacks
  <2>1. response = [status |-> IF outcome = "replies" THEN "handler's" ELSE "500",
                    by |-> {callbacks[<<m.node, action>>]}, allow |-> {}]
    BY <1>1 DEF Cases, SoundInfos
  <2> QED
    BY <1>1, <2>1
<1>2. CASE ~ (m.action_found /\ <<m.node, action>> \in DOMAIN callbacks)
  <2>1. \/ \E status : response = Answer(status)
        \/ response = [status |-> "200", by |-> {}, allow |-> ListMatchedMethods(m)]
    BY <1>2 DEF Cases
  <2>2. response.by = {}
    <3>1. CASE \E status : response = Answer(status)
      BY <3>1, AnswerFields
    <3>2. CASE response = [status |-> "200", by |-> {}, allow |-> ListMatchedMethods(m)]
      BY <3>2
    <3> QED
      BY <2>1, <3>1, <3>2
  <2> QED
    BY <1>2, <2>2
<1> QED
  BY <1>1, <1>2

LEMMA HandlerNow == DispatchInv => HandlerServes
<1> SUFFICES ASSUME DispatchInv, Replied, request.infos # Gone
             PROVE  /\ reply.response.by \subseteq UNION {HandlersOf(v.targets) : v \in views}
                    /\ Undisturbed => reply.response.by = HandlersOf(View(request.url).targets)
                    /\ reply.response.by # {} /\ reply.outcome # "replies" => reply.response.status = "500"
  BY DEF HandlerServes
<1>1. PICK url, action, outcome, response :
        /\ url = request.url /\ action = request.action
        /\ outcome = reply.outcome /\ response = reply.response
  OBVIOUS
<1>2. PICK m : Informed(m) /\ Cases(m, url, action, outcome, response)
  BY <1>1, ReplyFacts
<1>3. PICK v \in views : AgreesWith(m, v, action)
  BY <1>1, <1>2 DEF Informed
<1> DEFINE e == <<m.node, action>>
           handled == m.action_found /\ e \in DOMAIN callbacks
<1>4. IF handled THEN /\ response.by = {callbacks[e]}
                      /\ response.status = IF outcome = "replies" THEN "handler's" ELSE "500"
      ELSE response.by = {}
  BY <1>2, InformedFacts, HandledBy
<1>5. m.action_found => v.targets = {m.node}
  BY <1>3 DEF AgreesWith
<1>6. \A T : HandlersOf(T) = {callbacks[f] : f \in (T \X {action}) \cap DOMAIN callbacks}
  BY <1>1 DEF HandlersOf
<1>7. HandlersOf({m.node}) = IF e \in DOMAIN callbacks THEN {callbacks[e]} ELSE {}
  <2>1. ({m.node} \X {action}) \cap DOMAIN callbacks = IF e \in DOMAIN callbacks THEN {e} ELSE {}
    OBVIOUS
  <2> HIDE DEF e
  <2> QED
    BY <1>6, <2>1
<1> HIDE DEF e
<1>8. response.by \subseteq UNION {HandlersOf(w.targets) : w \in views}
  <2>1. CASE handled
    <3>1. response.by = HandlersOf(v.targets)
      BY <1>4, <1>5, <1>7, <2>1
    <3> QED
      BY <3>1
  <2>2. CASE ~handled
    BY <1>4, <2>2
  <2> QED
    BY <2>1, <2>2
<1>9. ASSUME Undisturbed PROVE response.by = HandlersOf(View(url).targets)
  <2>1. v = View(url)
    BY <1>1, <1>9, OneView
  <2>2. CASE m.result = "found"
    <3>1. v.targets = {m.node} /\ (m.action_found <=> action \in v.actions)
      BY <1>3, <2>2 DEF AgreesWith
    <3>2. e \in DOMAIN callbacks => action \in v.actions
      <4>1. ASSUME e \in DOMAIN callbacks PROVE action \in v.actions
        <5>1. <<m.node, action>> \in entries /\ action \in Actions
          BY <1>1, <4>1, ReplyFacts DEF DispatchInv, CallbacksInv, e
        <5>2. action \in ActionsOf(m.node)
          BY <5>1 DEF ActionsOf
        <5>3. v.targets = {n \in nodes : SizeCheck(url) = "found" /\ IsUrl(url) /\ Matches(url, n)}
              /\ v.actions = UNION {ActionsOf(n) : n \in v.targets}
          BY <2>1 DEF View
        <5> QED
          BY <3>1, <5>2, <5>3
      <4> QED
        BY <4>1
    <3>3. response.by = HandlersOf({m.node})
      BY <1>4, <1>7, <3>1, <3>2
    <3> QED
      BY <2>1, <3>1, <3>3
  <2>3. CASE m.result # "found"
    <3>1. v.targets = {} /\ ~m.action_found
      BY <1>3, <2>3 DEF AgreesWith
    <3>2. HandlersOf({}) = {} /\ response.by = {}
      BY <1>4, <1>6, <3>1
    <3> QED
      BY <2>1, <3>1, <3>2
  <2> QED
    BY <2>2, <2>3
<1>10. response.by # {} /\ outcome # "replies" => response.status = "500"
  BY <1>4
<1> QED
  BY <1>1, <1>8, <1>9, <1>10

\* A request is handled by a function registered for its action where its url led at some
\* time since it came, by the one that is there if nothing changed meanwhile.
THEOREM HandlerServesHolds == DispatchSpec => []HandlerServes
BY HandlerNow, DispatchInvAlways, PTL

\* The response by its status, case by case.
ByStatus(m, url, action, status, allow) ==
  \/ m.result = "too long" /\ status = "414"
  \/ m.result = "malformed" /\ status = "400"
  \/ m.result = "gone" /\ status = "500"
  \/ /\ m.action_found /\ <<m.node, action>> \in DOMAIN callbacks
     /\ status \in {"handler's", "500"}
  \/ /\ m.result \in {"found", "not found"}
     /\ ~ (m.action_found /\ <<m.node, action>> \in DOMAIN callbacks)
     /\ \/ action = "OPTIONS" /\ url = Star /\ status = "501"
        \/ action = "TRACE" /\ status = "500"
        \/ action = "OPTIONS" /\ m.result = "found" /\ status = "200" /\ allow = ListMatchedMethods(m)
        \/ m.result # "found" /\ status = "404"
        \/ m.result = "found" /\ m.action_found /\ status = "500"
        \/ m.result = "found" /\ ~m.action_found /\ m.no_actions /\ status = "404"
        \/ /\ m.result = "found" /\ ~m.action_found /\ ~m.no_actions /\ action # "OPTIONS"
           /\ \/ action \in KnownMethods /\ status = "405"
              \/ action \notin KnownMethods /\ status = "501"

LEMMA CasesByStatus ==
  ASSUME NEW m, NEW url, NEW action, NEW outcome, NEW response,
         Cases(m, url, action, outcome, response)
  PROVE  ByStatus(m, url, action, response.status, response.allow)
<1>1. PICK status, allow : status = response.status /\ allow = response.allow
  OBVIOUS
<1>2. \A s : response = Answer(s) => status = s
  BY <1>1, AnswerFields
<1>3. response = [status |-> "200", by |-> {}, allow |-> ListMatchedMethods(m)] =>
        status = "200" /\ allow = ListMatchedMethods(m)
  BY <1>1
<1>4. response = [status |-> IF outcome = "replies" THEN "handler's" ELSE "500",
                  by |-> {callbacks[<<m.node, action>>]}, allow |-> {}] =>
        status \in {"handler's", "500"}
  BY <1>1
<1>5. ByStatus(m, url, action, status, allow)
  BY <1>2, <1>3, <1>4 DEF Cases, ByStatus
<1> QED
  BY <1>1, <1>5

\* What the status of a response tells.
LEMMA StatusTells ==
  ASSUME NEW m, NEW url, NEW action, NEW status, NEW allow,
         SoundInfos(m), ByStatus(m, url, action, status, allow)
  PROVE  LET refused == m.result = "found" /\ ~m.action_found /\ ~m.no_actions
         IN  /\ status = "404" => m.result = "not found" \/ (m.result = "found" /\ m.no_actions)
             /\ status = "405" => refused /\ action \in KnownMethods
             /\ status = "501" => url = Star \/ (refused /\ action \notin KnownMethods)
             /\ status \in {"400", "414"} => m.result \in {"malformed", "too long"}
             /\ status = "200" => /\ m.result = "found" /\ action = "OPTIONS"
                                  /\ allow = ListMatchedMethods(m)
             /\ action \notin {"OPTIONS", "TRACE"} /\ m.result # "gone" =>
                  /\ status \in {"handler's", "500"} <=> m.action_found
                  /\ ~m.action_found /\ m.no_actions => status \in {"400", "404", "414"}
<1> DEFINE handled == m.action_found /\ <<m.node, action>> \in DOMAIN callbacks
<1>1. ByStatus(m, url, action, status, allow)
  OBVIOUS
<1>2. CASE m.result \in {"too long", "malformed", "gone"}
  <2>1. ~m.action_found
    BY <1>2 DEF SoundInfos
  <2>2. \/ m.result = "too long" /\ status = "414"
        \/ m.result = "malformed" /\ status = "400"
        \/ m.result = "gone" /\ status = "500"
    BY <1>1, <1>2, <2>1 DEF ByStatus
  <2> QED
    BY <2>1, <2>2
<1>3. CASE m.result \in {"found", "not found"} /\ handled
  <2>1. m.result = "found" /\ status \in {"handler's", "500"}
    BY <1>1, <1>3 DEF ByStatus, SoundInfos
  <2> QED
    BY <1>3, <2>1
<1>4. CASE m.result \in {"found", "not found"} /\ ~handled
  <2>1. \/ action = "OPTIONS" /\ url = Star /\ status = "501"
        \/ action = "TRACE" /\ status = "500"
        \/ /\ action = "OPTIONS" /\ m.result = "found"
           /\ status = "200" /\ allow = ListMatchedMethods(m)
        \/ m.result # "found" /\ status = "404"
        \/ m.result = "found" /\ m.action_found /\ status = "500"
        \/ m.result = "found" /\ ~m.action_found /\ m.no_actions /\ status = "404"
        \/ /\ m.result = "found" /\ ~m.action_found /\ ~m.no_actions /\ action # "OPTIONS"
           /\ \/ action \in KnownMethods /\ status = "405"
              \/ action \notin KnownMethods /\ status = "501"
    BY <1>1, <1>4 DEF ByStatus
  <2>2. m.result # "found" => ~m.action_found
    BY DEF SoundInfos
  <2> HIDE DEF handled
  <2> QED
    BY <1>4, <2>1, <2>2
<1> QED
  BY <1>2, <1>3, <1>4 DEF SoundInfos

LEMMA RefusalNow == DispatchInv => RefusalIsApt
<1> SUFFICES ASSUME DispatchInv, Replied
             PROVE  /\ \E v \in views : AptIn(v, reply.response.status, request.url, request.action)
                    /\ (\A v \in views : v.actions = {}) /\ request.action \notin {"OPTIONS", "TRACE"}
                       /\ request.infos # Gone =>
                         reply.response.status \in {"400", "404", "414"}
  BY DEF RefusalIsApt
<1>1. PICK url, action, outcome, response :
        /\ url = request.url /\ action = request.action
        /\ outcome = reply.outcome /\ response = reply.response
  OBVIOUS
<1>2. PICK m : Informed(m) /\ Cases(m, url, action, outcome, response)
  BY <1>1, ReplyFacts
<1>3. SoundInfos(m) /\ (request.infos = Gone => m.result = "gone")
  BY <1>2, InformedFacts
<1>4. PICK status, allow : status = response.status /\ allow = response.allow
  OBVIOUS
<1> DEFINE refused == m.result = "found" /\ ~m.action_found /\ ~m.no_actions
<1>5. /\ status = "404" => m.result = "not found" \/ (m.result = "found" /\ m.no_actions)
      /\ status = "405" => refused /\ action \in KnownMethods
      /\ status = "501" => url = Star \/ (refused /\ action \notin KnownMethods)
      /\ status \in {"400", "414"} => m.result \in {"malformed", "too long"}
      /\ action \notin {"OPTIONS", "TRACE"} /\ m.result # "gone" =>
           (~m.action_found /\ m.no_actions => status \in {"400", "404", "414"})
  <2>1. SoundInfos(m) /\ ByStatus(m, url, action, status, allow)
    BY <1>2, <1>3, <1>4, CasesByStatus
  <2> HIDE DEF refused
  <2> QED
    BY <2>1, StatusTells DEF refused
<1>6. CASE request.infos = Gone
  <2>1. status \notin {"404", "405", "400", "414"} /\ (status = "501" => url = Star)
    BY <1>3, <1>5, <1>6
  <2>2. AptIn(View(url), status, url, action)
    BY <2>1 DEF AptIn
  <2> QED
    BY <1>1, <1>4, <1>6, <2>2, ReplyFacts
<1>7. CASE request.infos # Gone
  <2>1. PICK v \in views : AgreesWith(m, v, action)
    BY <1>1, <1>2, <1>7 DEF Informed
  <2>2. AptIn(v, status, url, action)
    <3>1. /\ status = "404" => v.actions = {}
          /\ status = "405" => v.actions # {} /\ action \notin v.actions /\ action \in KnownMethods
          /\ status = "501" => url = Star \/ (v.actions # {} /\ action \notin v.actions /\ action \notin KnownMethods)
          /\ status \in {"400", "414"} => v.targets = {}
      BY <1>5, <2>1 DEF AgreesWith
    <3> QED
      BY <3>1 DEF AptIn
  <2>3. ASSUME \A w \in views : w.actions = {}, action \notin {"OPTIONS", "TRACE"}
        PROVE  status \in {"400", "404", "414"}
    <3>1. v.actions = {}
      BY <2>3
    <3>2. ~m.action_found /\ m.no_actions /\ m.result # "gone"
      BY <2>1, <3>1 DEF AgreesWith
    <3> QED
      BY <1>5, <2>3, <3>2
  <2> QED
    BY <1>1, <1>4, <2>2, <2>3
<1> QED
  BY <1>6, <1>7

\* What no handler serves is refused for the right reason, as of some time since the request
\* came, and 404 when it was a mere part of a route all the time.
THEOREM RefusalIsAptHolds == DispatchSpec => []RefusalIsApt
BY RefusalNow, DispatchInvAlways, PTL

LEMMA AllowNow == DispatchInv => AllowIsComplete
<1> SUFFICES ASSUME DispatchInv, Replied, reply.response.status = "200", Undisturbed,
                    "OPTIONS" \notin View(request.url).actions,
                    NEW a \in Actions \ {"OPTIONS", "TRACE"}
             PROVE  a \in reply.response.allow <=>
                      Response(Lookup(request.url, a), request.url, a, "replies").status
                        \in {"handler's", "500"}
  BY DEF AllowIsComplete
<1>1. PICK url, action, outcome, response, v :
        /\ url = request.url /\ action = request.action
        /\ outcome = reply.outcome /\ response = reply.response /\ v = View(url)
  OBVIOUS
<1>2. PICK m : Informed(m) /\ Cases(m, url, action, outcome, response)
  BY <1>1, ReplyFacts
<1>3. SoundInfos(m) /\ (request.infos = Gone => m.result = "gone")
  BY <1>2, InformedFacts
<1>4. m.result = "found" /\ action = "OPTIONS" /\ response.allow = ListMatchedMethods(m)
  <2>1. ByStatus(m, url, action, response.status, response.allow) /\ response.status = "200"
    BY <1>1, <1>2, CasesByStatus
  <2> QED
    BY <1>3, <2>1, StatusTells
<1>5. AgreesWith(m, v, action)
  <2>1. PICK w \in views : AgreesWith(m, w, action)
    BY <1>1, <1>2, <1>3, <1>4 DEF Informed
  <2>2. w = v
    BY <1>1, OneView
  <2> QED
    BY <2>1, <2>2
<1>6. v.targets = {m.node} /\ ~m.action_found
  BY <1>1, <1>4, <1>5 DEF AgreesWith
<1>7. v.actions = ActionsOf(m.node)
  <2>1. v.actions = UNION {ActionsOf(n) : n \in v.targets}
    BY <1>1 DEF View
  <2> QED
    BY <1>6, <2>1
<1>8. response.allow = v.actions
  BY <1>3, <1>4, <1>6, <1>7 DEF ListMatchedMethods
<1>9. PICK l : l = Lookup(url, a)
  OBVIOUS
<1>10. AgreesWith(l, v, a)
  BY <1>1, <1>9, ReplyFacts, LookupAgrees DEF DispatchInv
<1>11. SoundInfos(l) /\ l.result = "found" /\ (l.action_found <=> a \in v.actions)
  BY <1>6, <1>10 DEF AgreesWith, SoundInfos
<1>12. PICK answer : answer = Response(l, url, a, "replies")
  OBVIOUS
<1>13. Cases(l, url, a, "replies", answer)
  <2>1. answer = Chain(l, url, a, "replies")
    BY <1>11, <1>12, CatchAllAnswers, FirstAnswer DEF Chain
  <2> QED
    BY <1>11, <2>1, ChainIs
<1>14. answer.status \in {"handler's", "500"} <=> l.action_found
  <2>1. ByStatus(l, url, a, answer.status, answer.allow)
    BY <1>13, CasesByStatus
  <2> QED
    BY <1>11, <2>1, StatusTells
<1> QED
  BY <1>1, <1>8, <1>9, <1>11, <1>12, <1>14

\* The answer to OPTIONS lists the actions that are not refused and no other, if nothing
\* changed for the url since the request came.
THEOREM AllowIsCompleteHolds == DispatchSpec => []AllowIsComplete
BY AllowNow, DispatchInvAlways, PTL
================================================================================
