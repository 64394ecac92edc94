------------------------------- MODULE RouteIndex -------------------------------
(***************************************************************************)
(* The REST index of the server: utils/route_indexed_container.js, a tree  *)
(* of route segments, and server/rest_target_indexed_shared_container.js,  *)
(* which keeps in each node one entry per action.                          *)
(*                                                                         *)
(* A node is named by its path from the root, so the tree is a set of      *)
(* paths.  A route is the sequence of its segments; the empty sequence is  *)
(* "/".  A route that does not start with "/" is refused as one that       *)
(* starts with an empty segment is, and is not told apart from it.         *)
(***************************************************************************)
EXTENDS Naturals, Sequences, SequencesExt

CONSTANTS Names,       \* the segments that validate_segment_() accepts
          BadNames,    \* those it refuses: "*", forbidden characters, too long
          Id,          \* ":id"
          Blank,       \* the empty segment
          Huge,        \* a segment longer than max_route_length
          MaxSegments, \* max_segment_count
          Actions,     \* the methods of requests
          Registrations, \* the routes that are registered
          Urls         \* the routes that are looked up

Segments == Names \cup BadNames \cup {Id, Blank, Huge}

ASSUME SegmentAssumption == /\ {Id, Blank, Huge} \cap (Names \cup BadNames) = {}
                            /\ Id # Blank /\ Id # Huge /\ Blank # Huge
                            /\ Names \cap BadNames = {}
ASSUME SizeAssumption == MaxSegments \in Nat
ASSUME RouteAssumption == Registrations \cup Urls \subseteq Seq(Segments)

VARIABLES nodes,   \* the nodes of the tree
          entries  \* <<node, action>> for each entry in a node's payload

indexVars == <<nodes, entries>>

Root == <<>>

IndexTypeOK ==
  /\ nodes \subseteq Seq(Names \cup {Id})
  /\ entries \subseteq nodes \X Actions

IndexInit == nodes = {Root} /\ entries = {}

--------------------------------------------------------------------------------
(***************************************************************************)
(* Lookup.                                                                 *)
(***************************************************************************)

HasIdChild(n) == Append(n, Id) \in nodes

\* Mutant of Child: the ":id" child comes first.
ChildIdFirst(n, segment) ==
  IF HasIdChild(n) THEN {Append(n, Id)} ELSE {Append(n, segment)} \cap nodes

\* Where detailed_at() goes from a node: the child of that name, else the ":id" child.
Child(n, segment) ==
  IF Append(n, segment) \in nodes THEN {Append(n, segment)}
  ELSE {Append(n, Id)} \cap nodes

\* An id is kept under a name, in the place of the one that was, if any.
KeepId(ids, name, id) == [k \in DOMAIN ids \cup {name} |-> IF k = name THEN id ELSE ids[k]]

\* Mutant of Reach: the id itself is lost, and the name of the node kept.
ReachNameless(m, n, segment) ==
  IF Last(n) # Id THEN [m EXCEPT !.node = n]
  ELSE [m EXCEPT !.node = n, !.last_id = segment, !.ids = KeepId(@, Last(n), segment)]

\* The match goes on to a node; an id is kept under the name of the parent of its node.
Reach(m, n, segment) ==
  IF Last(n) # Id THEN [m EXCEPT !.node = n]
  ELSE [m EXCEPT !.node = n, !.last_id = segment, !.ids = KeepId(@, n[Len(n) - 1], segment)]

\* Mutant of Descend: ":id" is allowed in what is looked up.
DescendAllowingId(m, segment) ==
  IF m.result # "found" THEN m
  ELSE IF segment = Blank THEN [m EXCEPT !.result = "malformed"]
  ELSE IF Child(m.node, segment) = {} THEN [m EXCEPT !.result = "not found"]
  ELSE CHOOSE r \in {Reach(m, n, segment) : n \in Child(m.node, segment)} : TRUE

\* One turn of the loop of detailed_at().
Descend(m, segment) ==
  IF m.result # "found" THEN m
  ELSE IF segment \in {Id, Blank} THEN [m EXCEPT !.result = "malformed"]
  ELSE IF Child(m.node, segment) = {} THEN [m EXCEPT !.result = "not found"]
  ELSE CHOOSE r \in {Reach(m, n, segment) : n \in Child(m.node, segment)} : TRUE

\* A match before its first segment: the root, and no ids.
At(result) == [result |-> result, node |-> Root, last_id |-> Blank, ids |-> <<>>]

\* The tests of find_and_optionally_create_node_(), before it enters the loop.
SizeCheck(route) ==
  IF Huge \in ToSet(route) THEN "too long"
  ELSE IF Len(route) > MaxSegments THEN "malformed"
  ELSE "found"

\* detailed_at(): the node that matches the route, or why there is none.
DetailedAt(route) ==
  LET turn[i \in 0..Len(route)] ==
        IF i = 0 THEN At("found") ELSE Descend(turn[i - 1], route[i])
  IN  IF SizeCheck(route) # "found" THEN At(SizeCheck(route)) ELSE turn[Len(route)]

\* Mutant of AtDescend: the ":id" child is not looked for.
AtDescendLiteral(found, segment) == {Append(n, segment) : n \in found} \cap nodes

\* The same for a single node, as at() goes: the ":id" child hides the others.
AtDescend(found, segment) ==
  {Append(n, IF HasIdChild(n) THEN Id ELSE segment) : n \in found} \cap nodes

\* at(): the node, in a set that is empty when there is none.
NodeAt(route) ==
  LET turn[i \in 0..Len(route)] ==
        IF i = 0 THEN {Root} ELSE AtDescend(turn[i - 1], route[i])
  IN  turn[Len(route)]

\* list_matched_methods(), given the node that detailed_at() found.
ActionsOf(n) == {a \in Actions : <<n, a>> \in entries}

--------------------------------------------------------------------------------
(***************************************************************************)
(* Registration.                                                           *)
(***************************************************************************)

Upto(route, i) == SubSeq(route, 1, i)

\* Neither the root nor an id is followed by an id.
IdMayStandAt(route, i) == i > 1 /\ route[i - 1] # Id

\* Mutant of Refused: an id may follow an id.
RefusedLax(route, i) ==
  \/ route[i] = Blank
  \/ Upto(route, i) \notin nodes /\ (route[i] \in BadNames \/ (route[i] = Id /\ i = 1))

\* ensure() throws at segment i: empty, or it cannot be made a new node.
Refused(route, i) ==
  \/ route[i] = Blank
  \/ /\ Upto(route, i) \notin nodes
     /\ route[i] \in BadNames \/ (route[i] = Id /\ ~IdMayStandAt(route, i))

Acceptable(route) ==
  /\ SizeCheck(route) = "found"
  /\ \A i \in DOMAIN route : ~Refused(route, i)

\* The container's ensure(): the missing nodes are created, for this action.
Ensure(route, action) ==
  /\ Acceptable(route)
  /\ nodes' = nodes \cup {Upto(route, i) : i \in 0..Len(route)}
  /\ entries' = entries \cup {<<route, action>>}

\* The same when a segment is refused: the nodes created before it stay.
EnsureFails(route) ==
  /\ SizeCheck(route) = "found"
  /\ \E i \in DOMAIN route :
       /\ Refused(route, i)
       /\ \A j \in 1..(i - 1) : ~Refused(route, j)
       /\ nodes' = nodes \cup {Upto(route, j) : j \in 0..(i - 1)}
  /\ UNCHANGED entries

IndexNext ==
  \/ \E route \in Registrations, action \in Actions : Ensure(route, action)
  \/ \E route \in Registrations : EnsureFails(route)

IndexSpec == IndexInit /\ [][IndexNext]_indexVars

--------------------------------------------------------------------------------
(***************************************************************************)
(* What the index promises.                                                *)
(***************************************************************************)

\* The tree is one (every node has its parent), no ":id" follows the root or another
\* ":id", and no node has a name that routes may not have; also after registrations
\* that failed half-way (route_indexed_container.js:213-223).
TreeIsWellFormed ==
  \A n \in nodes :
    /\ \A i \in 0..Len(n) : Upto(n, i) \in nodes
    /\ \A i \in DOMAIN n : n[i] \in Names \/ (n[i] = Id /\ IdMayStandAt(n, i))

\* n is where a route leads: from each node to its child of that name if it has one, and
\* to its ":id" child otherwise.
Matches(route, n) ==
  /\ Len(n) = Len(route)
  /\ \A i \in DOMAIN n : n[i] = IF Append(Upto(n, i - 1), route[i]) \in nodes THEN route[i]
                                ELSE Id

LookUps == {u \in Urls : SizeCheck(u) = "found"}

\* A url has neither empty segments nor ":id".
IsUrl(route) == {Id, Blank} \cap ToSet(route) = {}

\* detailed_at() finds a node when, and only when, a url leads there, and then finds
\* that node: a route that has been registered is served, under any id that is not the
\* name of a sibling, however the tree was built (route_indexed_container.js:180-254).
LookupIsGreedy ==
  \A u \in LookUps :
    LET m == DetailedAt(u)
    IN  \A n \in nodes : m.result = "found" /\ m.node = n <=> IsUrl(u) /\ Matches(u, n)

\* A handler finds the ids of its url under the names they follow, and a name repeated in
\* a route costs nothing but the earlier of its ids; there are no others, and last_id is
\* the last (route_indexed_container.js:239-246).
IdsOf(n) == {i \in DOMAIN n : n[i] = Id}
IdsAreKept ==
  \A u \in LookUps :
    LET m == DetailedAt(u)
        last(name) == CHOOSE i \in IdsOf(m.node) :
                        /\ m.node[i - 1] = name
                        /\ \A j \in IdsOf(m.node) : m.node[j - 1] = name => j <= i
    IN  m.result = "found" =>
          /\ DOMAIN m.ids = {m.node[i - 1] : i \in IdsOf(m.node)}
          /\ \A name \in DOMAIN m.ids : m.ids[name] = u[last(name)]
          /\ \A i \in IdsOf(m.node) : (\A j \in IdsOf(m.node) : j <= i) => m.last_id = u[i]

\* Registering a route, or failing to, changes what another one matches in one case
\* only: the new node has the name that stood for an id (route_indexed_container.js:
\* 200-209).
OnlyShadowed(u) ==
  LET m == DetailedAt(u)
  IN  m.result = "found" =>
        \/ DetailedAt(u)' = m
        \/ \E i \in DOMAIN m.node : m.node[i] = Id /\ Append(Upto(m.node, i - 1), u[i]) \in nodes'
OnlyShadowingDisturbs == [][\A u \in LookUps : OnlyShadowed(u)]_nodes

\* at() and detailed_at() are two separate traversals (route_indexed_container.js:
\* 117-137, 140-260): they agree on trees where no node has both a ":id" child and others.
Ambiguous(n) == HasIdChild(n) /\ \E name \in Names : Append(n, name) \in nodes
AtAgrees ==
  (\A n \in nodes : ~Ambiguous(n)) =>
    \A u \in LookUps : IsUrl(u) =>
      NodeAt(u) = IF DetailedAt(u).result = "found" THEN {DetailedAt(u).node} ELSE {}
================================================================================
