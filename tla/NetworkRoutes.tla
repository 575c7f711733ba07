---------------------------- MODULE NetworkRoutes ----------------------------
(***************************************************************************)
(* The node graph of a network and the three searches of RoutePlanner      *)
(* (network/network.py, topology.py, routing.py), with the ranking of      *)
(* candidate routes (planning.py, metrics/path.py).  A search runs to its  *)
(* end before anything else happens; one step of it is one iteration of    *)
(* the code's loop, or one call of its recursive function.  A route is the *)
(* sequence of its links.                                                  *)
(***************************************************************************)
EXTENDS Integers, FiniteSets, Sequences, SequencesExt

CONSTANTS Nodes,       \* node ids
          Links,       \* link ids; their order is the one ids are sorted in
          LinkEnds,        \* link -> [from, to, kind]
          CostTables,  \* the functions a caller may pass as link_cost
          Questions    \* the [source, target, kind, max] that are asked

ASSUME RoutesAssumption ==
  /\ Links \subseteq Nat
  /\ \A l \in Links : LinkEnds[l].from \in Nodes /\ LinkEnds[l].to \in Nodes
  /\ \A cost \in CostTables : cost \in [Links -> Nat]

VARIABLES nodes,   \* _nodes
          links,   \* _links
          search   \* the call on the stack

routesVars == <<nodes, links, search>>

NoSearch == [method |-> "none", done |-> FALSE]

RoutesInit == nodes = {} /\ links = {} /\ search = NoSearch

(* Names that are taken, and links between unknown nodes, are refused.     *)
AddNode(n) == /\ search = NoSearch /\ n \notin nodes
              /\ nodes' = nodes \cup {n} /\ UNCHANGED <<links, search>>

AddLink(l) == /\ search = NoSearch /\ l \notin links
              /\ LinkEnds[l].from \in nodes /\ LinkEnds[l].to \in nodes
              /\ links' = links \cup {l} /\ UNCHANGED <<nodes, search>>

(* _outgoing_edges_by_source: the links that leave a node, by their ids    *)
Outgoing(n, kind) ==
  SetToSortSeq({l \in links : LinkEnds[l].from = n /\ LinkEnds[l].kind = kind}, <)

(* What a step has in hand of the node it visits: each link and its node   *)
Extended(current, edges) ==
  [k \in DOMAIN edges |-> [at |-> LinkEnds[edges[k]].to, path |-> Append(current.path, edges[k])]]

Start(method, q, fields) ==
  /\ search = NoSearch /\ q.source \in nodes /\ q.target \in nodes
  /\ search' = [method |-> method, ask |-> q, done |-> FALSE, routes |-> <<>>] @@ fields
  /\ UNCHANGED <<nodes, links>>

Searching(method) == search.method = method /\ ~search.done

Answer(routes) == search' = [search EXCEPT !.done = TRUE, !.routes = routes]

Return == search.done /\ search' = NoSearch /\ UNCHANGED <<nodes, links>>

SameEnds == search.ask.source = search.ask.target
-----------------------------------------------------------------------------
(* fewest_hops_path: a queue of nodes with the path they were reached by   *)

StartFewestHops(q) ==
  Start("fewest hops", q,
        [queue |-> <<[at |-> q.source, path |-> <<>>]>>, visited |-> {q.source}])

(* A mistake: the queue is a stack.                                        *)
EnqueuedAsStack(queue, found) == Reverse(found) \o queue

Enqueued(queue, found) == queue \o found

(* Of parallel links to a new node only the first is followed.             *)
NotVisited(entries) ==
  LET new == {i \in DOMAIN entries :
                /\ entries[i].at \notin search.visited
                /\ \A j \in 1..(i - 1) : entries[j].at # entries[i].at}
  IN  [k \in 1..Cardinality(new) |-> entries[SetToSortSeq(new, <)[k]]]

VisitNext ==
  LET current == Head(search.queue)
      found   == NotVisited(Extended(current, Outgoing(current.at, search.ask.kind)))
      hits    == {k \in DOMAIN found : found[k].at = search.ask.target}
  IN  IF hits # {} THEN Answer(<<found[CHOOSE k \in hits : TRUE].path>>)
      ELSE search' = [search EXCEPT !.queue = Enqueued(Tail(@), found),
                                    !.visited = @ \cup {found[k].at : k \in DOMAIN found}]

FewestHopsStep ==
  /\ Searching("fewest hops")
  /\ IF SameEnds THEN Answer(<<<<>>>>)
     ELSE IF search.queue = <<>> THEN Answer(<<>>)
     ELSE VisitNext
  /\ UNCHANGED <<nodes, links>>
-----------------------------------------------------------------------------
(* lowest_cost_path: a heap of entries by cost, hops and order of entry    *)

StartLowestCost(q, cost) ==
  Start("lowest cost", q,
        [cost |-> cost, best |-> [n \in {q.source} |-> 0], entered |-> 1,
         heap |-> {[cost |-> 0, seq |-> 0, at |-> q.source, path |-> <<>>]}])

Key(e) == <<e.cost, Len(e.path), e.seq>>

PopsBefore(e, f) == \E i \in 1..3 : /\ Key(e)[i] < Key(f)[i]
                                    /\ \A j \in 1..(i - 1) : Key(e)[j] = Key(f)[j]

LeastEntry == CHOOSE e \in search.heap : \A f \in search.heap \ {e} : PopsBefore(e, f)

(* A mistake: the first way to a node is taken for the best.               *)
ImprovesIfNew(cost, n) == n \notin DOMAIN search.best

Improves(cost, n) == n \in DOMAIN search.best => cost < search.best[n]

(* The links of a node are followed in order: a parallel link has to beat  *)
(* those before it.                                                        *)
Relax(current) ==
  LET entries == Extended(current, Outgoing(current.at, search.ask.kind))
      costOf(i) == current.cost + search.cost[Last(entries[i].path)]
      better  == {i \in DOMAIN entries :
                    /\ Improves(costOf(i), entries[i].at)
                    /\ \A j \in 1..(i - 1) : entries[j].at = entries[i].at => costOf(i) < costOf(j)}
      rank(i) == Cardinality({j \in better : j < i})
      reached == {entries[i].at : i \in better}
  IN  search' = [search EXCEPT
        !.entered = @ + Cardinality(better),
        !.heap = (@ \ {current}) \cup
                   {[cost |-> costOf(i), seq |-> search.entered + rank(i)] @@ entries[i] :
                      i \in better},
        !.best = [n \in DOMAIN @ \cup reached |->
                    IF n \in reached
                    THEN Min({costOf(i) : i \in {j \in better : entries[j].at = n}})
                    ELSE @[n]]]

PopCheapest ==
  LET current == LeastEntry
  IN  IF current.cost > search.best[current.at]
      THEN search' = [search EXCEPT !.heap = @ \ {current}]
      ELSE IF current.at = search.ask.target THEN Answer(<<current.path>>)
      ELSE Relax(current)

LowestCostStep ==
  /\ Searching("lowest cost")
  /\ IF SameEnds THEN Answer(<<<<>>>>)
     ELSE IF search.heap = {} THEN Answer(<<>>)
     ELSE PopCheapest
  /\ UNCHANGED <<nodes, links>>
-----------------------------------------------------------------------------
(* paths_with_max_hops: visit, with the calls still to be made as a stack  *)

StartMaxHops(q, cost) ==
  Start("max hops", q, [cost |-> cost, calls |-> <<[at |-> q.source, path |-> <<>>]>>])

NodesOn(source, path) == {source} \cup {LinkEnds[path[i]].to : i \in DOMAIN path}

(* A mistake: the source may be visited again.                             *)
SeenWithoutSource(path) == NodesOn(search.ask.source, path) \ {search.ask.source}

Seen(path) == NodesOn(search.ask.source, path)

Visit ==
  LET call    == Head(search.calls)
      entries == Extended(call, Outgoing(call.at, search.ask.kind))
      further == SelectSeq(entries, LAMBDA e : e.at \notin Seen(call.path))
  IN  search' =
        IF call.at = search.ask.target
        THEN [search EXCEPT !.calls = Tail(@), !.routes = Append(@, call.path)]
        ELSE IF Len(call.path) = search.ask.max THEN [search EXCEPT !.calls = Tail(@)]
        ELSE [search EXCEPT !.calls = further \o Tail(@)]

TotalCost(cost, path) == FoldSeq(LAMBDA l, sum : cost[l] + sum, 0, path)

(* rank_routes: sorted by score, ties in the order of the candidates       *)
Ranked(routes, cost) ==
  LET score(i) == TotalCost(cost, routes[i])
      order == SetToSortSeq(DOMAIN routes,
                            LAMBDA i, j : score(i) < score(j) \/ (score(i) = score(j) /\ i < j))
  IN  [k \in DOMAIN order |-> routes[order[k]]]

MaxHopsStep ==
  /\ Searching("max hops")
  /\ IF search.calls = <<>>
     THEN search' = [search EXCEPT !.done = TRUE] @@
                    [ranked |-> Ranked(search.routes, search.cost)]
     ELSE Visit
  /\ UNCHANGED <<nodes, links>>

RoutesNext ==
  \/ \E n \in Nodes : AddNode(n)
  \/ \E l \in Links : AddLink(l)
  \/ \E q \in Questions :
       \/ StartFewestHops(q)
       \/ \E cost \in CostTables : StartLowestCost(q, cost) \/ StartMaxHops(q, cost)
  \/ FewestHopsStep \/ LowestCostStep \/ MaxHopsStep \/ Return

RoutesSpec == RoutesInit /\ [][RoutesNext]_routesVars
-----------------------------------------------------------------------------
(* What the answers are compared with: every route, built hop by hop from  *)
(* links that leave the last node for one not yet on the way               *)
RoutesOf(q) ==
  LET end(w) == IF w = <<>> THEN q.source ELSE LinkEnds[Last(w)].to
      goesOn(w, l) == /\ LinkEnds[l].kind = q.kind /\ LinkEnds[l].from = end(w)
                      /\ LinkEnds[l].to \notin NodesOn(q.source, w)
      walks[n \in Nat] ==
        IF n = 0 THEN {<<>>}
        ELSE UNION {{Append(w, l) : l \in {k \in links : goesOn(w, k)}} : w \in walks[n - 1]}
  IN  {w \in UNION {walks[n] : n \in 0..Cardinality(nodes)} : end(w) = q.target}

Found(method) == search.method = method /\ search.done
Cheaper(v, w) == TotalCost(search.cost, v) < TotalCost(search.cost, w)

(* The order of link ids, compared hop by hop                              *)
Precedes(v, w) == \E i \in DOMAIN v \cap DOMAIN w :
                    v[i] < w[i] /\ \A j \in 1..(i - 1) : v[j] = w[j]

(* A search for the fewest hops finds a route if there is one, none is     *)
(* shorter, and of those as short it is the first in the order of links.   *)
FewestHopsFound ==
  Found("fewest hops") =>
    LET all == RoutesOf(search.ask)
    IN  IF all = {} THEN search.routes = <<>>
        ELSE \E w \in all : /\ search.routes = <<w>>
                            /\ \A v \in all \ {w} : \/ Len(w) < Len(v)
                                                    \/ Len(w) = Len(v) /\ Precedes(w, v)

(* A search for the lowest cost finds a route if there is one, and none    *)
(* costs less, also when links cost nothing or run in parallel.            *)
LowestCostFound ==
  Found("lowest cost") =>
    LET all == RoutesOf(search.ask)
    IN  IF all = {} THEN search.routes = <<>>
        ELSE \E w \in all : search.routes = <<w>> /\ ~\E v \in all : Cheaper(v, w)

(* The candidates are exactly the routes of at most max hops, each once,   *)
(* in the order of links; the one ranked first is the first of those that  *)
(* cost least.                                                             *)
CandidatesComplete ==
  Found("max hops") =>
    LET all == {w \in RoutesOf(search.ask) : Len(w) <= search.ask.max}
    IN  /\ ToSet(search.routes) = all /\ Len(search.routes) = Cardinality(all)
        /\ \A i, j \in DOMAIN search.routes : i < j => Precedes(search.routes[i], search.routes[j])
        /\ all # {} => \A w \in all \ {search.ranked[1]} :
                         \/ Cheaper(search.ranked[1], w)
                         \/ ~Cheaper(w, search.ranked[1]) /\ Precedes(search.ranked[1], w)
=============================================================================
