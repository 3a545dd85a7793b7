------------------------------- MODULE Endpoints -------------------------------
(***************************************************************************)
(* ObjectProxy: the adapters of an object, in groups by grid code, which   *)
(* the registry's answers add and remove and the servers' answers move     *)
(* from group to group.                                                    *)
(*                                                                         *)
(* The callers hold the ObjectProxy's lock in invoke and getEndpoint, the  *)
(* network thread in resetAdapterGrid.  The registry may list any servers  *)
(* in any answer, and any refresh may find that an answer has come, so     *)
(* when it was asked, and by which of the two ways, makes no difference.   *)
(* Which adapter of a group is chosen is in AdapterGroup; an adapter that  *)
(* has left the groups lives on while calls refer to it.                   *)
(***************************************************************************)
EXTENDS Integers, FiniteSets, Functions

CONSTANTS
  Hosts,
  Grids,        \* grid codes, integers
  Adapters,     \* places for AdapterProxys: those alive at once (bound)
  None

ASSUME GridsAssumption == Grids \subseteq Int
ASSUME NoneAssumption  == None \notin Grids

Endpoint == [host : Hosts, grid : Grids]

VARIABLES
  direct,     \* _isDirectProxy: the name has a list of endpoints, no registry is asked
  groups,     \* _adapterGroups
  ad,         \* the AdapterProxys: endpoint, _currentGridGroup, calls open
  known,      \* _activeEndpoints
  hasGrid     \* _serverHasGrid

vars == <<direct, groups, ad, known, hasGrid>>

Unused == [ep |-> None, grid |-> None, busy |-> FALSE]

NoAdapters == [a \in Adapters |-> Unused]

Made(e) == [ep |-> e, grid |-> e.grid, busy |-> FALSE]

InGroups(gs) == UNION {gs[g] : g \in DOMAIN gs}

TypeOK ==
  /\ direct \in BOOLEAN
  /\ DOMAIN groups \subseteq Grids /\ InGroups(groups) \subseteq Adapters
  /\ ad \in [Adapters -> {Unused} \cup [ep : Endpoint, grid : Grids, busy : BOOLEAN]]
  /\ known \subseteq Endpoint
  /\ hasGrid \in BOOLEAN

(***************************************************************************)
(* New AdapterProxys for a set of endpoints, one for each: which of those  *)
(* that are not used is left open.  They come into the groups of their     *)
(* endpoints' grid codes.                                                  *)
(***************************************************************************)
Makings(eps, x) ==
  UNION {Bijection(new, eps) : new \in SUBSET {a \in Adapters : x[a] = Unused}}

(* The same for a list that may have an endpoint more than once.           *)
Listings(eps, x) ==
  UNION {Surjection(new, eps) : new \in SUBSET {a \in Adapters : x[a] = Unused}}

NewAdapters(made, x) == [a \in Adapters |-> IF a \in DOMAIN made THEN Made(made[a]) ELSE x[a]]

With(gs, made) ==
  [g \in DOMAIN gs \cup {made[a].grid : a \in DOMAIN made} |->
     (IF g \in DOMAIN gs THEN gs[g] ELSE {}) \cup {a \in DOMAIN made : made[a].grid = g}]

(***************************************************************************)
(* initialize: the endpoints of a name with a list, as often as they are   *)
(* in it, or of the cache, which may be those of any earlier time.         *)
(***************************************************************************)
Init ==
  /\ direct \in BOOLEAN
  /\ \E eps \in SUBSET Endpoint :
     \E made \in IF direct THEN Listings(eps, NoAdapters) ELSE Makings(eps, NoAdapters) :
       /\ ad = NewAdapters(made, NoAdapters)
       /\ groups = With(<<>>, made)
       /\ known = eps
       /\ hasGrid = (Cardinality(DOMAIN groups) > 1)

-----------------------------------------------------------------------------
(***************************************************************************)
(* The registry's answers (external).  A server has one grid code at a     *)
(* time; _allGridValues also has the codes of servers that are not active. *)
(***************************************************************************)
Lists ==
  {{[host |-> h, grid |-> g[h]] : h \in {i \in Hosts : g[i] # None}} :
     g \in [Hosts -> Grids \cup {None}]}

fromEndpoints ==
  {r \in [eps : Lists, many : BOOLEAN] :
     Cardinality({e.grid : e \in r.eps}) > 1 => r.many}

(***************************************************************************)
(* refreshEndpointInfos with an answer.  An endpoint that is gone is       *)
(* looked for in the group of its own grid.                                *)
(***************************************************************************)
Here == [groups |-> groups, ad |-> ad, known |-> known, hasGrid |-> hasGrid]

Removed(del) ==
  [g \in DOMAIN groups |-> {a \in groups[g] : ~(ad[a].ep \in del /\ ad[a].ep.grid = g)}]

(* Adapters that no group and no call refers to are deleted.               *)
Kept(x, gs) ==
  [a \in Adapters |-> IF a \in InGroups(gs) \/ x[a].busy THEN x[a] ELSE Unused]

(* Mutant: the registry's list is remembered, not what the groups hold. *)
KnownAsListed(gs, x, eps) == eps

KnownNow(gs, x, eps) == {x[a].ep : a \in InGroups(gs)}

NothingNew(r) == r.eps = known

Refreshed(r, made) ==
  LET x == NewAdapters(made, ad)
      gs == With(Removed(known \ r.eps), made)
  IN  IF r.eps = {} THEN Here
      ELSE IF NothingNew(r) THEN [Here EXCEPT !.hasGrid = r.many]
      ELSE [groups |-> gs, ad |-> Kept(x, gs), known |-> KnownNow(gs, x, r.eps),
            hasGrid |-> r.many]

refreshEndpointInfos ==
  IF direct THEN {Here}
  ELSE {Here} \cup
       UNION {{Refreshed(r, made) : made \in Makings(r.eps \ known, ad)} : r \in fromEndpoints}

Becomes(s) ==
  /\ groups' = s.groups /\ known' = s.known /\ hasGrid' = s.hasGrid
  /\ UNCHANGED direct

getEndpoint == \E s \in refreshEndpointInfos : Becomes(s) /\ ad' = s.ad

(***************************************************************************)
(* invoke: selectAdapterProxy, for a call with grid code g or without one, *)
(* and the call itself, which may fail to be sent.                         *)
(***************************************************************************)
First(grids) == {g \in grids : \A h \in grids : g <= h}

selectAdapterProxy(s, g) ==
  LET of == IF g # None /\ s.hasGrid THEN {g} \cap DOMAIN s.groups ELSE First(DOMAIN s.groups)
  IN  UNION {s.groups[h] : h \in of}

invoke(g) ==
  \E s \in refreshEndpointInfos : \E a \in selectAdapterProxy(s, g) :
    Becomes(s) /\ ad' = [s.ad EXCEPT ![a].busy = TRUE]

-----------------------------------------------------------------------------
(***************************************************************************)
(* finished: an answer to a call of adapter a, from a server that may send *)
(* its grid code.  resetAdapterGrid moves the adapter with the endpoint of *)
(* a, if there is one in the group that a believes to be in.               *)
(***************************************************************************)
(* Mutant: the adapter is put into its new group and stays in the old one. *)
MovedAlso(b, from, to) ==
  [g \in DOMAIN groups \cup {to} |->
     (IF g \in DOMAIN groups THEN groups[g] ELSE {}) \cup (IF g = to THEN {b} ELSE {})]

Moved(b, from, to) ==
  [g \in DOMAIN groups \cup {to} |->
     IF g = to THEN (IF to \in DOMAIN groups THEN groups[to] ELSE {}) \cup {b}
     ELSE IF g = from THEN groups[from] \ {b}
     ELSE groups[g]]

resetAdapterGrid(a, to) ==
  LET from == ad[a].grid
  IN  /\ from \in DOMAIN groups /\ from # to
      /\ \E b \in groups[from] :
           /\ ad[b].ep = ad[a].ep
           /\ groups' = Moved(b, from, to)
      /\ hasGrid' = (Cardinality(DOMAIN groups') > 1)
      /\ ad' = [ad EXCEPT ![a].grid = to]

finished(a) ==
  /\ ad[a].busy
  /\ \/ \E to \in Grids : resetAdapterGrid(a, to)
     \/ ad' = Kept([ad EXCEPT ![a].busy = FALSE], groups) /\ UNCHANGED <<groups, hasGrid>>
  /\ UNCHANGED <<direct, known>>

Next ==
  \/ getEndpoint
  \/ \E g \in Grids \cup {None} : invoke(g)
  \/ \E a \in Adapters : finished(a)

Spec == Init /\ [][Next]_vars

-----------------------------------------------------------------------------
(***************************************************************************)
(* Properties.                                                             *)
(***************************************************************************)

(* Whatever the registry and the servers answer and in whatever order, an  *)
(* adapter is in one group at most, an endpoint has one adapter in them    *)
(* (but that of a list which names it more than once), and                 *)
(* _activeEndpoints, against which the next answer is compared, is what    *)
(* the groups hold.                                                        *)
EndpointsAreKnown ==
  /\ TypeOK
  /\ \A g, h \in DOMAIN groups : g # h => groups[g] \cap groups[h] = {}
  /\ ~direct => \A a, b \in InGroups(groups) : ad[a].ep = ad[b].ep => a = b
  /\ known = {ad[a].ep : a \in InGroups(groups)}

(* In every state that can be reached an answer with endpoints will be     *)
(* carried out in full, but for one case: an endpoint that is gone stays   *)
(* when a server's answer has moved its adapter to another group.          *)
OnlyMovedStay ==
  ~direct =>
    \A eps \in Lists \ {{}} : \A made \in Makings(eps \ known, ad) :
      LET s == Refreshed([eps |-> eps, many |-> TRUE], made)
      IN  /\ eps \subseteq s.known
          /\ \A g \in DOMAIN s.groups : \A a \in s.groups[g] :
               s.ad[a].ep \in eps \/ s.ad[a].ep.grid # g
==============================================================================
