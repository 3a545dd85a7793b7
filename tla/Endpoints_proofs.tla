--------------------------- MODULE Endpoints_proofs ---------------------------
(***************************************************************************)
(* Proofs about Endpoints, for any servers and grid codes and any number   *)
(* of adapters: groups, adapters and the list of known endpoints agree     *)
(* whatever the registry and the servers answer, and an answer is carried  *)
(* out but for the endpoints whose adapters have been moved.               *)
(***************************************************************************)
EXTENDS MCEndpoints, QueueLemmas, TLAPS

-----------------------------------------------------------------------------
(***************************************************************************)
(* The inductive invariant: the groups hold adapters that are in use, each *)
(* in one group, one for each of the endpoints that are known (for those   *)
(* of a list of the name's, one or more).                                  *)
(***************************************************************************)
AdapterProxy == [ep : Endpoint, grid : Grids, busy : BOOLEAN]

Proxies == [Adapters -> {Unused} \cup AdapterProxy]

Holds(gs, x, eps) ==
  /\ DOMAIN gs \subseteq Grids /\ \A g \in DOMAIN gs : gs[g] \subseteq Adapters
  /\ \A g, h \in DOMAIN gs : g # h => gs[g] \cap gs[h] = {}
  /\ \A a \in InGroups(gs) : x[a] \in AdapterProxy
  /\ ~direct => \A a, b \in InGroups(gs) : x[a].ep = x[b].ep => a = b
  /\ eps = {x[a].ep : a \in InGroups(gs)}

Agrees(s) ==
  /\ s.ad \in Proxies /\ s.hasGrid \in BOOLEAN
  /\ Holds(s.groups, s.ad, s.known)

IndInv == direct \in BOOLEAN /\ Agrees(Here)

-----------------------------------------------------------------------------
(***************************************************************************)
(* Lemmas about the operators.                                             *)
(***************************************************************************)
LEMMA GroupMembers ==
  ASSUME NEW gs, NEW a
  PROVE  a \in InGroups(gs) <=> \E g \in DOMAIN gs : a \in gs[g]
BY DEF InGroups

LEMMA UnusedIsNoProxy ==
  /\ Unused \notin AdapterProxy /\ Unused.busy = FALSE
  /\ \A p \in AdapterProxy : p.ep \in Endpoint /\ p.ep.grid \in Grids
<1>1. Unused.busy = FALSE /\ Unused.grid = None
  BY DEF Unused
<1>2. Unused \notin AdapterProxy
  BY <1>1, NoneAssumption DEF AdapterProxy
<1>3. \A p \in AdapterProxy : p.ep \in Endpoint /\ p.ep.grid \in Grids
  BY DEF AdapterProxy, Endpoint
<1> QED BY <1>1, <1>2, <1>3

LEMMA MadeIsProxy ==
  ASSUME NEW e \in Endpoint
  PROVE  Made(e) \in AdapterProxy /\ Made(e).ep = e /\ e.grid \in Grids
<1>1. e.grid \in Grids
  BY DEF Endpoint
<1> QED BY <1>1 DEF Made, AdapterProxy

(* New adapters are made of unused ones, for each of the endpoints one, or *)
(* for a list one or more.                                                 *)
LEMMA MadeOfUnused ==
  ASSUME NEW x, NEW eps, NEW made,
         made \in IF direct THEN Listings(eps, x) ELSE Makings(eps, x)
  PROVE  /\ \A a \in DOMAIN made : a \in Adapters /\ x[a] = Unused /\ made[a] \in eps
         /\ ~direct => \A a, b \in DOMAIN made : made[a] = made[b] => a = b
         /\ \A e \in eps : \E a \in DOMAIN made : made[a] = e
<1>1. PICK new \in SUBSET {a \in Adapters : x[a] = Unused} :
        made \in Surjection(new, eps) /\ (~direct => made \in Injection(new, eps))
  BY DEF Makings, Listings, Bijection
<1>2. /\ made \in [new -> eps] /\ \A e \in eps : \E a \in new : made[a] = e
      /\ ~direct => IsInjective(made)
  BY <1>1 DEF Injection, Surjection
<1> QED BY <1>1, <1>2 DEF IsInjective

(* The adapters of groups hs: those for eps, and some that gs had.         *)
NewOrOld(hs, y, eps, gs, x) ==
  \A g \in DOMAIN hs : \A a \in hs[g] :
    y[a].ep \in eps \/ (g \in DOMAIN gs /\ a \in gs[g] /\ y[a] = x[a])

(* Adapters for endpoints that are new, in the groups of their grid codes. *)
LEMMA AddedAreHeld ==
  ASSUME NEW x \in Proxies, NEW gs, NEW old, Holds(gs, x, old),
         NEW eps \in SUBSET Endpoint, eps \cap old = {}, NEW made,
         made \in IF direct THEN Listings(eps, x) ELSE Makings(eps, x)
  PROVE  /\ NewAdapters(made, x) \in Proxies
         /\ Holds(With(gs, made), NewAdapters(made, x), old \cup eps)
         /\ NewOrOld(With(gs, made), NewAdapters(made, x), eps, gs, x)
<1> DEFINE y == NewAdapters(made, x)
           hs == With(gs, made)
           D == DOMAIN made
<1>1. /\ \A a \in D : a \in Adapters /\ x[a] = Unused /\ made[a] \in eps
      /\ ~direct => \A a, b \in D : made[a] = made[b] => a = b
      /\ \A e \in eps : \E a \in D : made[a] = e
  BY MadeOfUnused
<1>2. \A a \in Adapters : y[a] = IF a \in D THEN Made(made[a]) ELSE x[a]
  BY DEF NewAdapters
<1>3. \A a \in D : /\ y[a] = Made(made[a]) /\ y[a].ep = made[a] /\ y[a] \in AdapterProxy
                   /\ made[a].grid \in Grids
  <2> SUFFICES ASSUME NEW a \in D
               PROVE  /\ y[a] = Made(made[a]) /\ y[a].ep = made[a] /\ y[a] \in AdapterProxy
                      /\ made[a].grid \in Grids
    OBVIOUS
  <2>1. made[a] \in Endpoint /\ a \in Adapters
    BY <1>1
  <2>2. y[a] = Made(made[a])
    BY <1>2, <2>1
  <2> QED BY <2>1, <2>2, MadeIsProxy
<1>4. y \in Proxies
  <2>1. y = [a \in Adapters |-> IF a \in D THEN Made(made[a]) ELSE x[a]]
    BY DEF NewAdapters
  <2>2. \A a \in Adapters : y[a] \in {Unused} \cup AdapterProxy
    BY <1>2, <1>3 DEF Proxies
  <2> QED BY <2>1, <2>2 DEF Proxies
<1>5. /\ DOMAIN hs = DOMAIN gs \cup {made[a].grid : a \in D}
      /\ \A g \in DOMAIN hs :
           hs[g] = (IF g \in DOMAIN gs THEN gs[g] ELSE {}) \cup {a \in D : made[a].grid = g}
  BY DEF With
<1> HIDE DEF y, hs, D
<1>6. \A a \in InGroups(gs) : a \in Adapters /\ a \notin D /\ y[a] = x[a] /\ x[a] \in AdapterProxy
  BY <1>1, <1>2, GroupMembers, UnusedIsNoProxy DEF Holds
<1>7. \A g \in DOMAIN hs : \A a \in hs[g] :
        (g \in DOMAIN gs /\ a \in gs[g] /\ a \in InGroups(gs)) \/ (a \in D /\ made[a].grid = g)
  BY <1>5, GroupMembers
<1>8. \A a : a \in InGroups(hs) <=> a \in InGroups(gs) \/ a \in D
  <2>1. \A g \in DOMAIN gs : g \in DOMAIN hs /\ gs[g] \subseteq hs[g]
    BY <1>5
  <2>2. \A a \in D : made[a].grid \in DOMAIN hs /\ a \in hs[made[a].grid]
    BY <1>5
  <2> QED BY <1>7, <2>1, <2>2, GroupMembers
<1>9. DOMAIN hs \subseteq Grids /\ \A g \in DOMAIN hs : hs[g] \subseteq Adapters
  BY <1>1, <1>3, <1>5, <1>6, <1>7 DEF Holds
<1>10. \A g, h \in DOMAIN hs : g # h => hs[g] \cap hs[h] = {}
  <2> SUFFICES ASSUME NEW g \in DOMAIN hs, NEW h \in DOMAIN hs, NEW a \in hs[g], a \in hs[h] PROVE g = h
    OBVIOUS
  <2>1. (g \in DOMAIN gs /\ a \in gs[g] /\ a \in InGroups(gs)) \/ (a \in D /\ made[a].grid = g)
    BY <1>7
  <2>2. (h \in DOMAIN gs /\ a \in gs[h] /\ a \in InGroups(gs)) \/ (a \in D /\ made[a].grid = h)
    BY <1>7
  <2> QED BY <1>6, <2>1, <2>2 DEF Holds
<1>11. \A a \in InGroups(hs) : y[a] \in AdapterProxy
  BY <1>3, <1>6, <1>8
<1>12. \A a \in InGroups(gs) : y[a].ep \in old /\ y[a].ep \notin eps
  BY <1>6 DEF Holds
<1>13. ~direct => \A a, b \in InGroups(hs) : y[a].ep = y[b].ep => a = b
  <2> SUFFICES ASSUME ~direct, NEW a \in InGroups(hs), NEW b \in InGroups(hs), y[a].ep = y[b].ep PROVE a = b
    OBVIOUS
  <2>1. CASE a \in InGroups(gs) /\ b \in InGroups(gs)
    BY <1>6, <2>1 DEF Holds
  <2>2. CASE a \in D /\ b \in D
    BY <1>1, <1>3, <2>2
  <2>3. \A c \in D : y[c].ep \in eps
    BY <1>1, <1>3
  <2> QED BY <1>8, <1>12, <2>1, <2>2, <2>3
<1>14. old \cup eps = {y[a].ep : a \in InGroups(hs)}
  <2>1. ASSUME NEW e \in old PROVE \E a \in InGroups(hs) : y[a].ep = e
    BY <1>6, <1>8 DEF Holds
  <2>2. ASSUME NEW e \in eps PROVE \E a \in InGroups(hs) : y[a].ep = e
    BY <1>1, <1>3, <1>8
  <2>3. ASSUME NEW a \in InGroups(hs) PROVE y[a].ep \in old \cup eps
    BY <1>1, <1>3, <1>8, <1>12
  <2> QED BY <2>1, <2>2, <2>3
<1>15. NewOrOld(hs, y, eps, gs, x)
  BY <1>1, <1>3, <1>6, <1>7 DEF NewOrOld
<1> QED BY <1>4, <1>9, <1>10, <1>11, <1>13, <1>14, <1>15 DEF Holds, y, hs

(* Fewer adapters in the same groups.                                      *)
LEMMA FewerAreHeld ==
  ASSUME NEW x, NEW gs, NEW eps, Holds(gs, x, eps),
         NEW hs, DOMAIN hs = DOMAIN gs, \A g \in DOMAIN gs : hs[g] \subseteq gs[g]
  PROVE  /\ Holds(hs, x, {x[a].ep : a \in InGroups(hs)})
         /\ \A a \in InGroups(hs) : a \in InGroups(gs)
<1>1. \A a \in InGroups(hs) : a \in InGroups(gs)
  BY GroupMembers
<1>2. \A g, h \in DOMAIN hs : g # h => hs[g] \cap hs[h] = {}
  BY DEF Holds
<1>3. DOMAIN hs \subseteq Grids /\ \A g \in DOMAIN hs : hs[g] \subseteq Adapters
  BY DEF Holds
<1>4. /\ \A a \in InGroups(hs) : x[a] \in AdapterProxy
      /\ ~direct => \A a, b \in InGroups(hs) : x[a].ep = x[b].ep => a = b
  BY <1>1 DEF Holds
<1> QED BY <1>1, <1>2, <1>3, <1>4 DEF Holds

(* An adapter goes when its endpoint does, unless it has been moved.       *)
LEMMA RemovedAreGone ==
  ASSUME IndInv, NEW del
  PROVE  LET gs == Removed(del)
             left == {ad[a].ep : a \in InGroups(gs)}
         IN  /\ Holds(gs, ad, left)
             /\ known \ del \subseteq left /\ left \subseteq known
             /\ DOMAIN gs = DOMAIN groups
             /\ \A g \in DOMAIN gs : \A a \in gs[g] :
                  a \in InGroups(groups) /\ (ad[a].ep \notin del \/ ad[a].ep.grid # g)
<1> DEFINE gs == Removed(del)
           left == {ad[a].ep : a \in InGroups(gs)}
<1>1. Holds(groups, ad, known)
  BY DEF IndInv, Agrees, Here
<1>2. /\ DOMAIN gs = DOMAIN groups
      /\ \A g \in DOMAIN gs : gs[g] = {a \in groups[g] : ~(ad[a].ep \in del /\ ad[a].ep.grid = g)}
  BY DEF Removed
<1> HIDE DEF gs
<1>3. Holds(gs, ad, left) /\ \A a \in InGroups(gs) : a \in InGroups(groups)
  BY <1>1, <1>2, FewerAreHeld
<1>4. left \subseteq known
  BY <1>1, <1>3 DEF Holds
<1>5. ASSUME NEW e \in known, e \notin del PROVE e \in left
  <2>1. PICK a \in InGroups(groups) : ad[a].ep = e
    BY <1>1 DEF Holds
  <2>2. a \in InGroups(gs)
    BY <1>2, <1>5, <2>1, GroupMembers
  <2> QED BY <2>1, <2>2
<1>6. \A g \in DOMAIN gs : \A a \in gs[g] :
        a \in InGroups(groups) /\ (ad[a].ep \notin del \/ ad[a].ep.grid # g)
  BY <1>2, GroupMembers
<1> QED BY <1>2, <1>3, <1>4, <1>5, <1>6 DEF gs

(* The adapters of the groups are kept.                                    *)
LEMMA KeptAreHeld ==
  ASSUME NEW x \in Proxies, NEW gs, NEW eps, Holds(gs, x, eps)
  PROVE  /\ Kept(x, gs) \in Proxies /\ Holds(gs, Kept(x, gs), eps)
         /\ \A a \in InGroups(gs) : Kept(x, gs)[a] = x[a]
<1> DEFINE y == Kept(x, gs)
<1>1. \A a \in InGroups(gs) : a \in Adapters
  BY GroupMembers DEF Holds
<1>2. \A a \in Adapters : y[a] = IF a \in InGroups(gs) \/ x[a].busy THEN x[a] ELSE Unused
  BY DEF Kept
<1>3. y \in Proxies
  <2>1. y = [a \in Adapters |-> IF a \in InGroups(gs) \/ x[a].busy THEN x[a] ELSE Unused]
    BY DEF Kept
  <2>2. \A a \in Adapters : y[a] \in {Unused} \cup AdapterProxy
    BY <1>2 DEF Proxies
  <2> QED BY <2>1, <2>2 DEF Proxies
<1>4. \A a \in InGroups(gs) : y[a] = x[a]
  BY <1>1, <1>2
<1> HIDE DEF y
<1>5. Holds(gs, y, eps)
  <2>1. eps = {y[a].ep : a \in InGroups(gs)}
    BY <1>4 DEF Holds
  <2> QED BY <1>4, <2>1 DEF Holds
<1> QED BY <1>3, <1>4, <1>5 DEF y

-----------------------------------------------------------------------------
(***************************************************************************)
(* A refresh, with any answer.                                             *)
(***************************************************************************)
LEMMA ListedAreEndpoints ==
  ASSUME NEW r \in fromEndpoints
  PROVE  r.eps \subseteq Endpoint /\ r.many \in BOOLEAN /\ r.eps \in Lists
<1>1. r \in [eps : Lists, many : BOOLEAN]
  BY DEF fromEndpoints
<1>2. r.eps \in Lists
  BY <1>1
<1>5. r.many \in BOOLEAN
  BY <1>1
<1>3. PICK g \in [Hosts -> Grids \cup {None}] :
        r.eps = {[host |-> h, grid |-> g[h]] : h \in {i \in Hosts : g[i] # None}}
  BY <1>2 DEF Lists
<1>4. \A h \in Hosts : g[h] # None => [host |-> h, grid |-> g[h]] \in Endpoint
  BY <1>3 DEF Endpoint
<1> QED BY <1>2, <1>3, <1>4, <1>5

LEMMA RefreshedAgrees ==
  ASSUME IndInv, ~direct, NEW r, r.eps \subseteq Endpoint, r.many \in BOOLEAN,
         NEW made \in Makings(r.eps \ known, ad)
  PROVE  LET s == Refreshed(r, made)
         IN  /\ Agrees(s)
             /\ r.eps # {} =>
                  /\ r.eps \subseteq s.known
                  /\ \A g \in DOMAIN s.groups : \A a \in s.groups[g] :
                       s.ad[a].ep \in r.eps \/ s.ad[a].ep.grid # g
<1> DEFINE s == Refreshed(r, made)
<1>1. /\ ad \in Proxies /\ hasGrid \in BOOLEAN /\ Holds(groups, ad, known)
      /\ Here.groups = groups /\ Here.ad = ad /\ Here.known = known /\ Here.hasGrid = hasGrid
  BY DEF IndInv, Agrees, Here
<1>2. CASE r.eps = {}
  BY <1>2 DEF Refreshed, IndInv
<1>3. CASE r.eps # {} /\ NothingNew(r)
  <2>1. s = [Here EXCEPT !.hasGrid = r.many] /\ r.eps = known
    BY <1>3 DEF Refreshed, NothingNew
  <2>2. s.groups = groups /\ s.ad = ad /\ s.known = known /\ s.hasGrid = r.many
    BY <2>1 DEF Here
  <2> HIDE DEF s
  <2>3. \A g \in DOMAIN groups : \A a \in groups[g] : ad[a].ep \in known
    BY <1>1, GroupMembers DEF Holds
  <2> QED BY <1>1, <2>1, <2>2, <2>3 DEF Agrees, s
<1>4. CASE r.eps # {} /\ ~NothingNew(r)
  <2> DEFINE add == r.eps \ known
             rest == Removed(known \ r.eps)
             left == {ad[a].ep : a \in InGroups(rest)}
             x == NewAdapters(made, ad)
             gs == With(rest, made)
             y == Kept(x, gs)
  <2>1. /\ s.groups = gs /\ s.ad = y /\ s.hasGrid = r.many
        /\ s.known = {x[a].ep : a \in InGroups(gs)}
    BY <1>4 DEF Refreshed, KnownNow
  <2>2. /\ Holds(rest, ad, left) /\ known \ (known \ r.eps) \subseteq left /\ left \subseteq known
        /\ \A g \in DOMAIN rest : \A a \in rest[g] :
             a \in InGroups(groups) /\ (ad[a].ep \notin known \ r.eps \/ ad[a].ep.grid # g)
    BY RemovedAreGone
  <2>3. /\ add \in SUBSET Endpoint /\ add \cap left = {}
        /\ made \in IF direct THEN Listings(add, ad) ELSE Makings(add, ad)
    BY <2>2
  <2>10. ad \in Proxies /\ Holds(rest, ad, left)
    BY <1>1, <2>2
  <2> HIDE DEF rest, left, add, s
  <2>4. x \in Proxies /\ Holds(gs, x, left \cup add) /\ NewOrOld(gs, x, add, rest, ad)
    BY <2>3, <2>10, AddedAreHeld
  <2> HIDE DEF x, gs
  <2>5. /\ y \in Proxies /\ Holds(gs, y, left \cup add)
        /\ \A a \in InGroups(gs) : y[a] = x[a]
    BY <2>4, KeptAreHeld
  <2>6. s.known = left \cup add
    BY <2>1, <2>4 DEF Holds
  <2>7. r.eps \subseteq left \cup add
    BY <2>2 DEF add
  <2>8. ASSUME NEW g \in DOMAIN gs, NEW a \in gs[g] PROVE y[a].ep \in r.eps \/ y[a].ep.grid # g
    <3>1. y[a] = x[a]
      BY <2>5, GroupMembers
    <3>2. CASE x[a].ep \in add
      BY <3>1, <3>2 DEF add
    <3>3. CASE g \in DOMAIN rest /\ a \in rest[g] /\ x[a] = ad[a]
      <4>1. ad[a].ep \in known
        BY <1>1, <2>2, <3>3 DEF Holds
      <4> QED BY <2>2, <3>1, <3>3, <4>1
    <3> QED BY <2>4, <3>2, <3>3 DEF NewOrOld
  <2> HIDE DEF y
  <2>9. Agrees(s)
    BY <2>1, <2>5, <2>6 DEF Agrees
  <2> QED BY <2>1, <2>6, <2>7, <2>8, <2>9 DEF s
<1> QED BY <1>2, <1>3, <1>4

LEMMA AllRefreshesAgree ==
  ASSUME IndInv, NEW s \in refreshEndpointInfos
  PROVE  Agrees(s)
<1>1. CASE s = Here
  BY <1>1 DEF IndInv
<1>2. ASSUME ~direct, NEW r \in fromEndpoints, NEW made \in Makings(r.eps \ known, ad), s = Refreshed(r, made)
      PROVE  Agrees(s)
  BY <1>2, ListedAreEndpoints, RefreshedAgrees
<1> QED BY <1>1, <1>2 DEF refreshEndpointInfos

-----------------------------------------------------------------------------
(***************************************************************************)
(* The invariant.                                                          *)
(***************************************************************************)

(* What an adapter is for does not change.                                 *)
LEMMA SameEndpoints ==
  ASSUME NEW gs, NEW x, NEW y, NEW eps, Holds(gs, x, eps),
         \A a \in InGroups(gs) : y[a].ep = x[a].ep /\ y[a] \in AdapterProxy
  PROVE  Holds(gs, y, eps)
<1>1. eps = {y[a].ep : a \in InGroups(gs)}
  BY DEF Holds
<1>2. ~direct => \A a, b \in InGroups(gs) : y[a].ep = y[b].ep => a = b
  BY DEF Holds
<1> QED BY <1>1, <1>2 DEF Holds

(* Whether the name has a list does not change.                            *)
LEMMA HeldNext ==
  ASSUME IndInv, ad' \in Proxies, hasGrid' \in BOOLEAN, Holds(groups', ad', known'), UNCHANGED direct
  PROVE  IndInv'
BY DEF IndInv, Agrees, Here, Holds

LEMMA InvokeStep ==
  ASSUME IndInv, NEW g, invoke(g)
  PROVE  IndInv'
<1>1. PICK s \in refreshEndpointInfos : \E a \in selectAdapterProxy(s, g) :
        Becomes(s) /\ ad' = [s.ad EXCEPT ![a].busy = TRUE]
  BY DEF invoke
<1>2. PICK a \in selectAdapterProxy(s, g) :
        Becomes(s) /\ ad' = [s.ad EXCEPT ![a].busy = TRUE]
  BY <1>1
<1>3. Agrees(s)
  BY AllRefreshesAgree
<1>4. a \in InGroups(s.groups)
  BY DEF selectAdapterProxy, First, InGroups
<1>5. a \in Adapters /\ s.ad[a] \in AdapterProxy /\ s.ad \in Proxies
  BY <1>3, <1>4, GroupMembers DEF Agrees, Holds
<1> DEFINE p == [s.ad[a] EXCEPT !.busy = TRUE]
<1>6. p \in AdapterProxy /\ p.ep = s.ad[a].ep
  BY <1>5 DEF AdapterProxy
<1>7. ad' = [s.ad EXCEPT ![a] = p]
  BY <1>2
<1> HIDE DEF p
<1>8. ad' \in Proxies /\ \A b \in Adapters : ad'[b] = IF b = a THEN p ELSE s.ad[b]
  BY <1>5, <1>6, <1>7 DEF Proxies
<1>9. \A b \in InGroups(s.groups) : ad'[b].ep = s.ad[b].ep /\ ad'[b] \in AdapterProxy
  BY <1>3, <1>6, <1>8, GroupMembers DEF Agrees, Holds
<1>10. Holds(s.groups, ad', s.known)
  BY <1>3, <1>9, SameEndpoints DEF Agrees
<1> QED BY <1>2, <1>3, <1>8, <1>10, HeldNext DEF Agrees, Becomes

LEMMA ResetAdapterGridStep ==
  ASSUME IndInv, NEW a \in Adapters, ad[a].busy, NEW to \in Grids, resetAdapterGrid(a, to),
         UNCHANGED <<direct, known>>
  PROVE  IndInv'
<1> DEFINE from == ad[a].grid
<1>1. ad \in Proxies /\ Holds(groups, ad, known)
  BY DEF IndInv, Agrees, Here
<1>2. PICK b \in groups[from] : groups' = Moved(b, from, to)
  BY DEF resetAdapterGrid
<1>3. from \in DOMAIN groups /\ from # to /\ ad' = [ad EXCEPT ![a].grid = to]
      /\ hasGrid' = (Cardinality(DOMAIN groups') > 1)
  BY DEF resetAdapterGrid
<1>4. /\ DOMAIN groups' = DOMAIN groups \cup {to}
      /\ groups'[to] = (IF to \in DOMAIN groups THEN groups[to] ELSE {}) \cup {b}
      /\ groups'[from] = groups[from] \ {b}
      /\ \A g \in DOMAIN groups \ {from, to} : groups'[g] = groups[g]
  BY <1>2, <1>3 DEF Moved
<1> HIDE DEF from
<1>5. \A c : c \in InGroups(groups') <=> c \in InGroups(groups)
  <2>1. ASSUME NEW c \in InGroups(groups) PROVE c \in InGroups(groups')
    <3>1. PICK g \in DOMAIN groups : c \in groups[g]
      BY GroupMembers
    <3>2. CASE c = b
      BY <1>4, <3>2, GroupMembers
    <3>3. CASE c # b
      <4>1. g \in DOMAIN groups' /\ c \in groups'[g]
        BY <1>3, <1>4, <3>1, <3>3
      <4> QED BY <4>1, GroupMembers
    <3> QED BY <3>2, <3>3
  <2>2. ASSUME NEW c \in InGroups(groups') PROVE c \in InGroups(groups)
    <3>1. PICK g \in DOMAIN groups' : c \in groups'[g]
      BY GroupMembers
    <3>2. c = b \/ (g \in DOMAIN groups /\ c \in groups[g])
      BY <1>3, <1>4, <3>1
    <3> QED BY <1>2, <1>3, <3>2, GroupMembers
  <2> QED BY <2>1, <2>2
<1>6. \A g, h \in DOMAIN groups' : g # h => groups'[g] \cap groups'[h] = {}
  <2> SUFFICES ASSUME NEW g \in DOMAIN groups', NEW h \in DOMAIN groups',
                      NEW c \in groups'[g], c \in groups'[h]
               PROVE  g = h
    OBVIOUS
  <2>1. CASE c = b
    <3>1. \A i \in DOMAIN groups : b \in groups[i] => i = from
      BY <1>1, <1>2, <1>3 DEF Holds
    <3>2. \A i \in DOMAIN groups' : b \in groups'[i] => i = to
      BY <1>3, <1>4, <3>1
    <3> QED BY <2>1, <3>2
  <2>2. CASE c # b
    <3>1. g \in DOMAIN groups /\ c \in groups[g] /\ h \in DOMAIN groups /\ c \in groups[h]
      BY <1>3, <1>4, <2>2
    <3> QED BY <1>1, <3>1 DEF Holds
  <2> QED BY <2>1, <2>2
<1>7. DOMAIN groups' \subseteq Grids /\ \A g \in DOMAIN groups' : groups'[g] \subseteq Adapters
  <2>1. b \in Adapters
    BY <1>1, <1>2, <1>3 DEF Holds
  <2> QED BY <1>1, <1>3, <1>4, <2>1 DEF Holds
<1>8. InGroups(groups') = InGroups(groups)
  BY <1>5
<1>9. Holds(groups', ad, known)
  BY <1>1, <1>6, <1>7, <1>8 DEF Holds
<1> DEFINE p == [ad[a] EXCEPT !.grid = to]
<1>10. ad[a] \in AdapterProxy
  BY <1>1, UnusedIsNoProxy DEF Proxies
<1>11. p \in AdapterProxy /\ p.ep = ad[a].ep
  BY <1>10 DEF AdapterProxy
<1>12. ad' = [ad EXCEPT ![a] = p]
  BY <1>3
<1> HIDE DEF p
<1>13. ad' \in Proxies /\ \A c \in Adapters : ad'[c] = IF c = a THEN p ELSE ad[c]
  BY <1>1, <1>11, <1>12 DEF Proxies
<1>14. \A c \in InGroups(groups') : ad'[c].ep = ad[c].ep /\ ad'[c] \in AdapterProxy
  BY <1>7, <1>9, <1>11, <1>13, GroupMembers DEF Holds
<1>15. Holds(groups', ad', known)
  BY <1>9, <1>14, SameEndpoints
<1>16. hasGrid' \in BOOLEAN
  BY <1>3
<1> QED BY <1>13, <1>15, <1>16, HeldNext

LEMMA FinishedStep ==
  ASSUME IndInv, NEW a \in Adapters, finished(a)
  PROVE  IndInv'
<1>1. CASE \E to \in Grids : resetAdapterGrid(a, to)
  BY <1>1, ResetAdapterGridStep DEF finished
<1>2. CASE ad' = Kept([ad EXCEPT ![a].busy = FALSE], groups) /\ UNCHANGED <<groups, hasGrid>>
  <2> DEFINE p == [ad[a] EXCEPT !.busy = FALSE]
             x == [ad EXCEPT ![a] = p]
  <2>1. ad \in Proxies /\ Holds(groups, ad, known) /\ hasGrid \in BOOLEAN
        /\ ad[a].busy /\ UNCHANGED <<direct, known>>
    BY DEF IndInv, Agrees, Here, finished
  <2>2. ad[a] \in AdapterProxy
    BY <2>1, UnusedIsNoProxy DEF Proxies
  <2>3. p \in AdapterProxy /\ p.ep = ad[a].ep
    BY <2>2 DEF AdapterProxy
  <2>4. ad' = Kept(x, groups)
    BY <1>2
  <2> HIDE DEF p
  <2>5. x \in Proxies /\ \A c \in Adapters : x[c] = IF c = a THEN p ELSE ad[c]
    BY <2>1, <2>3 DEF Proxies
  <2> HIDE DEF x
  <2>6. \A c \in InGroups(groups) : x[c].ep = ad[c].ep /\ x[c] \in AdapterProxy
    BY <2>1, <2>3, <2>5, GroupMembers DEF Holds
  <2>7. Holds(groups, x, known)
    BY <2>1, <2>6, SameEndpoints
  <2>8. ad' \in Proxies /\ Holds(groups, ad', known)
    BY <2>4, <2>5, <2>7, KeptAreHeld
  <2> QED BY <1>2, <2>1, <2>8, HeldNext
<1> QED BY <1>1, <1>2 DEF finished

LEMMA InitIndInv ==
  ASSUME Init
  PROVE  IndInv
<1> DEFINE x == NoAdapters
<1>0. PICK eps \in SUBSET Endpoint :
        \E made \in IF direct THEN Listings(eps, x) ELSE Makings(eps, x) :
          /\ ad = NewAdapters(made, x) /\ groups = With(<<>>, made) /\ known = eps
          /\ hasGrid = (Cardinality(DOMAIN groups) > 1)
  BY DEF Init
<1>1. PICK made \in IF direct THEN Listings(eps, x) ELSE Makings(eps, x) :
        /\ ad = NewAdapters(made, x) /\ groups = With(<<>>, made) /\ known = eps
        /\ hasGrid = (Cardinality(DOMAIN groups) > 1)
  BY <1>0
<1>2. x \in Proxies
  BY DEF Proxies, NoAdapters
<1>3. InGroups(<<>>) = {}
  BY DEF InGroups
<1>4. Holds(<<>>, x, {})
  BY <1>3 DEF Holds
<1> HIDE DEF x
<1>5. ad \in Proxies /\ Holds(groups, ad, {} \cup eps)
  <2>1. eps \cap {} = {}
    OBVIOUS
  <2>2. made \in IF direct THEN Listings(eps, x) ELSE Makings(eps, x)
    BY <1>1
  <2>3. /\ NewAdapters(made, x) \in Proxies
        /\ Holds(With(<<>>, made), NewAdapters(made, x), {} \cup eps)
    BY <1>2, <1>4, <2>1, <2>2, AddedAreHeld
  <2> QED BY <1>1, <2>3
<1>6. hasGrid \in BOOLEAN /\ {} \cup eps = known /\ direct \in BOOLEAN
  BY <1>1 DEF Init
<1> QED BY <1>5, <1>6 DEF IndInv, Agrees, Here

LEMMA NextIndInv ==
  ASSUME IndInv, [Next]_vars
  PROVE  IndInv'
<1>1. CASE getEndpoint
  <2>1. PICK s \in refreshEndpointInfos : Becomes(s) /\ ad' = s.ad
    BY <1>1 DEF getEndpoint
  <2>2. Agrees(s)
    BY AllRefreshesAgree
  <2> QED BY <2>1, <2>2, HeldNext DEF Agrees, Becomes
<1>2. CASE \E g \in Grids \cup {None} : invoke(g)
  BY <1>2, InvokeStep
<1>3. CASE \E a \in Adapters : finished(a)
  BY <1>3, FinishedStep
<1>4. CASE UNCHANGED vars
  BY <1>4 DEF vars, IndInv, Agrees, Here, Holds
<1> QED BY <1>1, <1>2, <1>3, <1>4 DEF Next

(* The strengthening that the theorems below rest on holds always.         *)
THEOREM IndInvIsInvariant == Spec => []IndInv
<1>1. Init => IndInv
  BY InitIndInv
<1>2. IndInv /\ [Next]_vars => IndInv'
  BY NextIndInv
<1> QED BY <1>1, <1>2, PTL DEF Spec

(* An adapter is in one group at most, an endpoint has one adapter in the  *)
(* groups (but that of a list which repeats it), and what the next answer  *)
(* is compared with is what the groups hold, for any answers of the        *)
(* registry and of the servers.                                            *)
THEOREM EndpointsStayKnown == Spec => []EndpointsAreKnown
<1>1. IndInv => EndpointsAreKnown
  <2> SUFFICES ASSUME IndInv PROVE EndpointsAreKnown
    OBVIOUS
  <2>1. ad \in Proxies /\ Holds(groups, ad, known) /\ hasGrid \in BOOLEAN /\ direct \in BOOLEAN
    BY DEF IndInv, Agrees, Here
  <2>2. known \subseteq Endpoint
    BY <2>1, UnusedIsNoProxy DEF Holds
  <2>3. DOMAIN groups \subseteq Grids /\ InGroups(groups) \subseteq Adapters
    BY <2>1, GroupMembers DEF Holds
  <2>4. TypeOK
    BY <2>1, <2>2, <2>3 DEF TypeOK, Proxies, AdapterProxy
  <2> QED BY <2>1, <2>4 DEF EndpointsAreKnown, Holds
<1> QED BY <1>1, IndInvIsInvariant, PTL

(* In every state that can be reached the next answer with endpoints will  *)
(* be carried out in full, but for endpoints that are gone and whose       *)
(* adapters have been moved to the group of another grid code.             *)
THEOREM OnlyMovedEverStay == Spec => []OnlyMovedStay
<1>1. IndInv => OnlyMovedStay
  <2> SUFFICES ASSUME IndInv, ~direct, NEW eps \in Lists, eps # {}, NEW made \in Makings(eps \ known, ad)
               PROVE  LET s == Refreshed([eps |-> eps, many |-> TRUE], made)
                      IN  /\ eps \subseteq s.known
                          /\ \A g \in DOMAIN s.groups : \A a \in s.groups[g] :
                               s.ad[a].ep \in eps \/ s.ad[a].ep.grid # g
    BY DEF OnlyMovedStay
  <2> DEFINE r == [eps |-> eps, many |-> TRUE]
  <2>1. r.eps = eps /\ r.many = TRUE
    OBVIOUS
  <2>2. r \in fromEndpoints
    BY DEF fromEndpoints
  <2>3. eps \subseteq Endpoint /\ r.many \in BOOLEAN
    BY <2>1, <2>2, ListedAreEndpoints
  <2> HIDE DEF r
  <2> QED BY <2>1, <2>3, RefreshedAgrees DEF r
<1> QED BY <1>1, IndInvIsInvariant, PTL

-----------------------------------------------------------------------------
(***************************************************************************)
(* AdapterGroup: the choice between the adapters of one group.             *)
(*                                                                         *)
(* getNextValidProxy goes round the group, which takes an induction on the *)
(* number of adapters looked at, over the set of the numbers for which the *)
(* claim is true.                                                          *)
(***************************************************************************)

(* The recursive function of getNextValidProxy is what it is written to be. *)
LEMMA RoundIsDefined ==
  ASSUME NEW x, N \in Nat
  PROVE  \E f : /\ f[0] = Group!Choice(position, x, 0)
                /\ \A n \in 0 .. N - 1 : f[n + 1] = Group!TryNext(f[n])
                /\ Group!getNextValidProxy(x) = f[N]
<1> DEFINE c == Group!Choice(position, x, 0)
           Is(f, k) == f = [n \in 0 .. k |-> IF n = 0 THEN c ELSE Group!TryNext(f[n - 1])]
           S == {k \in Nat : \E f : Is(f, k)}
<1> HIDE DEF c
<1>1. 0 \in S
  <2>1. Is([n \in 0 .. 0 |-> c], 0)
    OBVIOUS
  <2> QED BY <2>1
<1>2. ASSUME NEW k \in Nat, k \in S PROVE k + 1 \in S
  <2>1. PICK g : Is(g, k)
    BY <1>2
  <2> DEFINE h == [n \in 0 .. k + 1 |-> IF n = k + 1 THEN Group!TryNext(g[k]) ELSE g[n]]
  <2>2. Is(h, k + 1)
    <3>1. \A n \in 0 .. k + 1 : h[n] = IF n = 0 THEN c ELSE Group!TryNext(h[n - 1])
      BY <2>1
    <3>2. h = [n \in 0 .. k + 1 |-> h[n]]
      OBVIOUS
    <3> QED BY <3>1, <3>2
  <2> HIDE DEF h, Is
  <2>3. \E f : Is(f, k + 1)
    BY <2>2
  <2> QED BY <2>3
<1>3. N \in S
  <2> HIDE DEF S
  <2> QED BY <1>1, <1>2, InductionOverSet
<1>4. PICK g : Is(g, N)
  BY <1>3
<1> DEFINE r == CHOOSE f : Is(f, N)
<1>5. Is(r, N)
  BY <1>4
<1>6. Group!getNextValidProxy(x) = r[N]
  BY DEF Group!getNextValidProxy, c
<1> HIDE DEF r
<1>7. \A n \in 0 .. N : r[n] = IF n = 0 THEN c ELSE Group!TryNext(r[n - 1])
  BY <1>5
<1>8. ASSUME NEW n \in 0 .. N - 1 PROVE r[n + 1] = Group!TryNext(r[n])
  <2>1. n + 1 \in 0 .. N /\ n + 1 # 0 /\ (n + 1) - 1 = n
    OBVIOUS
  <2> QED BY <1>7, <2>1
<1> QED BY <1>6, <1>7, <1>8 DEF c

-----------------------------------------------------------------------------
(* The choice is between adapters of the group, times are counted.         *)
LEMMA GroupConstants ==
  /\ N \in Nat \ {0} /\ TryInterval \in Nat \ {0} /\ CheckInterval \in Nat \ {0}
  /\ FailFrequency \in Nat \ {0}
  /\ TransInterval \in Nat /\ FailInterval \in Nat /\ MaxOut \in Nat /\ MaxTotal \in Nat
  /\ Group!Members = 1 .. N
  /\ Group!FinishLimit \in Nat \ {0}
<1>1. /\ {N, TryInterval, CheckInterval, FailFrequency} \subseteq Nat \ {0}
      /\ {TransInterval, FailInterval, MinTimeouts, Radio, MaxOut, MaxTotal} \subseteq Nat
  BY GroupAssumption DEF Group!GroupAssumption
<1>2. Group!FinishLimit \in Nat \ {0}
  BY <1>1 DEF Group!FinishLimit
<1> QED BY <1>1, <1>2 DEF Group!Members

(* A check touches the times of the adapter and its connection.            *)
LEMMA CheckedFacts ==
  ASSUME NEW x \in Group!Adapter, NEW a
  PROVE  LET y == Group!Checked(x, a)
         IN  /\ y \in Group!Adapter
             /\ y.active = x.active /\ y.timeouts = x.timeouts /\ y.total = x.total
             /\ y.retry = x.retry \/ y.retry = 0
             /\ Group!CanTry(x) => y.retry = 0
<1>1. /\ x.active \in BOOLEAN /\ x.connected \in BOOLEAN /\ x.retry \in 0 .. TryInterval
      /\ x.finish \in 0 .. Group!FinishLimit /\ x.trans \in 0 .. TransInterval + 1
      /\ x.total \in 0 .. MaxTotal /\ x.timeouts \in 0 .. MaxTotal
      /\ x.failures \in 0 .. FailFrequency
      /\ x = [active |-> x.active, connected |-> x.connected, retry |-> x.retry,
              finish |-> x.finish, trans |-> x.trans, total |-> x.total,
              timeouts |-> x.timeouts, failures |-> x.failures]
  BY DEF Group!Adapter
<1>2. Group!Connects(a) \in BOOLEAN
  BY DEF Group!Connects
<1>3. 0 \in 0 .. TryInterval /\ 0 \in 0 .. TransInterval + 1
  BY GroupConstants
<1> HIDE DEF Group!Connects
<1>4. CASE ~Group!CanTry(x)
  BY <1>1, <1>4 DEF Group!Checked, Group!CanTry
<1>5. CASE Group!CanTry(x) /\ ~x.connected /\ x.trans > TransInterval
  BY <1>1, <1>2, <1>3, <1>5 DEF Group!Checked, Group!Adapter
<1>6. CASE Group!CanTry(x) /\ ~(~x.connected /\ x.trans > TransInterval)
  BY <1>1, <1>2, <1>3, <1>6 DEF Group!Checked, Group!Adapter
<1> QED BY <1>4, <1>5, <1>6

-----------------------------------------------------------------------------
(* What a round of getNextValidProxy leaves of the adapters x: each is as  *)
(* it was or has been checked; the one chosen was valid; and if none is    *)
(* chosen all have been checked and none was valid.                        *)
RoundOver(x, r) ==
  /\ r = Group!Choice(r.pos, r.ad, r.chosen)
  /\ r.pos \in Group!Members /\ r.chosen \in 0 .. N /\ r.valid
  /\ r.ad \in [Group!Members -> Group!Adapter]
  /\ \A b \in Group!Members : r.ad[b] = x[b] \/ r.ad[b] = Group!Checked(x[b], b)
  /\ r.chosen # 0 => /\ Group!checkActive(x[r.chosen], r.chosen)
                     /\ r.ad[r.chosen] = Group!Checked(x[r.chosen], r.chosen)

Visited(n) == IF position + n <= N THEN position + n ELSE position + n - N

NoneYet(x, r, n) ==
  /\ r.pos = Visited(n)
  /\ \A m \in 1 .. n : /\ ~Group!checkActive(x[Visited(m)], Visited(m))
                       /\ r.ad[Visited(m)] = Group!Checked(x[Visited(m)], Visited(m))
  /\ \A b \in Group!Members : (\A m \in 1 .. n : Visited(m) # b) => r.ad[b] = x[b]

(* A round comes to every adapter once, to the one behind position first.   *)
LEMMA VisitedFacts ==
  ASSUME position \in 1 .. N, N \in Nat
  PROVE  /\ Visited(0) = position
         /\ \A n \in 0 .. N : Visited(n) \in 1 .. N
         /\ \A n \in 0 .. N - 1 : Visited(n + 1) = (Visited(n) % N) + 1
         /\ \A m, n \in 1 .. N : Visited(m) = Visited(n) => m = n
         /\ \A b \in 1 .. N : \E n \in 1 .. N : Visited(n) = b
<1>1. \A p \in 1 .. N : (p % N) + 1 = IF p = N THEN 1 ELSE p + 1
  OBVIOUS
<1>2. \A n \in 0 .. N : Visited(n) \in 1 .. N
  BY DEF Visited
<1>3. \A n \in 0 .. N - 1 : Visited(n + 1) = (Visited(n) % N) + 1
  <2> SUFFICES ASSUME NEW n \in 0 .. N - 1 PROVE Visited(n + 1) = (Visited(n) % N) + 1
    OBVIOUS
  <2>1. (Visited(n) % N) + 1 = IF Visited(n) = N THEN 1 ELSE Visited(n) + 1
    BY <1>1, <1>2
  <2> QED BY <2>1 DEF Visited
<1>4. \A m, n \in 1 .. N : Visited(m) = Visited(n) => m = n
  BY DEF Visited
<1>5. ASSUME NEW b \in 1 .. N PROVE \E n \in 1 .. N : Visited(n) = b
  <2>1. CASE b > position
    <3>1. b - position \in 1 .. N /\ Visited(b - position) = b
      BY <2>1 DEF Visited
    <3> QED BY <3>1
  <2>2. CASE b <= position
    <3>1. b - position + N \in 1 .. N /\ Visited(b - position + N) = b
      BY <2>2 DEF Visited
    <3> QED BY <3>1
  <2> QED BY <2>1, <2>2
<1> QED BY <1>2, <1>3, <1>4, <1>5 DEF Visited

(* One adapter more.                                                       *)
LEMMA TryOne ==
  ASSUME NEW x \in [Group!Members -> Group!Adapter], position \in 1 .. N, N \in Nat,
         NEW n \in 0 .. N - 1, NEW r, RoundOver(x, r), r.chosen = 0 => NoneYet(x, r, n),
         NEW s, s = Group!TryNext(r)
  PROVE  RoundOver(x, s) /\ (s.chosen = 0 => NoneYet(x, s, n + 1))
<1>1. CASE r.chosen # 0
  BY <1>1 DEF Group!TryNext
<1>2. CASE r.chosen = 0
  <2> DEFINE a == Visited(n + 1)
             y == Group!Checked(x[a], a)
             ok == Group!checkActive(x[a], a)
  <2>1. /\ a \in 1 .. N /\ r.pos = Visited(n) /\ (r.pos % N) + 1 = a
        /\ \A m \in 1 .. n : Visited(m) # a /\ Visited(m) \in 1 .. N
    BY <1>2, VisitedFacts DEF NoneYet
  <2>2. r.ad[a] = x[a] /\ r.ad \in [1 .. N -> Group!Adapter] /\ x[a] \in Group!Adapter
    BY <1>2, <2>1, GroupConstants DEF NoneYet, RoundOver
  <2>3. s = Group!Choice(a, [r.ad EXCEPT ![a] = y], IF ok THEN a ELSE 0)
    BY <1>2, <2>1, <2>2 DEF Group!TryNext
  <2>4. /\ s.pos = a /\ s.chosen = (IF ok THEN a ELSE 0) /\ s.valid
        /\ s.ad = [r.ad EXCEPT ![a] = y]
    BY <2>3 DEF Group!Choice
  <2>5. y \in Group!Adapter
    BY <2>2, CheckedFacts
  <2> HIDE DEF a, y, ok
  <2>6. /\ s.ad \in [1 .. N -> Group!Adapter] /\ s.ad[a] = y
        /\ \A b \in 1 .. N : b # a => s.ad[b] = r.ad[b]
    BY <2>1, <2>2, <2>4, <2>5
  <2>7. RoundOver(x, s)
    <3>1. s = Group!Choice(s.pos, s.ad, s.chosen)
      BY <2>3, <2>4 DEF Group!Choice
    <3> QED BY <3>1, <2>1, <2>4, <2>6, GroupConstants DEF RoundOver, y, ok
  <2>8. ASSUME s.chosen = 0 PROVE NoneYet(x, s, n + 1)
    <3>1. ~ok
      BY <2>1, <2>4, <2>8
    <3>2. ASSUME NEW m \in 1 .. n + 1
          PROVE  /\ ~Group!checkActive(x[Visited(m)], Visited(m))
                 /\ s.ad[Visited(m)] = Group!Checked(x[Visited(m)], Visited(m))
      <4>1. CASE m = n + 1
        BY <3>1, <2>6, <4>1 DEF a, y, ok
      <4>2. CASE m # n + 1
        <5>1. m \in 1 .. n
          BY <4>2
        <5> QED BY <1>2, <2>1, <2>6, <5>1 DEF NoneYet
      <4> QED BY <4>1, <4>2
    <3>3. ASSUME NEW b \in 1 .. N, \A m \in 1 .. n + 1 : Visited(m) # b PROVE s.ad[b] = x[b]
      <4>1. b # a /\ \A m \in 1 .. n : Visited(m) # b
        BY <3>3 DEF a
      <4> QED BY <1>2, <2>6, <4>1, GroupConstants DEF NoneYet
    <3> QED BY <2>4, <3>2, <3>3, GroupConstants DEF NoneYet, a
  <2> QED BY <2>7, <2>8
<1> QED BY <1>1, <1>2

(* All of them.                                                            *)
LEMMA WholeRound ==
  ASSUME NEW x \in [Group!Members -> Group!Adapter], position \in 1 .. N,
         NEW r, r = Group!getNextValidProxy(x)
  PROVE  /\ RoundOver(x, r)
         /\ r.chosen = 0 => \A b \in Group!Members : /\ r.ad[b] = Group!Checked(x[b], b)
                                                      /\ ~Group!checkActive(x[b], b)
<1>1. N \in Nat \ {0} /\ Group!Members = 1 .. N
  BY GroupConstants
<1>2. PICK f : /\ f[0] = Group!Choice(position, x, 0)
               /\ \A n \in 0 .. N - 1 : f[n + 1] = Group!TryNext(f[n])
               /\ r = f[N]
  BY <1>1, RoundIsDefined
<1> DEFINE Good(n) == RoundOver(x, f[n]) /\ (f[n].chosen = 0 => NoneYet(x, f[n], n))
           S == {n \in Nat : n <= N => Good(n)}
<1>3. Good(0)
  <2>1. f[0] = Group!Choice(position, x, 0)
    BY <1>1, <1>2
  <2>2. /\ f[0].pos = position /\ f[0].ad = x /\ f[0].chosen = 0 /\ f[0].valid
    BY <2>1 DEF Group!Choice
  <2>3. f[0] = Group!Choice(f[0].pos, f[0].ad, f[0].chosen)
    BY <2>1, <2>2
  <2> QED BY <1>1, <2>2, <2>3, VisitedFacts DEF RoundOver, NoneYet
<1>4. ASSUME NEW n \in Nat, n \in S PROVE n + 1 \in S
  <2> SUFFICES ASSUME n + 1 <= N PROVE Good(n + 1)
    OBVIOUS
  <2>1. n \in 0 .. N - 1 /\ n + 1 \in 0 .. N /\ Good(n)
    BY <1>1, <1>4
  <2>2. f[n + 1] = Group!TryNext(f[n])
    BY <1>2, <2>1
  <2> QED BY <1>1, <2>1, <2>2, TryOne
<1>5. Good(N)
  <2>1. 0 \in S
    BY <1>3
  <2> HIDE DEF Good
  <2>2. N \in S
    <3> HIDE DEF S
    <3> QED BY <1>1, <1>4, <2>1, InductionOverSet
  <2> QED BY <1>1, <2>2
<1>6. ASSUME r.chosen = 0, NEW b \in 1 .. N
      PROVE  r.ad[b] = Group!Checked(x[b], b) /\ ~Group!checkActive(x[b], b)
  <2>1. PICK n \in 1 .. N : Visited(n) = b
    BY <1>1, VisitedFacts
  <2> QED BY <1>2, <1>5, <1>6, <2>1 DEF NoneYet
<1> QED BY <1>1, <1>2, <1>5, <1>6

-----------------------------------------------------------------------------
(***************************************************************************)
(* The inductive invariant: a server that is disabled has been left alone  *)
(* for at least as long as the code believes, because a check puts off the *)
(* next try also when no call comes of it.  For the types: an adapter's    *)
(* time-outs are among its calls, and its calls are bounded together.      *)
(***************************************************************************)
Rested == \A a \in Group!Members : ~proxies[a].active => proxies[a].retry <= since[a]

GroupInv ==
  /\ Group!TypeOK
  /\ \A a \in Group!Members : /\ proxies[a].timeouts <= proxies[a].total
                               /\ out[a].ok + out[a].lost <= MaxOut
  /\ Rested

(* An adapter after the choice: as it was, or checked, once or twice.      *)
CheckedFrom(x, y, a) ==
  /\ y \in Group!Adapter
  /\ y.active = x.active /\ y.timeouts = x.timeouts /\ y.total = x.total
  /\ y.retry = x.retry \/ y.retry = 0

LEMMA CheckedIsFrom ==
  ASSUME NEW a, NEW x \in Group!Adapter
  PROVE  /\ CheckedFrom(x, x, a) /\ CheckedFrom(x, Group!Checked(x, a), a)
         /\ \A y : CheckedFrom(x, y, a) => CheckedFrom(x, Group!Checked(y, a), a)
<1>1. \A y \in Group!Adapter :
        LET z == Group!Checked(y, a)
        IN  /\ z \in Group!Adapter
            /\ z.active = y.active /\ z.timeouts = y.timeouts /\ z.total = y.total
            /\ z.retry = y.retry \/ z.retry = 0
  BY CheckedFacts
<1> QED BY <1>1 DEF CheckedFrom

(* The choice of selectFromGroup.  If it is not valid, none of those that  *)
(* are enabled has a connection.                                           *)
LEMMA ChoiceFacts ==
  ASSUME Group!TypeOK, NEW hash \in 0 .. N, NEW c \in Group!selectFromGroup(hash)
  PROVE  /\ c.pos \in Group!Members /\ c.chosen \in Group!Members
         /\ c.ad \in [Group!Members -> Group!Adapter]
         /\ \A b \in Group!Members : CheckedFrom(proxies[b], c.ad[b], b)
         /\ c.valid => c.ad[c.chosen].active \/ c.ad[c.chosen].retry = 0
         /\ c.valid /\ ~proxies[c.chosen].active => proxies[c.chosen].retry = TryInterval
         /\ ~c.valid => \A b \in Group!Members : ~(c.ad[b].active /\ c.ad[b].connected)
<1> DEFINE checked == [proxies EXCEPT ![hash] = Group!Checked(@, hash)]
           x == IF hash = 0 THEN proxies ELSE checked
           next == Group!getNextValidProxy(x)
<1>1. /\ Group!Members = 1 .. N /\ N \in Nat \ {0} /\ position \in 1 .. N
      /\ TryInterval \in Nat
      /\ proxies \in [Group!Members -> Group!Adapter]
      /\ \A b \in Group!Members : proxies[b] \in Group!Adapter
  BY GroupConstants DEF Group!TypeOK
<1>2. /\ x \in [Group!Members -> Group!Adapter]
      /\ \A b \in Group!Members : CheckedFrom(proxies[b], x[b], b)
  <2>1. CASE hash = 0
    BY <1>1, <2>1, CheckedIsFrom
  <2>2. CASE hash # 0
    <3>1. hash \in Group!Members /\ Group!Checked(proxies[hash], hash) \in Group!Adapter
      BY <1>1, <2>2, CheckedFacts
    <3>2. checked[hash] = Group!Checked(proxies[hash], hash)
          /\ \A b \in Group!Members : b # hash => checked[b] = proxies[b]
      BY <1>1, <3>1
    <3>3. checked \in [Group!Members -> Group!Adapter] /\ x = checked
      BY <1>1, <2>2, <3>1
    <3> HIDE DEF x, checked
    <3> QED BY <1>1, <3>1, <3>2, <3>3, CheckedIsFrom
  <2> QED BY <2>1, <2>2
<1>3. \/ /\ hash # 0 /\ Group!checkActive(proxies[hash], hash)
         /\ c = Group!Choice(position, checked, hash)
      \/ next.chosen # 0 /\ c = next
      \/ /\ next.chosen = 0
         /\ \E a \in Group!Members : c = [[next EXCEPT !.chosen = a] EXCEPT !.valid = FALSE]
  BY DEF Group!selectFromGroup
<1>4. \A b \in Group!Members : \A y : 
        LET z == Group!Checked(y, b)
        IN  /\ CheckedFrom(proxies[b], y, b) => CheckedFrom(proxies[b], z, b)
            /\ y \in Group!Adapter /\ Group!checkActive(y, b) => 
                 /\ z.retry = 0 /\ (~y.active => y.retry = TryInterval)
            /\ y \in Group!Adapter /\ ~Group!checkActive(y, b) => ~(z.active /\ z.connected)
  <2> SUFFICES ASSUME NEW b \in Group!Members, NEW y
               PROVE  LET z == Group!Checked(y, b)
                      IN  /\ CheckedFrom(proxies[b], y, b) => CheckedFrom(proxies[b], z, b)
                          /\ y \in Group!Adapter /\ Group!checkActive(y, b) => 
                               /\ z.retry = 0 /\ (~y.active => y.retry = TryInterval)
                          /\ y \in Group!Adapter /\ ~Group!checkActive(y, b) =>
                               ~(z.active /\ z.connected)
    OBVIOUS
  <2> DEFINE z == Group!Checked(y, b)
  <2>1. CheckedFrom(proxies[b], y, b) => CheckedFrom(proxies[b], z, b)
    BY <1>1, CheckedIsFrom
  <2>2. ASSUME y \in Group!Adapter
        PROVE  z.active = y.active /\ (Group!CanTry(y) => z.retry = 0) /\ y.retry \in 0 .. TryInterval
    BY <2>2, CheckedFacts DEF Group!Adapter
  <2> HIDE DEF z
  <2> QED BY <1>1, <2>1, <2>2 DEF Group!checkActive, Group!CanTry, z
<1> HIDE DEF checked, x, next
<1>5. /\ RoundOver(x, next)
      /\ next.chosen = 0 => \A b \in Group!Members : /\ next.ad[b] = Group!Checked(x[b], b)
                                                      /\ ~Group!checkActive(x[b], b)
  BY <1>1, <1>2, WholeRound DEF next
<1>6. CASE hash # 0 /\ Group!checkActive(proxies[hash], hash)
           /\ c = Group!Choice(position, checked, hash)
  <2>1. c.pos = position /\ c.ad = checked /\ c.chosen = hash /\ c.valid
    BY <1>6 DEF Group!Choice
  <2>2. x = checked /\ hash \in Group!Members
    BY <1>1, <1>6 DEF x
  <2>3. checked[hash] = Group!Checked(proxies[hash], hash)
    BY <1>1, <2>2 DEF checked
  <2> QED BY <1>1, <1>2, <1>4, <1>6, <2>1, <2>2, <2>3
<1>7. CASE next.chosen # 0 /\ c = next
  <2>1. c.chosen \in Group!Members /\ c.pos \in Group!Members /\ c.valid
    BY <1>1, <1>5, <1>7 DEF RoundOver
  <2>2. /\ c.ad \in [Group!Members -> Group!Adapter]
        /\ \A b \in Group!Members : c.ad[b] = x[b] \/ c.ad[b] = Group!Checked(x[b], b)
        /\ Group!checkActive(x[c.chosen], c.chosen)
        /\ c.ad[c.chosen] = Group!Checked(x[c.chosen], c.chosen)
    BY <1>5, <1>7 DEF RoundOver
  <2>3. \A b \in Group!Members : CheckedFrom(proxies[b], c.ad[b], b)
    BY <1>2, <1>4, <2>2
  <2>4. /\ CheckedFrom(proxies[c.chosen], x[c.chosen], c.chosen) /\ x[c.chosen] \in Group!Adapter
        /\ proxies[c.chosen] \in Group!Adapter
    BY <1>1, <1>2, <2>1
  <2>5. c.ad[c.chosen].retry = 0 /\ (~x[c.chosen].active => x[c.chosen].retry = TryInterval)
    BY <1>4, <2>1, <2>2, <2>4
  <2>6. ~proxies[c.chosen].active => proxies[c.chosen].retry = TryInterval
    BY <1>1, <2>4, <2>5, GroupConstants DEF CheckedFrom
  <2> QED BY <2>1, <2>2, <2>3, <2>5, <2>6
<1>8. CASE /\ next.chosen = 0
           /\ \E a \in Group!Members : c = [[next EXCEPT !.chosen = a] EXCEPT !.valid = FALSE]
  <2>1. PICK a \in Group!Members : c = [[next EXCEPT !.chosen = a] EXCEPT !.valid = FALSE]
    BY <1>8
  <2>2. next = Group!Choice(next.pos, next.ad, next.chosen)
    BY <1>5 DEF RoundOver
  <2>3. c.pos = next.pos /\ c.ad = next.ad /\ c.chosen = a /\ c.valid = FALSE
    BY <2>1, <2>2 DEF Group!Choice
  <2>4. /\ c.pos \in Group!Members /\ c.ad \in [Group!Members -> Group!Adapter]
        /\ \A b \in Group!Members : /\ c.ad[b] = Group!Checked(x[b], b)
                                     /\ ~Group!checkActive(x[b], b)
    BY <1>5, <1>8, <2>3 DEF RoundOver
  <2>5. \A b \in Group!Members : x[b] \in Group!Adapter
    BY <1>2
  <2> QED BY <1>2, <1>4, <2>3, <2>4, <2>5
<1> QED BY <1>3, <1>6, <1>7, <1>8

-----------------------------------------------------------------------------
(***************************************************************************)
(* The steps preserve the invariant.                                       *)
(***************************************************************************)
LEMMA GroupInvFacts ==
  ASSUME GroupInv
  PROVE  /\ N \in Nat \ {0} /\ TryInterval \in Nat \ {0} /\ MaxOut \in Nat /\ MaxTotal \in Nat
         /\ Group!Members = 1 .. N /\ position \in Group!Members
         /\ proxies \in [Group!Members -> Group!Adapter]
         /\ out \in [Group!Members -> [ok : 0 .. MaxOut, lost : 0 .. MaxOut]]
         /\ server \in [Group!Members -> {"up", "silent", "down"}]
         /\ since \in [Group!Members -> 0 .. TryInterval]
         /\ \A a \in Group!Members :
              /\ proxies[a] \in Group!Adapter
              /\ proxies[a].active \in BOOLEAN /\ proxies[a].retry \in 0 .. TryInterval
              /\ proxies[a].timeouts \in 0 .. MaxTotal /\ proxies[a].total \in 0 .. MaxTotal
              /\ proxies[a].timeouts <= proxies[a].total
              /\ since[a] \in 0 .. TryInterval
              /\ out[a] \in [ok : 0 .. MaxOut, lost : 0 .. MaxOut]
              /\ out[a].ok \in 0 .. MaxOut /\ out[a].lost \in 0 .. MaxOut
              /\ out[a].ok + out[a].lost <= MaxOut
              /\ server[a] \in {"up", "silent", "down"}
              /\ ~proxies[a].active => proxies[a].retry <= since[a]
<1>1. /\ position \in Group!Members
      /\ proxies \in [Group!Members -> Group!Adapter]
      /\ out \in [Group!Members -> [ok : 0 .. MaxOut, lost : 0 .. MaxOut]]
      /\ server \in [Group!Members -> {"up", "silent", "down"}]
      /\ since \in [Group!Members -> 0 .. TryInterval]
  BY DEF GroupInv, Group!TypeOK
<1>2. \A x \in Group!Adapter : /\ x.active \in BOOLEAN /\ x.retry \in 0 .. TryInterval
                               /\ x.timeouts \in 0 .. MaxTotal /\ x.total \in 0 .. MaxTotal
  BY DEF Group!Adapter
<1> QED BY <1>1, <1>2, GroupConstants DEF GroupInv, Rested

LEMMA GroupInitial ==
  ASSUME Group!Init
  PROVE  GroupInv
<1> DEFINE x == [active |-> TRUE, connected |-> FALSE, retry |-> 0, finish |-> 0,
                 trans |-> TransInterval + 1, total |-> 0, timeouts |-> 0, failures |-> 0]
<1>1. x \in Group!Adapter /\ x.active /\ x.timeouts = 0 /\ x.total = 0
  BY GroupConstants DEF Group!Adapter
<1> DEFINE o == [ok |-> 0, lost |-> 0]
<1>2. o \in [ok : 0 .. MaxOut, lost : 0 .. MaxOut] /\ o.ok = 0 /\ o.lost = 0
  BY GroupConstants
<1> HIDE DEF x, o
<1>3. /\ proxies = [a \in Group!Members |-> x] /\ out = [a \in Group!Members |-> o]
      /\ position = 1 /\ server = [a \in Group!Members |-> "up"]
      /\ since = [a \in Group!Members |-> 0] /\ pick = 0
  BY DEF Group!Init, x, o
<1>4. /\ 1 \in Group!Members /\ 0 \in 0 .. TryInterval /\ 0 \in 0 .. N /\ 0 + 0 <= MaxOut
  BY GroupConstants
<1> QED BY <1>1, <1>2, <1>3, <1>4 DEF GroupInv, Group!TypeOK, Rested

(* A call puts off the next try of each disabled adapter that it checks.   *)
LEMMA CallStep ==
  ASSUME GroupInv, NEW hash \in 0 .. N, NEW own, Group!Call(hash, own)
  PROVE  GroupInv'
<1>1. PICK c \in Group!selectFromGroup(hash) :
        LET x == Group!Transceiver(c.ad, c.chosen)
            senders == IF own THEN {c.chosen} ELSE {a \in Group!Members : x[a].connected}
        IN  /\ position' = c.pos
            /\ proxies' = x
            /\ since' = IF c.valid THEN [since EXCEPT ![c.chosen] = 0] ELSE since
            /\ pick' = c.chosen
            /\ IF x[c.chosen].connected THEN \E a \in senders : Group!Sent(a) ELSE UNCHANGED out
            /\ UNCHANGED server
  BY DEF Group!Call
<1>2. /\ c.pos \in Group!Members /\ c.chosen \in Group!Members
      /\ c.ad \in [Group!Members -> Group!Adapter]
      /\ \A b \in Group!Members : CheckedFrom(proxies[b], c.ad[b], b)
      /\ c.valid => c.ad[c.chosen].active \/ c.ad[c.chosen].retry = 0
  BY ChoiceFacts DEF GroupInv
<1> DEFINE k == c.chosen
           y == [c.ad[k] EXCEPT !.connected = @ \/ Group!Connects(k)]
<1>3. y \in Group!Adapter /\ CheckedFrom(proxies[k], y, k) /\ y.active = c.ad[k].active
      /\ y.retry = c.ad[k].retry
  <2>1. c.ad[k] \in Group!Adapter
    BY <1>2
  <2>2. Group!Connects(k) \in BOOLEAN
    BY DEF Group!Connects
  <2> DEFINE on == c.ad[k].connected \/ Group!Connects(k)
  <2>3. on \in BOOLEAN
    BY <2>1, <2>2 DEF Group!Adapter
  <2>4. y = [c.ad[k] EXCEPT !.connected = on]
    OBVIOUS
  <2> HIDE DEF on, y
  <2>5. y \in Group!Adapter /\ y.active = c.ad[k].active /\ y.retry = c.ad[k].retry
        /\ y.timeouts = c.ad[k].timeouts /\ y.total = c.ad[k].total
    BY <2>1, <2>3, <2>4 DEF Group!Adapter
  <2> QED BY <1>2, <2>5 DEF CheckedFrom
<1>4. proxies' = [c.ad EXCEPT ![k] = y]
  BY <1>1 DEF Group!Transceiver
<1> HIDE DEF y
<1>5. /\ proxies' \in [Group!Members -> Group!Adapter]
      /\ \A a \in Group!Members : CheckedFrom(proxies[a], proxies'[a], a)
      /\ c.valid => proxies'[k].active \/ proxies'[k].retry = 0
  BY <1>2, <1>3, <1>4
<1>6. /\ out' \in [Group!Members -> [ok : 0 .. MaxOut, lost : 0 .. MaxOut]]
      /\ \A a \in Group!Members : out'[a].ok + out'[a].lost <= MaxOut
  <2>1. CASE UNCHANGED out
    BY <2>1, GroupInvFacts
  <2>2. ASSUME NEW a \in Group!Members, Group!Sent(a)
        PROVE  <1>6!1 /\ <1>6!2
    <3> DEFINE o == Group!OneMore(out[a], a)
    <3>1. out' = [out EXCEPT ![a] = o] /\ out[a].ok + out[a].lost < MaxOut
      BY <2>2 DEF Group!Sent
    <3>2. /\ out[a] \in [ok : 0 .. MaxOut, lost : 0 .. MaxOut] /\ MaxOut \in Nat
          /\ out[a].ok \in 0 .. MaxOut /\ out[a].lost \in 0 .. MaxOut
      BY GroupInvFacts
    <3>5. o \in [ok : 0 .. MaxOut, lost : 0 .. MaxOut] /\ o.ok + o.lost <= MaxOut
      BY <3>1, <3>2 DEF Group!OneMore
    <3> HIDE DEF o
    <3> QED BY <3>1, <3>5, GroupInvFacts
  <2>3. k \in Group!Members
    BY <1>2
  <2>4. UNCHANGED out \/ \E a \in Group!Members : Group!Sent(a)
    BY <1>1, <2>3
  <2> QED BY <2>1, <2>2, <2>4
<1>7. /\ since' \in [Group!Members -> 0 .. TryInterval]
      /\ \A a \in Group!Members : since'[a] = since[a] \/ (c.valid /\ a = k)
  <2>1. since' = IF c.valid THEN [since EXCEPT ![k] = 0] ELSE since
    BY <1>1
  <2>2. 0 \in 0 .. TryInterval
    BY GroupConstants
  <2> QED BY <1>2, <2>1, <2>2, GroupInvFacts
<1>8. position' \in Group!Members /\ server' = server /\ pick' \in 0 .. N
  BY <1>1, <1>2, GroupConstants
<1>9. Group!TypeOK'
  BY <1>5, <1>6, <1>7, <1>8, GroupInvFacts DEF Group!TypeOK
<1>10. \A a \in Group!Members : proxies'[a].timeouts <= proxies'[a].total
  BY <1>5, GroupInvFacts DEF CheckedFrom
<1>11. Rested'
  <2> SUFFICES ASSUME NEW a \in Group!Members, ~proxies'[a].active
               PROVE  proxies'[a].retry <= since'[a]
    BY DEF Rested
  <2>1. since'[a] \in 0 .. TryInterval
    BY <1>7
  <2>2. ~proxies[a].active /\ (proxies'[a].retry = proxies[a].retry \/ proxies'[a].retry = 0)
    BY <1>5 DEF CheckedFrom
  <2>3. proxies[a].retry <= since[a]
    BY <2>2, GroupInvFacts
  <2>4. CASE c.valid /\ a = k
    BY <1>5, <2>1, <2>4
  <2>5. CASE since'[a] = since[a]
    BY <2>1, <2>2, <2>3, <2>5
  <2> QED BY <1>7, <2>4, <2>5
<1> QED BY <1>6, <1>9, <1>10, <1>11 DEF GroupInv

(* A call ends: an adapter that is disabled begins to rest.                *)
LEMMA FinishStep ==
  ASSUME GroupInv, NEW a \in Group!Members, NEW bTimeout \in BOOLEAN,
         NEW left \in [ok : 0 .. MaxOut, lost : 0 .. MaxOut], left.ok + left.lost <= MaxOut,
         Group!finishInvoke(a, bTimeout, left)
  PROVE  GroupInv'
<1> DEFINE x == Group!Finished(proxies[a], bTimeout)
           ends == (proxies[a].active \/ bTimeout) /\ Group!IntervalEnds(x)
           disabled == ends /\ Group!TooManyTimeouts(x)
           off == [Group!NewInterval(x) EXCEPT !.active = FALSE, !.connected = FALSE, !.retry = 0]
           y == IF disabled THEN off ELSE IF ends THEN Group!NewInterval(x) ELSE x
           o == IF disabled THEN [ok |-> 0, lost |-> left.ok + left.lost] ELSE left
<1>1. /\ ends \/ x.total <= MaxTotal
      /\ proxies' = [proxies EXCEPT ![a] = y]
      /\ out' = [out EXCEPT ![a] = o]
      /\ since' = IF disabled \/ ~bTimeout THEN [since EXCEPT ![a] = 0] ELSE since
      /\ pick' = 0
      /\ UNCHANGED <<position, server>>
  BY DEF Group!finishInvoke
<1>2. /\ proxies[a] \in Group!Adapter /\ proxies[a].timeouts <= proxies[a].total
      /\ N \in Nat \ {0} /\ TryInterval \in Nat /\ MaxTotal \in Nat /\ MaxOut \in Nat
      /\ FailFrequency \in Nat /\ Group!FinishLimit \in Nat /\ TransInterval \in Nat
  BY GroupInvFacts, GroupConstants
<1>3. /\ x.active \in BOOLEAN /\ x.connected \in BOOLEAN /\ x.retry \in 0 .. TryInterval
      /\ x.finish \in 0 .. Group!FinishLimit /\ x.trans \in 0 .. TransInterval + 1
      /\ x.total \in Nat /\ x.timeouts \in Nat /\ x.timeouts <= x.total
      /\ x.failures \in 0 .. FailFrequency
      /\ x = [active |-> x.active, connected |-> x.connected, retry |-> x.retry,
              finish |-> x.finish, trans |-> x.trans, total |-> x.total,
              timeouts |-> x.timeouts, failures |-> x.failures]
      /\ ~x.active => ~proxies[a].active /\ bTimeout /\ x.retry = proxies[a].retry
  <2>1. CASE ~proxies[a].active /\ ~bTimeout
    <3>1. x = [proxies[a] EXCEPT !.active = TRUE, !.retry = 0, !.finish = 0, !.failures = 0,
                                 !.total = 1, !.timeouts = 0]
      BY <2>1 DEF Group!Finished
    <3> HIDE DEF x
    <3>2. proxies[a] = [active |-> proxies[a].active, connected |-> proxies[a].connected,
                        retry |-> proxies[a].retry, finish |-> proxies[a].finish,
                        trans |-> proxies[a].trans, total |-> proxies[a].total,
                        timeouts |-> proxies[a].timeouts, failures |-> proxies[a].failures]
          /\ proxies[a].connected \in BOOLEAN /\ proxies[a].trans \in 0 .. TransInterval + 1
      BY <1>2 DEF Group!Adapter
    <3>3. x = [active |-> TRUE, connected |-> proxies[a].connected, retry |-> 0, finish |-> 0,
               trans |-> proxies[a].trans, total |-> 1, timeouts |-> 0, failures |-> 0]
      BY <3>1, <3>2
    <3> QED BY <1>2, <3>2, <3>3
  <2>2. CASE ~(~proxies[a].active /\ ~bTimeout)
    <3> DEFINE f == IF bTimeout
                      THEN IF proxies[a].failures < FailFrequency
                             THEN proxies[a].failures + 1 ELSE proxies[a].failures
                      ELSE 0
               t == IF bTimeout THEN proxies[a].timeouts + 1 ELSE proxies[a].timeouts
    <3>1. x = [proxies[a] EXCEPT !.failures = f, !.total = @ + 1, !.timeouts = t]
      BY <2>2 DEF Group!Finished, Group!Counted
    <3>2. f \in 0 .. FailFrequency /\ t \in Nat /\ t <= proxies[a].total + 1
          /\ proxies[a].total + 1 \in Nat
      BY <1>2 DEF Group!Adapter
    <3> HIDE DEF f, t, x
    <3>3. ~x.active => ~proxies[a].active /\ bTimeout /\ x.retry = proxies[a].retry
      BY <1>2, <2>2, <3>1 DEF Group!Adapter
    <3> QED BY <1>2, <3>1, <3>2, <3>3 DEF Group!Adapter
  <2> QED BY <2>1, <2>2
<1> HIDE DEF x
<1>4. /\ y \in Group!Adapter /\ y.timeouts <= y.total
      /\ ~y.active => \/ disabled /\ y.retry = 0
                      \/ ~disabled /\ ~x.active /\ y.retry = x.retry
  <2>1. Group!NewInterval(x) \in Group!Adapter /\ off \in Group!Adapter
    <3>1. /\ 0 \in 0 .. TryInterval /\ 0 \in 0 .. Group!FinishLimit /\ 0 \in 0 .. MaxTotal
          /\ 0 \in 0 .. FailFrequency
      BY <1>2
    <3>2. x \in [active : BOOLEAN, connected : BOOLEAN, retry : 0 .. TryInterval,
                 finish : 0 .. Group!FinishLimit, trans : 0 .. TransInterval + 1,
                 total : Nat, timeouts : Nat, failures : 0 .. FailFrequency]
      BY <1>3
    <3> DEFINE z == [x EXCEPT !.finish = 0, !.failures = 0, !.total = 0, !.timeouts = 0]
    <3>3. z \in Group!Adapter
      BY <3>1, <3>2 DEF Group!Adapter
    <3>4. Group!NewInterval(x) = z
      BY DEF Group!NewInterval
    <3> HIDE DEF z
    <3>5. off \in Group!Adapter
      BY <3>1, <3>3, <3>4 DEF Group!Adapter
    <3> QED BY <3>3, <3>4, <3>5
  <2>2. CASE disabled
    BY <1>2, <1>3, <2>1, <2>2 DEF Group!NewInterval
  <2>3. CASE ~disabled /\ ends
    BY <1>2, <1>3, <2>1, <2>3 DEF Group!NewInterval
  <2>4. CASE ~ends
    <3>1. x.total \in 0 .. MaxTotal /\ x.timeouts \in 0 .. MaxTotal
      BY <1>1, <1>2, <1>3, <2>4
    <3>2. x \in Group!Adapter
      BY <1>3, <3>1 DEF Group!Adapter
    <3> QED BY <1>3, <2>4, <3>2
  <2> QED BY <2>2, <2>3, <2>4
<1>5. o \in [ok : 0 .. MaxOut, lost : 0 .. MaxOut] /\ o.ok + o.lost <= MaxOut
  BY <1>2
<1> HIDE DEF y, o, disabled
<1>6. /\ proxies' \in [Group!Members -> Group!Adapter] /\ proxies'[a] = y
      /\ \A b \in Group!Members : b # a => proxies'[b] = proxies[b]
      /\ out' \in [Group!Members -> [ok : 0 .. MaxOut, lost : 0 .. MaxOut]] /\ out'[a] = o
      /\ \A b \in Group!Members : b # a => out'[b] = out[b]
  BY <1>1, <1>4, <1>5, GroupInvFacts
<1>7. /\ since' \in [Group!Members -> 0 .. TryInterval]
      /\ since'[a] = IF disabled \/ ~bTimeout THEN 0 ELSE since[a]
      /\ \A b \in Group!Members : b # a => since'[b] = since[b]
  BY <1>1, <1>2, GroupInvFacts
<1>8. Group!TypeOK'
  <2>1. position' \in Group!Members /\ server' = server /\ pick' \in 0 .. N
    BY <1>1, GroupInvFacts
  <2> QED BY <1>6, <1>7, <2>1, GroupInvFacts DEF Group!TypeOK
<1>9. \A b \in Group!Members : /\ proxies'[b].timeouts <= proxies'[b].total
                                /\ out'[b].ok + out'[b].lost <= MaxOut
  BY <1>4, <1>5, <1>6, GroupInvFacts
<1>10. Rested'
  <2> SUFFICES ASSUME NEW b \in Group!Members, ~proxies'[b].active
               PROVE  proxies'[b].retry <= since'[b]
    BY DEF Rested
  <2>1. CASE b # a
    BY <1>6, <1>7, <2>1, GroupInvFacts
  <2>2. CASE b = a /\ disabled
    BY <1>4, <1>6, <1>7, <2>2
  <2>3. CASE b = a /\ ~disabled
    BY <1>3, <1>4, <1>6, <1>7, <2>3, GroupInvFacts
  <2> QED BY <2>1, <2>2, <2>3
<1> QED BY <1>8, <1>9, <1>10 DEF GroupInv

LEMMA FinishSteps ==
  ASSUME GroupInv, NEW a \in Group!Members, Group!Answer(a) \/ Group!TimeOut(a)
  PROVE  GroupInv'
<1>1. /\ out[a] \in [ok : 0 .. MaxOut, lost : 0 .. MaxOut] /\ MaxOut \in Nat
      /\ out[a].ok \in 0 .. MaxOut /\ out[a].lost \in 0 .. MaxOut
      /\ out[a].ok + out[a].lost <= MaxOut
  BY GroupInvFacts
<1>2. CASE Group!Answer(a)
  <2> DEFINE left == [out[a] EXCEPT !.ok = @ - 1]
  <2>1. Group!finishInvoke(a, FALSE, left) /\ out[a].ok > 0
    BY <1>2 DEF Group!Answer
  <2>2. left \in [ok : 0 .. MaxOut, lost : 0 .. MaxOut] /\ left.ok + left.lost <= MaxOut
    BY <1>1, <2>1
  <2> HIDE DEF left
  <2> QED BY <2>1, <2>2, FinishStep
<1>3. CASE Group!TimeOut(a)
  <2> DEFINE left == [out[a] EXCEPT !.lost = @ - 1]
  <2>1. Group!finishInvoke(a, TRUE, left) /\ out[a].lost > 0
    BY <1>3 DEF Group!TimeOut
  <2>2. left \in [ok : 0 .. MaxOut, lost : 0 .. MaxOut] /\ left.ok + left.lost <= MaxOut
    BY <1>1, <2>1
  <2> HIDE DEF left
  <2> QED BY <2>1, <2>2, FinishStep
<1> QED BY <1>2, <1>3

LEMMA ServerStep ==
  ASSUME GroupInv, NEW a \in Group!Members, Group!ServerChanges(a)
  PROVE  GroupInv'
<1>1. PICK s \in {"up", "silent", "down"} :
        /\ server' = [server EXCEPT ![a] = s]
        /\ proxies' = [proxies EXCEPT ![a].connected = @ /\ s # "down"]
        /\ out' = IF s = "up" THEN out
                  ELSE [out EXCEPT ![a] = [ok |-> 0, lost |-> out[a].ok + out[a].lost]]
  BY DEF Group!ServerChanges
<1>2. pick' = 0 /\ UNCHANGED <<position, since>>
  BY DEF Group!ServerChanges
<1> DEFINE on == proxies[a].connected /\ s # "down"
           y == [proxies[a] EXCEPT !.connected = on]
           o == IF s = "up" THEN out[a] ELSE [ok |-> 0, lost |-> out[a].ok + out[a].lost]
<1>3. y \in Group!Adapter /\ y.active = proxies[a].active /\ y.retry = proxies[a].retry
      /\ y.timeouts = proxies[a].timeouts /\ y.total = proxies[a].total
  <2>1. proxies[a] \in Group!Adapter /\ on \in BOOLEAN
    BY GroupInvFacts DEF Group!Adapter
  <2> HIDE DEF on
  <2> QED BY <2>1 DEF Group!Adapter
<1>4. o \in [ok : 0 .. MaxOut, lost : 0 .. MaxOut] /\ o.ok + o.lost <= MaxOut
  BY GroupInvFacts
<1>5. proxies' = [proxies EXCEPT ![a] = y] /\ out' = [out EXCEPT ![a] = o]
  <2>1. proxies' = [proxies EXCEPT ![a] = y]
    BY <1>1
  <2>2. CASE s = "up"
    BY <1>1, <2>1, <2>2, GroupInvFacts
  <2>3. CASE s # "up"
    BY <1>1, <2>1, <2>3
  <2> QED BY <2>2, <2>3
<1> HIDE DEF y, o
<1>6. /\ proxies' \in [Group!Members -> Group!Adapter] /\ proxies'[a] = y
      /\ \A b \in Group!Members : b # a => proxies'[b] = proxies[b]
      /\ out' \in [Group!Members -> [ok : 0 .. MaxOut, lost : 0 .. MaxOut]] /\ out'[a] = o
      /\ \A b \in Group!Members : b # a => out'[b] = out[b]
      /\ server' \in [Group!Members -> {"up", "silent", "down"}]
  <2>1. server' = [server EXCEPT ![a] = s]
    BY <1>1
  <2> QED BY <1>3, <1>4, <1>5, <2>1, GroupInvFacts
<1>7. Group!TypeOK'
  BY <1>2, <1>6, GroupInvFacts DEF Group!TypeOK
<1>8. \A b \in Group!Members : /\ proxies'[b].timeouts <= proxies'[b].total
                                /\ out'[b].ok + out'[b].lost <= MaxOut
  BY <1>3, <1>4, <1>6, GroupInvFacts
<1>9. Rested'
  BY <1>2, <1>3, <1>6, GroupInvFacts DEF Rested
<1> QED BY <1>7, <1>8, <1>9 DEF GroupInv

(* Time passes for what the code believes and for what is so.              *)
LEMMA TickStep ==
  ASSUME GroupInv, Group!Tick
  PROVE  GroupInv'
<1> DEFINE y(a) == [proxies[a] EXCEPT
                      !.retry = IF proxies[a].active THEN 0 ELSE Group!Older(@, TryInterval),
                      !.finish = Group!Older(@, Group!FinishLimit),
                      !.trans = Group!Older(@, TransInterval + 1)]
<1>1. /\ proxies' = [a \in Group!Members |-> y(a)]
      /\ since' = [a \in Group!Members |->
                     IF proxies[a].active THEN 0 ELSE Group!Older(since[a], TryInterval)]
      /\ pick' = 0 /\ UNCHANGED <<position, out, server>>
  BY DEF Group!Tick
<1>2. \A limit \in Nat : \A age \in 0 .. limit : Group!Older(age, limit) \in 0 .. limit
  BY DEF Group!Older
<1>3. ASSUME NEW a \in Group!Members
      PROVE  /\ y(a) \in Group!Adapter /\ y(a).active = proxies[a].active
             /\ y(a).timeouts = proxies[a].timeouts /\ y(a).total = proxies[a].total
             /\ ~proxies[a].active => y(a).retry = Group!Older(proxies[a].retry, TryInterval)
  <2> DEFINE r == IF proxies[a].active THEN 0 ELSE Group!Older(proxies[a].retry, TryInterval)
             f == Group!Older(proxies[a].finish, Group!FinishLimit)
             t == Group!Older(proxies[a].trans, TransInterval + 1)
  <2>1. /\ proxies[a] \in Group!Adapter /\ proxies[a].retry \in 0 .. TryInterval
        /\ proxies[a].finish \in 0 .. Group!FinishLimit
        /\ proxies[a].trans \in 0 .. TransInterval + 1
    BY GroupInvFacts DEF Group!Adapter
  <2>2. TryInterval \in Nat /\ Group!FinishLimit \in Nat /\ TransInterval + 1 \in Nat
    BY GroupConstants
  <2>3. r \in 0 .. TryInterval /\ f \in 0 .. Group!FinishLimit /\ t \in 0 .. TransInterval + 1
    <3>1. r \in 0 .. TryInterval
      BY <1>2, <2>1, <2>2
    <3>2. f \in 0 .. Group!FinishLimit
      BY <1>2, <2>1, <2>2
    <3>3. t \in 0 .. TransInterval + 1
      BY <1>2, <2>1, <2>2
    <3> QED BY <3>1, <3>2, <3>3
  <2>4. y(a) = [proxies[a] EXCEPT !.retry = r, !.finish = f, !.trans = t]
    OBVIOUS
  <2>5. ~proxies[a].active => r = Group!Older(proxies[a].retry, TryInterval)
    OBVIOUS
  <2> HIDE DEF r, f, t, y
  <2> QED BY <2>1, <2>3, <2>4, <2>5 DEF Group!Adapter
<1> HIDE DEF y
<1>4. ASSUME NEW a \in Group!Members
      PROVE  /\ proxies'[a] = y(a)
             /\ since'[a] = IF proxies[a].active THEN 0 ELSE Group!Older(since[a], TryInterval)
             /\ since'[a] \in 0 .. TryInterval
  <2>1. since[a] \in 0 .. TryInterval /\ TryInterval \in Nat
    BY GroupInvFacts
  <2>2. Group!Older(since[a], TryInterval) \in 0 .. TryInterval
    BY <1>2, <2>1
  <2> QED BY <1>1, <2>1, <2>2
<1>5. /\ proxies' \in [Group!Members -> Group!Adapter]
      /\ since' \in [Group!Members -> 0 .. TryInterval]
  BY <1>1, <1>3, <1>4
<1>6. Group!TypeOK'
  BY <1>1, <1>5, GroupInvFacts DEF Group!TypeOK
<1>7. \A a \in Group!Members : /\ proxies'[a].timeouts <= proxies'[a].total
                                /\ out'[a].ok + out'[a].lost <= MaxOut
  BY <1>1, <1>3, <1>4, GroupInvFacts
<1>8. Rested'
  <2> SUFFICES ASSUME NEW a \in Group!Members, ~proxies'[a].active
               PROVE  proxies'[a].retry <= since'[a]
    BY DEF Rested
  <2>1. ~proxies[a].active /\ proxies[a].retry <= since[a]
        /\ proxies[a].retry \in 0 .. TryInterval /\ since[a] \in 0 .. TryInterval
        /\ TryInterval \in Nat
    BY <1>3, <1>4, GroupInvFacts
  <2>2. /\ proxies'[a].retry = Group!Older(proxies[a].retry, TryInterval)
        /\ since'[a] = Group!Older(since[a], TryInterval)
    BY <1>3, <1>4, <2>1
  <2> QED BY <2>1, <2>2 DEF Group!Older
<1> QED BY <1>6, <1>7, <1>8 DEF GroupInv

LEMMA GroupStep ==
  ASSUME GroupInv, [Group!Next]_(Group!vars)
  PROVE  GroupInv'
<1>1. CASE UNCHANGED Group!vars
  BY <1>1 DEF Group!vars, GroupInv, Group!TypeOK, Rested
<1>2. ASSUME NEW hash \in 0 .. N, Group!invoke(hash) PROVE GroupInv'
  <2> DEFINE own == hash # 0
  <2>1. Group!Call(hash, own)
    BY <1>2 DEF Group!invoke
  <2> HIDE DEF own
  <2> QED BY <2>1, CallStep
<1>3. ASSUME NEW a \in Group!Members,
             Group!Answer(a) \/ Group!TimeOut(a) \/ Group!ServerChanges(a)
      PROVE  GroupInv'
  BY <1>3, FinishSteps, ServerStep
<1> QED BY <1>1, <1>2, <1>3, TickStep DEF Group!Next

(* A choice of a server that has not rested is the last resort.            *)
LEMMA SpacedStep ==
  ASSUME GroupInv, Group!Next, NEW a \in Group!Members,
         pick' = a, ~proxies[a].active, since[a] < TryInterval,
         NEW b \in Group!Members, b # a
  PROVE  ~(proxies'[b].active /\ proxies'[b].connected)
<1>1. PICK hash \in 0 .. N : Group!invoke(hash)
  <2>1. a # 0
    BY GroupInvFacts
  <2> QED BY <2>1 DEF Group!Next, Group!Answer, Group!TimeOut, Group!finishInvoke,
                      Group!ServerChanges, Group!Tick
<1>2. PICK c \in Group!selectFromGroup(hash) :
        proxies' = Group!Transceiver(c.ad, c.chosen) /\ pick' = c.chosen
  BY <1>1 DEF Group!invoke, Group!Call
<1>3. /\ c.ad \in [Group!Members -> Group!Adapter] /\ c.chosen = a
      /\ c.valid => proxies[a].retry = TryInterval
      /\ ~c.valid => ~(c.ad[b].active /\ c.ad[b].connected)
  BY <1>2, ChoiceFacts DEF GroupInv
<1>4. proxies[a].retry # TryInterval
  <2>1. /\ proxies[a].retry \in 0 .. TryInterval /\ since[a] \in 0 .. TryInterval
        /\ proxies[a].retry <= since[a]
    BY GroupInvFacts
  <2> QED BY <2>1
<1>5. proxies'[b] = c.ad[b]
  BY <1>2, <1>3 DEF Group!Transceiver
<1> QED BY <1>3, <1>4, <1>5

(* A server that is disabled gets no call before its interval is over      *)
(* while an enabled one has a connection, in a group of any size: its age  *)
(* is what selectFromGroup believes, or more.                              *)
THEOREM RetriesStaySpaced == Group!Spec => RetriesAreSpaced
<1>1. Group!Init => GroupInv
  BY GroupInitial
<1>2. GroupInv /\ [Group!Next]_(Group!vars) => GroupInv'
  BY GroupStep
<1>3. GroupInv => Group!TypeOK
  BY DEF GroupInv
<1> DEFINE Spaced == \A a \in Group!Members :
                       pick' = a /\ ~proxies[a].active /\ since[a] < TryInterval =>
                         \A b \in Group!Members \ {a} : ~(proxies'[b].active /\ proxies'[b].connected)
<1>4. GroupInv /\ Group!Next => Spaced
  BY SpacedStep
<1> QED BY <1>1, <1>2, <1>3, <1>4, PTL DEF Group!Spec, RetriesAreSpaced, Group!RetriesAreSpaced
=============================================================================
