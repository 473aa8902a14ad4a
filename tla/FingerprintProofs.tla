-------------------------- MODULE FingerprintProofs --------------------------
(***************************************************************************)
(* Trees of any size and any depth limit: the tokens are what the hash has   *)
(* seen, and the hash is that of Expected. The argument for the tokens: a    *)
(* hash that a field saved is a proper prefix of the hash of its context     *)
(* until that field ends, fields in one context end in the reverse order of  *)
(* their beginning, and a context is freed when nothing is left to do in it. *)
(* For the hash: what is left to do leads from the hash of the innermost     *)
(* context to the expected one, each entry adding what is expected of it.    *)
(* For the visits: those a node has had and those it is called for are paid  *)
(* for by the visits of its parents and by the sorting of its list.          *)
(***************************************************************************)
EXTENDS Fingerprint, TLAPS, FiniteSetTheorems, WellFoundedInduction

TreeOK ==
  /\ kind \in Seq(Kinds) /\ Len(kind) >= 1
  /\ children \in Seq(Seq(Nodes)) /\ Len(children) = Len(kind)

Strings == Seq(Kinds)
IsPrefixOf(p, s) == Len(p) < Len(s) /\ \A k \in 1 .. Len(p) : p[k] = s[k]

Entries ==
  [op : {"node", "field", "ended", "item", "digest", "sort", "next"},
   node : Nodes, i : Nat, ctx : Nat, prev : Strings]

\* What an entry of todo needs of the hashes, the cache and the lists.
EntryIn(e, hashes, items, cache) ==
  /\ e.ctx >= 1 /\ e.ctx <= Len(hashes)
  /\ e.op \in {"item", "digest"} => e.i \in 1 .. Len(children[e.node])
  /\ e.op \in {"item", "digest", "sort"} => Len(items[e.node]) = Len(children[e.node])
  /\ e.op = "next" => e.i \in 1 .. Len(cache[e.node])
  /\ e.op = "digest" => e.ctx > 1
  /\ e.op = "ended" => IsPrefixOf(e.prev, hashes[e.ctx])

\* What two entries need of each other, the one done first given first.
InOrder(e, f) ==
  /\ f.ctx <= e.ctx
  /\ e.op = "digest" => f.ctx < e.ctx
  /\ e.op = "ended" /\ f.op = "ended" /\ e.ctx = f.ctx => IsPrefixOf(f.prev, e.prev)

TodoOK ==
  /\ \A k \in DOMAIN todo : EntryIn(todo[k], contexts, listsort_items, listsort_cache)
  /\ \A k, l \in DOMAIN todo : k < l => InOrder(todo[k], todo[l])

ListsOK ==
  /\ listsort_items \in [Nodes -> Seq(Strings)]
  /\ listsort_cache \in [Nodes -> Seq(Nat)]
  /\ \A n \in Nodes : Len(listsort_cache[n]) \in {0, Len(children[n])}
  /\ \A n \in Nodes : \A k \in 1 .. Len(listsort_cache[n]) :
       listsort_cache[n][k] \in 1 .. Len(children[n])

IInv ==
  /\ TreeOK
  /\ contexts \in Seq(Strings) /\ Len(contexts) >= 1
  /\ TokensAgree
  /\ todo \in Seq(Entries) /\ TodoOK
  /\ phase = "parse" => todo = <<>>
  /\ phase # "parse" => ListsOK

\* NULL pointers are never hashed.
Words == Kinds \ {"null"}
Texts == Seq(Words)

-----------------------------------------------------------------------------
(* The reference: Expected is what its equation says, and texts.             *)

\* Children are one rank further down; so is what "again" shares with its neighbour.
IsRank(r) ==
  /\ r \in [Nodes -> 0 .. Len(kind)]
  /\ \A n \in Nodes : \A i \in DOMAIN children[n] : r[children[n][i]] = r[n] + 1
  /\ \A n \in Nodes \ {1} : r[n] = r[parent[n]] + 1

KindsOK ==
  /\ \A n \in Nodes : children[n] # <<>> => kind[n] \in Lists \cup {"struct", "again"}
  /\ \A n \in Nodes : kind[n] \in {"struct", "again"} =>
       \A i \in DOMAIN children[n] : kind[children[n][i]] # "null"

ParentsOK ==
  /\ parent \in Seq(Nat) /\ Len(parent) = Len(kind) /\ parent[1] = 0
  /\ \A n \in Nodes \ {1} : parent[n] \in 1 .. n - 1

RankedTree == KindsOK /\ ParentsOK /\ \E r : IsRank(r)

Items(n) == [i \in DOMAIN children[n] |-> Expected[children[n][i]]]

-----------------------------------------------------------------------------
(* The hash is that of Expected. What an entry of todo makes of the hash of  *)
(* its context is After; a chain of such hashes leads from the hash of the  *)
(* innermost context to the expected one.                                   *)

Child(n, i) == Expected[children[n][i]]

\* The hash of a context after an entry in it is done, from the one before.
After(e, s, cache) ==
  CASE e.op \in {"node", "sort"} -> s \o Expected[e.node]
    [] e.op = "field" -> s \o Named(e.node, Expected[e.node])
    [] e.op = "ended" -> IF Len(s) = Len(e.prev) + 1 /\ ~OnlyNull(e.node) THEN e.prev ELSE s
    [] e.op = "item" -> s
    [] e.op = "next" ->
         IF e.i > 1 /\ Child(e.node, cache[e.node][e.i - 1]) = Child(e.node, cache[e.node][e.i])
         THEN s ELSE s \o Child(e.node, cache[e.node][e.i])

\* The innermost context and its hash.
Points == [ctx : Nat, hash : Texts]
At(c, s) == [ctx |-> c, hash |-> s]

\* From the point before an entry to the one behind it.
Leads(e, s, t, hashes, cache) ==
  /\ e.ctx = s.ctx
  /\ IF e.op = "digest"
     THEN s.hash = Child(e.node, e.i) /\ t = At(s.ctx - 1, hashes[s.ctx - 1])
     ELSE t = At(s.ctx, After(e, s.hash, cache))

Chain(g) ==
  /\ g \in [1 .. Len(todo) + 1 -> Points]
  /\ g[1] = At(Len(contexts), contexts[Len(contexts)])
  /\ g[Len(todo) + 1] = At(1, Expected[1])
  /\ \A k \in 1 .. Len(todo) : Leads(todo[k], g[k], g[k + 1], contexts, listsort_cache)

\* Entries of lists that are being sorted or written.
InItem == {"item", "digest", "next"}
OfList == InItem \cup {"sort"}
Deep(n) == Depth[n] >= MaxDepth

EntryOK(e) ==
  /\ e.op \in OfList => kind[e.node] = "sorted" /\ ~Deep(e.node)
  /\ e.op = "field" => kind[e.node] # "null"

EntriesOK == \A k \in 1 .. Len(todo) : EntryOK(todo[k])

\* What is further down in the tree is done first.
Level(r, e) == r[e.node] + IF e.op \in InItem THEN 1 ELSE 0
Descends(r) == \A k, l \in 1 .. Len(todo) : k < l => Level(r, todo[l]) <= Level(r, todo[k])

\* An item is hashed, or its hash is on its way.
Covered(n, i, items, entries, l) ==
  \/ items[n][i] = Child(n, i)
  \/ \E k \in 1 .. l - 1 :
       entries[k].op \in {"item", "digest"} /\ entries[k].node = n /\ entries[k].i = i

ItemsHashed ==
  \A l \in 1 .. Len(todo) : todo[l].op = "sort" =>
    \A i \in DOMAIN children[todo[l].node] : Covered(todo[l].node, i, listsort_items, todo, l)

InSortOrder(n, order) ==
  /\ order \in [1 .. Len(children[n]) -> 1 .. Len(children[n])]
  /\ \A i \in 1 .. Len(children[n]) : \E j \in 1 .. Len(children[n]) : order[j] = i
  /\ \A i, j \in 1 .. Len(children[n]) : i < j => ~Less(Child(n, order[j]), Child(n, order[i]))

Hashed(n, items) == \A i \in DOMAIN children[n] : items[n][i] = Child(n, i)
CacheOK ==
  \A n \in Nodes : listsort_cache[n] # <<>> =>
    Hashed(n, listsort_items) /\ InSortOrder(n, listsort_cache[n])

EWalk ==
  /\ CacheOK /\ ItemsHashed /\ EntriesOK
  /\ \E g : Chain(g)
  /\ \E r : IsRank(r) /\ Descends(r)

EInv ==
  /\ RankedTree
  /\ phase = "parse" => contexts = <<<<>>>>
  /\ phase # "parse" => EWalk
  /\ phase = "done" => todo = <<>>

-----------------------------------------------------------------------------
(* Lemmas.                                                                   *)

\* The children of a node are nodes.
LEMMA ChildrenType ==
  ASSUME TreeOK, NEW n \in Nodes
  PROVE  children[n] \in Seq(Nodes) /\ kind[n] \in Kinds
BY DEF TreeOK, Nodes

\* A string more makes what was before a proper prefix.
LEMMA PrefixAppend ==
  ASSUME NEW s \in Strings, NEW x \in Kinds
  PROVE  /\ Append(s, x) \in Strings /\ IsPrefixOf(s, Append(s, x))
         /\ \A p \in Strings : IsPrefixOf(p, s) => IsPrefixOf(p, Append(s, x))
<1> DEFINE t == Append(s, x)
<1>1. /\ t \in Strings /\ Len(t) = Len(s) + 1 /\ Len(s) \in Nat
      /\ \A k \in 1 .. Len(s) : t[k] = s[k]
  BY DEF Strings
<1> HIDE DEF t
<1>2. IsPrefixOf(s, t)
  BY <1>1 DEF IsPrefixOf
<1>3. ASSUME NEW p \in Strings, IsPrefixOf(p, s) PROVE IsPrefixOf(p, t)
  <2>1. Len(p) \in Nat /\ Len(p) < Len(s) /\ \A k \in 1 .. Len(p) : p[k] = s[k]
    BY <1>3 DEF IsPrefixOf, Strings
  <2>2. \A k \in 1 .. Len(p) : k \in 1 .. Len(s)
    BY <2>1, <1>1
  <2> QED BY <1>1, <2>1, <2>2 DEF IsPrefixOf
<1> QED BY <1>1, <1>2, <1>3 DEF t

\* What is shorter by one string than what it is a prefix of is its front.
LEMMA PrefixFront ==
  ASSUME NEW p \in Strings, NEW s \in Strings, IsPrefixOf(p, s), Len(s) = Len(p) + 1
  PROVE  Front(s) = p
<1>1. Len(p) \in Nat /\ p \in Seq(Kinds) /\ s \in Seq(Kinds)
  BY DEF Strings
<1>2. Front(s) = SubSeq(s, 1, Len(p))
  BY <1>1 DEF Front
<1>3. SubSeq(s, 1, Len(p)) = [k \in 1 .. Len(p) |-> s[k]]
  BY <1>1
<1>4. p = [k \in 1 .. Len(p) |-> p[k]]
  BY <1>1
<1> QED BY <1>2, <1>3, <1>4 DEF IsPrefixOf

\* The entry done next and those behind it.
LEMMA HeadOK ==
  ASSUME IInv, todo # <<>>
  PROVE  /\ Head(todo) \in Entries
         /\ EntryIn(Head(todo), contexts, listsort_items, listsort_cache)
         /\ \A j \in 2 .. Len(todo) :
              /\ todo[j] \in Entries
              /\ EntryIn(todo[j], contexts, listsort_items, listsort_cache)
              /\ InOrder(Head(todo), todo[j])
<1>1. todo \in Seq(Entries) /\ TodoOK
  BY DEF IInv
<1>2. Len(todo) \in Nat /\ Len(todo) >= 1 /\ Head(todo) = todo[1] /\ DOMAIN todo = 1 .. Len(todo)
  BY <1>1
<1>3. \A j \in 1 .. Len(todo) : todo[j] \in Entries
  BY <1>1
<1>4. 1 \in DOMAIN todo /\ \A j \in 2 .. Len(todo) : j \in DOMAIN todo /\ 1 < j
  BY <1>2
<1> QED BY <1>1, <1>2, <1>3, <1>4 DEF TodoOK

\* A step that puts calls in the place of the entry done.
LEMMA Replace ==
  ASSUME IInv, todo # <<>>, NEW new \in Seq(Entries), Then(new), UNCHANGED tree,
         \A k \in 1 .. Len(new) : EntryIn(new[k], contexts', listsort_items', listsort_cache'),
         \A k, l \in 1 .. Len(new) : k < l => InOrder(new[k], new[l]),
         \A j \in 2 .. Len(todo) :
           /\ EntryIn(todo[j], contexts', listsort_items', listsort_cache')
           /\ \A k \in 1 .. Len(new) : InOrder(new[k], todo[j])
  PROVE  todo' \in Seq(Entries') /\ TodoOK'
<1>1. Entries' = Entries /\ children' = children
  BY DEF tree, Entries, Nodes
<1>2. /\ todo \in Seq(Entries) /\ Len(todo) \in Nat /\ Len(todo) >= 1
      /\ \A k, l \in DOMAIN todo : k < l => InOrder(todo[k], todo[l])
  BY DEF IInv, TodoOK
<1> HIDE DEF Entries
<1> DEFINE m == Len(new)
<1>3. /\ Tail(todo) \in Seq(Entries) /\ Len(Tail(todo)) = Len(todo) - 1
      /\ \A j \in 1 .. Len(todo) - 1 : Tail(todo)[j] = todo[j + 1]
  BY <1>2
<1>4. /\ todo' \in Seq(Entries) /\ Len(todo') = m + Len(todo) - 1 /\ m \in Nat
      /\ \A k \in 1 .. m : todo'[k] = new[k]
      /\ \A k \in m + 1 .. m + (Len(todo) - 1) : todo'[k] = Tail(todo)[k - m]
  <2>1. todo' = new \o Tail(todo)
    BY DEF Then
  <2> QED BY <2>1, <1>2, <1>3
<1>5. m \in Nat
  BY <1>4
<1> HIDE DEF m
<1>6. \A k \in 1 .. Len(todo') :
        \/ k \in 1 .. m /\ todo'[k] = new[k]
        \/ k > m /\ k - m + 1 \in 2 .. Len(todo) /\ todo'[k] = todo[k - m + 1]
  <2> TAKE k \in 1 .. Len(todo')
  <2>1. CASE k <= m
    BY <2>1, <1>4, <1>5
  <2>2. CASE k > m
    <3>1. k \in m + 1 .. m + (Len(todo) - 1) /\ k - m \in 1 .. Len(todo) - 1
          /\ k - m + 1 \in 2 .. Len(todo)
      BY <2>2, <1>2, <1>4, <1>5
    <3> QED BY <2>2, <3>1, <1>3, <1>4
  <2> QED BY <2>1, <2>2, <1>4, <1>5
<1>7. ASSUME NEW k \in 1 .. Len(todo')
      PROVE  EntryIn(todo'[k], contexts', listsort_items', listsort_cache')
  BY <1>6 DEF m
<1>8. ASSUME NEW k \in 1 .. Len(todo'), NEW l \in 1 .. Len(todo'), k < l
      PROVE  InOrder(todo'[k], todo'[l])
  <2>0. k \in Int /\ l \in Int /\ Len(todo) \in Nat /\ DOMAIN todo = 1 .. Len(todo)
    BY <1>2, <1>4
  <2>1. CASE k \in 1 .. m /\ l \in 1 .. m
    BY <2>1, <1>4, <1>8 DEF m
  <2>2. CASE k \in 1 .. m /\ l > m
    <3>1. l - m + 1 \in 2 .. Len(todo) /\ todo'[l] = todo[l - m + 1]
      BY <2>2, <1>5, <1>6
    <3> QED BY <2>2, <3>1, <1>4 DEF m
  <2>3. CASE k > m /\ l > m
    <3>1. /\ l - m + 1 \in 2 .. Len(todo) /\ todo'[l] = todo[l - m + 1]
          /\ k - m + 1 \in 2 .. Len(todo) /\ todo'[k] = todo[k - m + 1]
      BY <2>3, <1>5, <1>6
    <3>2. k - m + 1 < l - m + 1
      BY <2>0, <1>5, <1>8
    <3>3. k - m + 1 \in DOMAIN todo /\ l - m + 1 \in DOMAIN todo
      BY <3>1, <2>0
    <3> QED BY <3>1, <3>2, <3>3, <1>2
  <2>4. \/ k \in 1 .. m /\ l \in 1 .. m
        \/ k \in 1 .. m /\ l > m
        \/ k > m /\ l > m
    <3>1. k >= 1 /\ l >= 1
      OBVIOUS
    <3>2. \A x, y, z \in Int : x < y => (y <= z => x <= z) /\ (x > z => y > z)
      OBVIOUS
    <3>3. (k <= m \/ k > m) /\ (l <= m \/ l > m)
      BY <2>0, <1>5
    <3> QED BY <2>0, <3>1, <3>2, <3>3, <1>5, <1>8
  <2> QED BY <2>1, <2>2, <2>3, <2>4
<1>9. DOMAIN todo' = 1 .. Len(todo')
  BY <1>4
<1>10. TodoOK'
  BY <1>1, <1>7, <1>8, <1>9 DEF TodoOK, EntryIn
<1> QED BY <1>1, <1>4, <1>10

\* A step that puts nothing in the place of the entry done and leaves the rest alone.
LEMMA Pop ==
  ASSUME IInv, todo # <<>>, Then(<<>>), UNCHANGED <<tree, contexts, listsort_items, listsort_cache>>
  PROVE  todo' \in Seq(Entries') /\ TodoOK'
<1>1. <<>> \in Seq(Entries) /\ Len(<<>>) = 0
  OBVIOUS
<1>2. UNCHANGED tree /\ contexts' = contexts /\ listsort_items' = listsort_items
      /\ listsort_cache' = listsort_cache
  OBVIOUS
<1>3. \A j \in 2 .. Len(todo) : EntryIn(todo[j], contexts, listsort_items, listsort_cache)
  BY HeadOK
<1>4. \A k \in 1 .. Len(<<>>) : FALSE
  BY <1>1
<1> HIDE DEF Entries, EntryIn
<1> QED BY <1>1, <1>2, <1>3, <1>4, Replace

\* Calls for nodes, in the context of the entry done.
LEMMA CallNodes ==
  ASSUME IInv, todo # <<>>, NEW op \in {"node", "field"}, NEW ns \in Seq(Nodes),
         Then(Calls(op, ns)), UNCHANGED <<tree, listsort_items, listsort_cache>>,
         Len(contexts') = Len(contexts), Head(todo).op = "node",
         \A j \in 2 .. Len(todo) : EntryIn(todo[j], contexts', listsort_items, listsort_cache)
  PROVE  todo' \in Seq(Entries') /\ TodoOK'
<1> DEFINE new == Calls(op, ns)
<1>1. /\ Head(todo) \in Entries /\ EntryIn(Head(todo), contexts, listsort_items, listsort_cache)
      /\ \A j \in 2 .. Len(todo) : todo[j] \in Entries /\ InOrder(Head(todo), todo[j])
  BY HeadOK
<1>2. ctx \in Nat /\ ctx >= 1 /\ ctx <= Len(contexts')
  BY <1>1 DEF Entries, EntryIn, ctx
<1>3. \A n \in Nodes : Call(op, n, 0, ctx) \in Entries
  BY <1>2 DEF Call, Entries, Strings
<1>4. /\ new \in Seq(Entries) /\ Len(new) = Len(ns)
      /\ \A k \in 1 .. Len(new) : new[k] = Call(op, ns[k], 0, ctx)
  <2> HIDE DEF Entries, Call
  <2> QED BY <1>3 DEF Calls
<1>5. \A n : EntryIn(Call(op, n, 0, ctx), contexts', listsort_items, listsort_cache)
  BY <1>2 DEF Call, EntryIn
<1>6. \A n, o : InOrder(Call(op, n, 0, ctx), Call(op, o, 0, ctx))
  BY <1>2 DEF Call, InOrder
<1>7. \A n : \A j \in 2 .. Len(todo) : InOrder(Call(op, n, 0, ctx), todo[j])
  BY <1>1 DEF Call, InOrder, ctx
<1>8. UNCHANGED tree /\ listsort_items' = listsort_items /\ listsort_cache' = listsort_cache
  OBVIOUS
<1>9. /\ \A k \in 1 .. Len(new) : EntryIn(new[k], contexts', listsort_items', listsort_cache')
      /\ \A k, l \in 1 .. Len(new) : k < l => InOrder(new[k], new[l])
      /\ \A j \in 2 .. Len(todo) :
           /\ EntryIn(todo[j], contexts', listsort_items', listsort_cache')
           /\ \A k \in 1 .. Len(new) : InOrder(new[k], todo[j])
  <2> HIDE DEF Entries, EntryIn, InOrder, Call, new
  <2> QED BY <1>4, <1>5, <1>6, <1>7, <1>8
<1>10. Then(new)
  OBVIOUS
<1> HIDE DEF new
<1> QED BY <1>4, <1>8, <1>9, <1>10, Replace

\* Calls for the items of a list whose order is known.
LEMMA CallItems ==
  ASSUME IInv, todo # <<>>, Head(todo).op \in {"node", "sort"}, NEW order \in Seq(Nat),
         Then(ItemCalls("next", order)), UNCHANGED <<tree, contexts, listsort_items>>,
         order = listsort_cache'[node],
         \A j \in 2 .. Len(todo) : EntryIn(todo[j], contexts, listsort_items, listsort_cache')
  PROVE  todo' \in Seq(Entries') /\ TodoOK'
<1> DEFINE new == ItemCalls("next", order)
<1>1. /\ Head(todo) \in Entries /\ EntryIn(Head(todo), contexts, listsort_items, listsort_cache)
      /\ \A j \in 2 .. Len(todo) : todo[j] \in Entries /\ InOrder(Head(todo), todo[j])
  BY HeadOK
<1>2. ctx \in Nat /\ ctx >= 1 /\ ctx <= Len(contexts) /\ node \in Nodes
  BY <1>1 DEF Entries, EntryIn, ctx, node
<1>3. Len(order) \in Nat /\ \A i \in 1 .. Len(order) : i \in Nat
  OBVIOUS
<1>4. \A i \in Nat : Call("next", node, i, ctx) \in Entries
  BY <1>2 DEF Call, Entries, Strings
<1>5. /\ new \in Seq(Entries) /\ Len(new) = Len(order)
      /\ \A k \in 1 .. Len(new) : new[k] = Call("next", node, k, ctx)
  <2> HIDE DEF Entries, Call
  <2> QED BY <1>3, <1>4 DEF ItemCalls
<1>6. \A k \in 1 .. Len(order) :
        EntryIn(Call("next", node, k, ctx), contexts, listsort_items, listsort_cache')
  BY <1>2 DEF Call, EntryIn
<1>7. \A k, l : InOrder(Call("next", node, k, ctx), Call("next", node, l, ctx))
  BY <1>2 DEF Call, InOrder
<1>8. \A k : \A j \in 2 .. Len(todo) : InOrder(Call("next", node, k, ctx), todo[j])
  BY <1>1 DEF Call, InOrder, ctx
<1>9. UNCHANGED tree /\ listsort_items' = listsort_items /\ contexts' = contexts
  OBVIOUS
<1>10. /\ \A k \in 1 .. Len(new) : EntryIn(new[k], contexts', listsort_items', listsort_cache')
       /\ \A k, l \in 1 .. Len(new) : k < l => InOrder(new[k], new[l])
       /\ \A j \in 2 .. Len(todo) :
            /\ EntryIn(todo[j], contexts', listsort_items', listsort_cache')
            /\ \A k \in 1 .. Len(new) : InOrder(new[k], todo[j])
  <2> HIDE DEF Entries, EntryIn, InOrder, Call, new
  <2> QED BY <1>5, <1>6, <1>7, <1>8, <1>9
<1>11. Then(new)
  OBVIOUS
<1> HIDE DEF new
<1> QED BY <1>5, <1>9, <1>10, <1>11, Replace

\* A string goes to the hash of its context, and to the tokens from the first context.
LEMMA StringOK ==
  ASSUME IInv, todo # <<>>, NEW str \in Kinds, FingerprintString(str)
  PROVE  /\ contexts' \in Seq(Strings) /\ Len(contexts') = Len(contexts)
         /\ contexts'[ctx] = Append(Hash, str) /\ Hash \in Strings
         /\ tokens' = contexts'[1]
         /\ \A j \in 2 .. Len(todo) : EntryIn(todo[j], contexts', listsort_items, listsort_cache)
<1>1. /\ Head(todo) \in Entries /\ EntryIn(Head(todo), contexts, listsort_items, listsort_cache)
      /\ \A j \in 2 .. Len(todo) :
           todo[j] \in Entries /\ EntryIn(todo[j], contexts, listsort_items, listsort_cache)
  BY HeadOK
<1>2. ctx \in Nat /\ ctx >= 1 /\ ctx <= Len(contexts)
  BY <1>1 DEF Entries, EntryIn, ctx
<1>3. contexts \in Seq(Strings) /\ Len(contexts) \in Nat /\ tokens = contexts[1]
  BY DEF IInv, TokensAgree
<1>4. ctx \in 1 .. Len(contexts) /\ Hash \in Strings
  <2> HIDE DEF Strings
  <2> QED BY <1>2, <1>3 DEF Hash
<1> DEFINE h == Append(Hash, str)
<1>5. h \in Strings /\ \A p \in Strings : IsPrefixOf(p, Hash) => IsPrefixOf(p, h)
  BY <1>4, PrefixAppend
<1>6. contexts' = [contexts EXCEPT ![ctx] = h]
  BY DEF FingerprintString, SetHash
<1> HIDE DEF h, Strings
<1>7. /\ contexts' \in Seq(Strings) /\ Len(contexts') = Len(contexts) /\ contexts'[ctx] = h
      /\ \A c \in 1 .. Len(contexts) : c # ctx => contexts'[c] = contexts[c]
  BY <1>3, <1>4, <1>5, <1>6
<1>8. tokens' = contexts'[1]
  <2>1. CASE ctx = 1
    BY <2>1, <1>3, <1>7 DEF FingerprintString, write_tokens, h, Hash
  <2>2. CASE ctx # 1
    <3>1. 1 \in 1 .. Len(contexts)
      BY <1>2, <1>3
    <3> QED BY <2>2, <3>1, <1>3, <1>7 DEF FingerprintString, write_tokens
  <2> QED BY <2>1, <2>2
<1>9. ASSUME NEW j \in 2 .. Len(todo)
      PROVE  EntryIn(todo[j], contexts', listsort_items, listsort_cache)
  <2>1. todo[j] \in Entries /\ EntryIn(todo[j], contexts, listsort_items, listsort_cache)
    BY <1>1
  <2>2. todo[j].ctx \in Nat /\ todo[j].prev \in Strings
    BY <2>1 DEF Entries
  <2>3. todo[j].ctx \in 1 .. Len(contexts)
    BY <2>1, <2>2, <1>3 DEF EntryIn
  <2>4. IsPrefixOf(todo[j].prev, contexts[todo[j].ctx])
          => IsPrefixOf(todo[j].prev, contexts'[todo[j].ctx])
    BY <2>2, <2>3, <1>5, <1>7 DEF Hash
  <2> QED BY <2>1, <2>4, <1>7 DEF EntryIn
<1> QED BY <1>4, <1>7, <1>8, <1>9 DEF h

\* What the steps of the walk leave alone.
LEMMA ListsKept ==
  ASSUME IInv, phase = "walk", UNCHANGED <<tree, listsort_items, listsort_cache>>
  PROVE  ListsOK' /\ TreeOK'
<1>1. /\ kind' = kind /\ children' = children /\ listsort_items' = listsort_items
      /\ listsort_cache' = listsort_cache
  BY DEF tree
<1>2. TreeOK /\ ListsOK
  BY DEF IInv
<1> QED BY <1>1, <1>2 DEF ListsOK, TreeOK, Nodes

\* The invariant from its parts.
LEMMA WalkIInv ==
  ASSUME phase' = "walk", TreeOK', ListsOK', contexts' \in Seq(Strings), Len(contexts') >= 1,
         tokens' = contexts'[1], todo' \in Seq(Entries'), TodoOK'
  PROVE  IInv'
BY DEF IInv, TokensAgree, Strings

-----------------------------------------------------------------------------
(* The steps of the walk.                                                    *)

\* Nodes that are ignored, or cut off, leave no trace.
LEMMA NothingIInv == IInv /\ FingerprintNothing => IInv'
<1> SUFFICES ASSUME IInv, FingerprintNothing PROVE IInv'
  OBVIOUS
<1>1. /\ phase = "walk" /\ phase' = "walk" /\ todo # <<>> /\ Then(<<>>)
      /\ UNCHANGED <<tree, contexts, listsort_items, listsort_cache>> /\ tokens' = tokens
  BY DEF FingerprintNothing, Visit, Does
<1>2. todo' \in Seq(Entries') /\ TodoOK'
  BY <1>1, Pop
<1>3. ListsOK' /\ TreeOK'
  BY <1>1, ListsKept
<1> QED BY <1>1, <1>2, <1>3, WalkIInv DEF IInv, TokensAgree

\* A value or a node with its type.
LEMMA ValueIInv == IInv /\ (FingerprintValue \/ FingerprintStruct) => IInv'
<1> SUFFICES ASSUME IInv, FingerprintValue \/ FingerprintStruct PROVE IInv'
  OBVIOUS
<1>1. /\ phase = "walk" /\ phase' = "walk" /\ todo # <<>> /\ Head(todo).op = "node"
      /\ FingerprintString(kind[node])
      /\ UNCHANGED <<tree, listsort_items, listsort_cache>>
  BY DEF FingerprintValue, FingerprintStruct, Visit, Does
<1>2. node \in Nodes /\ TreeOK
  BY <1>1, HeadOK DEF Entries, node, IInv
<1>3. kind[node] \in Kinds /\ children[node] \in Seq(Nodes)
  BY <1>2, ChildrenType
<1>4. /\ contexts' \in Seq(Strings) /\ Len(contexts') = Len(contexts) /\ tokens' = contexts'[1]
      /\ \A j \in 2 .. Len(todo) : EntryIn(todo[j], contexts', listsort_items, listsort_cache)
  BY <1>1, <1>3, StringOK
<1>5. todo' \in Seq(Entries') /\ TodoOK'
  <2>1. CASE FingerprintStruct
    <3>1. Then(Calls("field", children[node]))
      BY <2>1 DEF FingerprintStruct
    <3> QED BY <3>1, <1>1, <1>3, <1>4, CallNodes
  <2>2. CASE FingerprintValue
    <3>1. Then(<<>>)
      BY <2>2 DEF FingerprintValue
    <3>2. Then(Calls("node", <<>>))
      <4>1. Calls("node", <<>>) = <<>>
        BY DEF Calls
      <4> QED BY <3>1, <4>1
    <3>3. <<>> \in Seq(Nodes)
      OBVIOUS
    <3> QED BY <3>2, <3>3, <1>1, <1>4, CallNodes
  <2> QED BY <2>1, <2>2
<1>6. ListsOK' /\ TreeOK'
  BY <1>1, ListsKept
<1>7. Len(contexts') >= 1
  BY <1>4 DEF IInv
<1> QED BY <1>1, <1>4, <1>5, <1>6, <1>7, WalkIInv

\* A list that is not sorted.
LEMMA PlainListIInv == IInv /\ FingerprintPlainList => IInv'
<1> SUFFICES ASSUME IInv, FingerprintPlainList PROVE IInv'
  OBVIOUS
<1>1. /\ phase = "walk" /\ phase' = "walk" /\ todo # <<>> /\ Head(todo).op = "node"
      /\ Then(Calls("node", children[node])) /\ tokens' = tokens
      /\ UNCHANGED <<tree, contexts, listsort_items, listsort_cache>>
  BY DEF FingerprintPlainList, Visit, Does
<1>2. node \in Nodes /\ TreeOK
  BY <1>1, HeadOK DEF Entries, node, IInv
<1>3. children[node] \in Seq(Nodes)
  BY <1>2, ChildrenType
<1>4. contexts' = contexts /\ Len(contexts') = Len(contexts)
      /\ \A j \in 2 .. Len(todo) : EntryIn(todo[j], contexts', listsort_items, listsort_cache)
  BY <1>1, HeadOK
<1>5. todo' \in Seq(Entries') /\ TodoOK'
  BY <1>1, <1>3, <1>4, CallNodes
<1>6. ListsOK' /\ TreeOK'
  BY <1>1, ListsKept
<1> QED BY <1>1, <1>4, <1>5, <1>6, WalkIInv DEF IInv, TokensAgree

\* A field saves the hash in front of its name.
LEMMA FieldIInv == IInv /\ Field => IInv'
<1> SUFFICES ASSUME IInv, Field PROVE IInv'
  OBVIOUS
<1> DEFINE call == Call("node", node, 0, ctx)
<1> DEFINE ended == [Call("ended", node, 0, ctx) EXCEPT !.prev = Hash]
<1>1. /\ phase = "walk" /\ phase' = "walk" /\ todo # <<>> /\ Head(todo).op = "field"
      /\ FingerprintString(kind[node]) /\ Then(<<call, ended>>)
      /\ UNCHANGED <<tree, listsort_items, listsort_cache>>
  BY DEF Field, Does
<1>2. /\ Head(todo) \in Entries /\ EntryIn(Head(todo), contexts, listsort_items, listsort_cache)
      /\ \A j \in 2 .. Len(todo) :
           /\ todo[j] \in Entries /\ InOrder(Head(todo), todo[j])
           /\ EntryIn(todo[j], contexts, listsort_items, listsort_cache)
  BY <1>1, HeadOK
<1>3. ctx \in Nat /\ ctx >= 1 /\ ctx <= Len(contexts) /\ node \in Nodes
  BY <1>2 DEF Entries, EntryIn, ctx, node
<1>4. kind[node] \in Kinds
  BY <1>3, ChildrenType DEF IInv
<1>5. /\ contexts' \in Seq(Strings) /\ Len(contexts') = Len(contexts) /\ tokens' = contexts'[1]
      /\ contexts'[ctx] = Append(Hash, kind[node]) /\ Hash \in Strings
      /\ \A j \in 2 .. Len(todo) : EntryIn(todo[j], contexts', listsort_items, listsort_cache)
  BY <1>1, <1>4, StringOK
<1>6. IsPrefixOf(Hash, contexts'[ctx])
  BY <1>4, <1>5, PrefixAppend
<1>7. ended = [op |-> "ended", node |-> node, i |-> 0, ctx |-> ctx, prev |-> Hash]
  BY DEF Call
<1>8. call = [op |-> "node", node |-> node, i |-> 0, ctx |-> ctx, prev |-> <<>>]
  BY DEF Call
<1> HIDE DEF call, ended
<1>9. call \in Entries /\ ended \in Entries
  <2>1. <<>> \in Strings
    BY DEF Strings
  <2> QED BY <2>1, <1>3, <1>5, <1>7, <1>8 DEF Entries
<1>10. /\ EntryIn(call, contexts', listsort_items, listsort_cache)
       /\ EntryIn(ended, contexts', listsort_items, listsort_cache)
  BY <1>3, <1>5, <1>6, <1>7, <1>8 DEF EntryIn
<1>11. InOrder(call, ended)
  BY <1>3, <1>7, <1>8 DEF InOrder
<1>12. \A j \in 2 .. Len(todo) : InOrder(call, todo[j]) /\ InOrder(ended, todo[j])
  <2> TAKE j \in 2 .. Len(todo)
  <2>1. todo[j].ctx <= ctx
    BY <1>2 DEF InOrder, ctx
  <2>2. todo[j].op = "ended" /\ todo[j].ctx = ctx => IsPrefixOf(todo[j].prev, Hash)
    BY <1>2 DEF EntryIn, Hash
  <2> QED BY <2>1, <2>2, <1>7, <1>8 DEF InOrder
<1> DEFINE new == <<call, ended>>
<1>13. /\ new \in Seq(Entries) /\ Len(new) = 2 /\ new[1] = call /\ new[2] = ended
  BY <1>9
<1>14. Then(new) /\ UNCHANGED tree /\ listsort_items' = listsort_items
       /\ listsort_cache' = listsort_cache
  BY <1>1
<1> HIDE DEF new
<1>15. /\ \A k \in 1 .. Len(new) : new[k] \in {call, ended}
       /\ \A k, l \in 1 .. Len(new) : k < l => new[k] = call /\ new[l] = ended
  BY <1>13
<1>16. /\ \A k \in 1 .. Len(new) : EntryIn(new[k], contexts', listsort_items', listsort_cache')
       /\ \A k, l \in 1 .. Len(new) : k < l => InOrder(new[k], new[l])
       /\ \A j \in 2 .. Len(todo) :
            /\ EntryIn(todo[j], contexts', listsort_items', listsort_cache')
            /\ \A k \in 1 .. Len(new) : InOrder(new[k], todo[j])
  BY <1>5, <1>10, <1>11, <1>12, <1>14, <1>15
<1>17. todo' \in Seq(Entries') /\ TodoOK'
  BY <1>1, <1>13, <1>14, <1>16, Replace
<1>18. ListsOK' /\ TreeOK'
  BY <1>1, ListsKept
<1>19. Len(contexts') >= 1
  BY <1>5 DEF IInv
<1> QED BY <1>1, <1>5, <1>17, <1>18, <1>19, WalkIInv

\* The end of a field that is not empty.
LEMMA FieldKeptIInv == IInv /\ FieldKept => IInv'
<1> SUFFICES ASSUME IInv, FieldKept PROVE IInv'
  OBVIOUS
<1>1. /\ phase = "walk" /\ phase' = "walk" /\ todo # <<>> /\ Then(<<>>)
      /\ UNCHANGED <<tree, contexts, listsort_items, listsort_cache>> /\ tokens' = tokens
  BY DEF FieldKept, Does
<1>2. todo' \in Seq(Entries') /\ TodoOK'
  BY <1>1, Pop
<1>3. ListsOK' /\ TreeOK'
  BY <1>1, ListsKept
<1> QED BY <1>1, <1>2, <1>3, WalkIInv DEF IInv, TokensAgree

\* The end of an empty field: what is taken back, from the hash and the tokens, is one
\* string, the name, and no field further out has saved more than that.
LEMMA FieldTakenBackIInv == IInv /\ FieldTakenBack => IInv'
<1> SUFFICES ASSUME IInv, FieldTakenBack PROVE IInv'
  OBVIOUS
<1> DEFINE prev == Head(todo).prev
<1>1. /\ phase = "walk" /\ phase' = "walk" /\ todo # <<>> /\ Head(todo).op = "ended"
      /\ Then(<<>>) /\ UNCHANGED <<tree, listsort_items, listsort_cache>>
      /\ contexts' = [contexts EXCEPT ![ctx] = prev] /\ tokens' = TokensBack
      /\ Len(Hash) = Len(prev) + 1
  BY DEF FieldTakenBack, Does, SetHash, Empty
<1>2. /\ Head(todo) \in Entries /\ EntryIn(Head(todo), contexts, listsort_items, listsort_cache)
      /\ \A j \in 2 .. Len(todo) :
           /\ todo[j] \in Entries /\ InOrder(Head(todo), todo[j])
           /\ EntryIn(todo[j], contexts, listsort_items, listsort_cache)
  BY <1>1, HeadOK
<1>3. /\ ctx \in Nat /\ ctx >= 1 /\ ctx <= Len(contexts) /\ prev \in Strings
      /\ IsPrefixOf(prev, Hash)
  BY <1>1, <1>2 DEF Entries, EntryIn, ctx, Hash
<1>4. contexts \in Seq(Strings) /\ Len(contexts) \in Nat /\ tokens = contexts[1] /\ Len(contexts) >= 1
  BY DEF IInv, TokensAgree
<1> HIDE DEF prev, Strings
<1>5. /\ contexts' \in Seq(Strings) /\ Len(contexts') = Len(contexts) /\ contexts'[ctx] = prev
      /\ \A c \in 1 .. Len(contexts) : c # ctx => contexts'[c] = contexts[c]
  BY <1>1, <1>3, <1>4
<1>6. tokens' = contexts'[1]
  <2>1. CASE ctx = 1
    <3>1. Hash = tokens /\ Hash \in Strings
      BY <2>1, <1>3, <1>4 DEF Hash
    <3>2. Front(Hash) = prev
      BY <3>1, <1>1, <1>3, PrefixFront
    <3> QED BY <2>1, <3>1, <3>2, <1>1, <1>5 DEF TokensBack, write_tokens
  <2>2. CASE ctx # 1
    <3>1. 1 \in 1 .. Len(contexts)
      BY <1>4
    <3> QED BY <2>2, <3>1, <1>1, <1>4, <1>5 DEF TokensBack, write_tokens
  <2> QED BY <2>1, <2>2
<1>7. ASSUME NEW j \in 2 .. Len(todo)
      PROVE  EntryIn(todo[j], contexts', listsort_items, listsort_cache)
  <2>1. todo[j].ctx \in Nat
    BY <1>2 DEF Entries
  <2>2. EntryIn(todo[j], contexts, listsort_items, listsort_cache)
    BY <1>2
  <2>3. todo[j].op = "ended" => IsPrefixOf(todo[j].prev, contexts'[todo[j].ctx])
    <3>1. CASE todo[j].ctx = ctx
      BY <3>1, <1>1, <1>2, <1>5 DEF InOrder, ctx, prev
    <3>2. CASE todo[j].ctx # ctx
      BY <3>2, <2>1, <2>2, <1>4, <1>5 DEF EntryIn
    <3> QED BY <3>1, <3>2
  <2> QED BY <2>2, <2>3, <1>5 DEF EntryIn
<1>8. todo' \in Seq(Entries') /\ TodoOK'
  <2>1. <<>> \in Seq(Entries) /\ Len(<<>>) = 0
    OBVIOUS
  <2>2. \A k \in 1 .. Len(<<>>) : FALSE
    BY <2>1
  <2>3. listsort_items' = listsort_items /\ listsort_cache' = listsort_cache /\ UNCHANGED tree
    BY <1>1
  <2> HIDE DEF Entries, EntryIn
  <2> QED BY <2>1, <2>2, <2>3, <1>1, <1>7, Replace
<1>9. ListsOK' /\ TreeOK'
  BY <1>1, ListsKept
<1>10. Len(contexts') >= 1
  BY <1>4, <1>5
<1> QED BY <1>1, <1>5, <1>6, <1>8, <1>9, <1>10, WalkIInv

\* A sorted list met again.
LEMMA CachedListIInv == IInv /\ FingerprintCachedList => IInv'
<1> SUFFICES ASSUME IInv, FingerprintCachedList PROVE IInv'
  OBVIOUS
<1>1. /\ phase = "walk" /\ phase' = "walk" /\ todo # <<>> /\ Head(todo).op = "node"
      /\ Then(ItemCalls("next", listsort_cache[node])) /\ tokens' = tokens
      /\ UNCHANGED <<tree, contexts, listsort_items>> /\ listsort_cache' = listsort_cache
  BY DEF FingerprintCachedList, Visit, Does
<1>2. node \in Nodes /\ ListsOK
  BY <1>1, HeadOK DEF Entries, node, IInv
<1>3. listsort_cache[node] \in Seq(Nat)
  BY <1>2 DEF ListsOK
<1>4. \A j \in 2 .. Len(todo) : EntryIn(todo[j], contexts, listsort_items, listsort_cache')
  BY <1>1, HeadOK
<1>5. todo' \in Seq(Entries') /\ TodoOK'
  BY <1>1, <1>3, <1>4, CallItems
<1>6. ListsOK' /\ TreeOK'
  BY <1>1, ListsKept
<1>7. contexts' = contexts
  BY <1>1
<1> QED BY <1>1, <1>5, <1>6, <1>7, WalkIInv DEF IInv, TokensAgree

\* A sorted list met for the first time.
LEMMA NewListIInv == IInv /\ FingerprintNewList => IInv'
<1> SUFFICES ASSUME IInv, FingerprintNewList PROVE IInv'
  OBVIOUS
<1> DEFINE len == Len(children[node])
<1> DEFINE is == ItemCalls("item", children[node])
<1> DEFINE sort == Call("sort", node, 0, ctx)
<1>1. /\ phase = "walk" /\ phase' = "walk" /\ todo # <<>> /\ Head(todo).op = "node"
      /\ Then(Append(is, sort)) /\ tokens' = tokens /\ contexts' = contexts
      /\ UNCHANGED tree /\ listsort_cache' = listsort_cache
      /\ listsort_items' = [listsort_items EXCEPT ![node] = [i \in 1 .. len |-> <<>>]]
  BY DEF FingerprintNewList, Visit, Does
<1>2. /\ Head(todo) \in Entries /\ EntryIn(Head(todo), contexts, listsort_items, listsort_cache)
      /\ \A j \in 2 .. Len(todo) :
           /\ todo[j] \in Entries /\ InOrder(Head(todo), todo[j])
           /\ EntryIn(todo[j], contexts, listsort_items, listsort_cache)
  BY <1>1, HeadOK
<1>3. ctx \in Nat /\ ctx >= 1 /\ ctx <= Len(contexts) /\ node \in Nodes
  BY <1>2 DEF Entries, EntryIn, ctx, node
<1>4. children[node] \in Seq(Nodes) /\ len \in Nat
  BY <1>3, ChildrenType DEF IInv
<1> HIDE DEF len
<1>5. [i \in 1 .. len |-> <<>>] \in Seq(Strings) /\ Len([i \in 1 .. len |-> <<>>]) = len
  <2>1. <<>> \in Strings
    BY DEF Strings
  <2> HIDE DEF Strings
  <2> QED BY <2>1, <1>4
<1>6. ListsOK
  BY <1>1 DEF IInv
<1>7. /\ listsort_items' \in [Nodes -> Seq(Strings)] /\ Len(listsort_items'[node]) = len
      /\ \A n \in Nodes : n # node => listsort_items'[n] = listsort_items[n]
  <2>1. listsort_items \in [Nodes -> Seq(Strings)]
    BY <1>6 DEF ListsOK
  <2> HIDE DEF Strings, Nodes
  <2> QED BY <2>1, <1>1, <1>3, <1>5
<1>8. \A j \in 2 .. Len(todo) : EntryIn(todo[j], contexts, listsort_items', listsort_cache)
  <2> TAKE j \in 2 .. Len(todo)
  <2>1. todo[j].node \in Nodes /\ EntryIn(todo[j], contexts, listsort_items, listsort_cache)
    BY <1>2 DEF Entries
  <2>2. \/ listsort_items'[todo[j].node] = listsort_items[todo[j].node]
        \/ Len(listsort_items'[todo[j].node]) = Len(children[todo[j].node])
    BY <2>1, <1>7 DEF len
  <2> QED BY <2>1, <2>2 DEF EntryIn
<1>9. /\ \A i \in Nat : Call("item", node, i, ctx) \in Entries
      /\ sort \in Entries
  BY <1>3 DEF Call, Entries, Strings
<1>10. /\ is \in Seq(Entries) /\ Len(is) = len
       /\ \A k \in 1 .. len : is[k] = Call("item", node, k, ctx)
  <2>1. \A k \in 1 .. len : k \in Nat
    BY <1>4
  <2>2. is = [k \in 1 .. len |-> Call("item", node, k, ctx)]
    BY DEF ItemCalls, len
  <2> HIDE DEF Entries, Call, is
  <2> QED BY <2>1, <2>2, <1>4, <1>9
<1>11. /\ \A k \in 1 .. len :
            EntryIn(Call("item", node, k, ctx), contexts, listsort_items', listsort_cache)
       /\ EntryIn(sort, contexts, listsort_items', listsort_cache)
  BY <1>3, <1>4, <1>7 DEF Call, EntryIn, len
<1>12. \A k, l : InOrder(Call("item", node, k, ctx), Call("item", node, l, ctx))
  BY <1>3 DEF Call, InOrder
<1>13. \A k : InOrder(Call("item", node, k, ctx), sort)
  BY <1>3 DEF Call, InOrder
<1>14. \A j \in 2 .. Len(todo) :
         InOrder(sort, todo[j]) /\ \A k : InOrder(Call("item", node, k, ctx), todo[j])
  BY <1>2 DEF Call, InOrder, ctx
<1> HIDE DEF is, sort, Entries
<1> DEFINE new == Append(is, sort)
<1>15. /\ new \in Seq(Entries) /\ Len(new) = len + 1 /\ new[len + 1] = sort
       /\ \A k \in 1 .. len : new[k] = Call("item", node, k, ctx)
  BY <1>4, <1>9, <1>10
<1>16. Then(new)
  BY <1>1
<1> HIDE DEF new
<1>17. \A k \in 1 .. Len(new) :
         \/ k \in 1 .. len /\ new[k] = Call("item", node, k, ctx)
         \/ k = len + 1 /\ new[k] = sort
  <2> TAKE k \in 1 .. Len(new)
  <2>1. k \in 1 .. len + 1
    BY <1>15
  <2>2. k \in 1 .. len \/ k = len + 1
    BY <2>1, <1>4
  <2> QED BY <2>2, <1>15
<1>18. /\ \A k \in 1 .. Len(new) : EntryIn(new[k], contexts', listsort_items', listsort_cache')
       /\ \A j \in 2 .. Len(todo) :
            /\ EntryIn(todo[j], contexts', listsort_items', listsort_cache')
            /\ \A k \in 1 .. Len(new) : InOrder(new[k], todo[j])
  <2> HIDE DEF EntryIn, InOrder, Call
  <2> QED BY <1>1, <1>8, <1>11, <1>14, <1>17
<1>19. \A k, l \in 1 .. Len(new) : k < l => InOrder(new[k], new[l])
  <2> SUFFICES ASSUME NEW k \in 1 .. Len(new), NEW l \in 1 .. Len(new), k < l
               PROVE  InOrder(new[k], new[l])
    OBVIOUS
  <2>1. k # len + 1
    BY <1>4, <1>15
  <2> HIDE DEF InOrder, Call
  <2> QED BY <2>1, <1>12, <1>13, <1>17
<1>20. todo' \in Seq(Entries') /\ TodoOK'
  <2> HIDE DEF EntryIn, InOrder
  <2> QED BY <1>1, <1>15, <1>16, <1>18, <1>19, Replace
<1>21. ListsOK' /\ TreeOK'
  <2>1. kind' = kind /\ children' = children
    BY <1>1 DEF tree
  <2> QED BY <2>1, <1>1, <1>6, <1>7 DEF IInv, ListsOK, TreeOK, Nodes
<1> QED BY <1>1, <1>20, <1>21, WalkIInv DEF IInv, TokensAgree

\* A context of its own for an item: everything that is left to do belongs to others.
LEMMA InitContextIInv == IInv /\ InitContext => IInv'
<1> SUFFICES ASSUME IInv, InitContext PROVE IInv'
  OBVIOUS
<1> DEFINE i == Head(todo).i
<1> DEFINE fctx == Len(contexts) + 1
<1> DEFINE call == Call("node", children[node][i], 0, fctx)
<1> DEFINE digest == Call("digest", node, i, fctx)
<1>1. /\ phase = "walk" /\ phase' = "walk" /\ todo # <<>> /\ Head(todo).op = "item"
      /\ Then(<<call, digest>>) /\ tokens' = tokens /\ contexts' = Append(contexts, <<>>)
      /\ UNCHANGED tree /\ listsort_cache' = listsort_cache /\ listsort_items' = listsort_items
  BY DEF InitContext, Does
<1>2. /\ Head(todo) \in Entries /\ EntryIn(Head(todo), contexts, listsort_items, listsort_cache)
      /\ \A j \in 2 .. Len(todo) :
           /\ todo[j] \in Entries
           /\ EntryIn(todo[j], contexts, listsort_items, listsort_cache)
  BY <1>1, HeadOK
<1>3. /\ node \in Nodes /\ i \in Nat /\ i \in 1 .. Len(children[node])
      /\ Len(listsort_items[node]) = Len(children[node])
  BY <1>1, <1>2 DEF Entries, EntryIn, node
<1>4. children[node][i] \in Nodes
  <2>1. children[node] \in Seq(Nodes)
    BY <1>3, ChildrenType DEF IInv
  <2> QED BY <2>1, <1>3
<1>5. contexts \in Seq(Strings) /\ Len(contexts) \in Nat /\ Len(contexts) >= 1 /\ tokens = contexts[1]
  BY DEF IInv, TokensAgree
<1>6. fctx \in Nat /\ fctx > 1 /\ fctx > Len(contexts)
  BY <1>5
<1>7. <<>> \in Strings
  BY DEF Strings
<1>8. /\ contexts' \in Seq(Strings) /\ Len(contexts') = fctx
      /\ \A c \in 1 .. Len(contexts) : contexts'[c] = contexts[c]
  <2> HIDE DEF Strings
  <2> QED BY <1>1, <1>5, <1>7
<1> HIDE DEF fctx, i
<1>9. \A j \in 2 .. Len(todo) :
        /\ EntryIn(todo[j], contexts', listsort_items, listsort_cache)
        /\ todo[j].ctx < fctx /\ todo[j].ctx \in Nat
  <2> TAKE j \in 2 .. Len(todo)
  <2>1. todo[j].ctx \in Nat /\ EntryIn(todo[j], contexts, listsort_items, listsort_cache)
    BY <1>2 DEF Entries
  <2>2. todo[j].ctx \in 1 .. Len(contexts) /\ todo[j].ctx < fctx /\ todo[j].ctx <= Len(contexts')
    BY <2>1, <1>5, <1>6, <1>8 DEF EntryIn
  <2>3. contexts'[todo[j].ctx] = contexts[todo[j].ctx]
    BY <2>2, <1>8
  <2> QED BY <2>1, <2>2, <2>3 DEF EntryIn
<1>10. call \in Entries /\ digest \in Entries
  BY <1>3, <1>4, <1>6 DEF Call, Entries, Strings
<1>11. /\ EntryIn(call, contexts', listsort_items, listsort_cache)
       /\ EntryIn(digest, contexts', listsort_items, listsort_cache)
  BY <1>3, <1>6, <1>8 DEF Call, EntryIn
<1>12. InOrder(call, digest)
  BY <1>6 DEF Call, InOrder
<1>13. \A j \in 2 .. Len(todo) : InOrder(call, todo[j]) /\ InOrder(digest, todo[j])
  BY <1>6, <1>9 DEF Call, InOrder
<1> HIDE DEF call, digest, Entries
<1> DEFINE new == <<call, digest>>
<1>14. new \in Seq(Entries) /\ Len(new) = 2 /\ new[1] = call /\ new[2] = digest
  BY <1>10
<1>15. Then(new)
  BY <1>1
<1> HIDE DEF new
<1>16. /\ \A k \in 1 .. Len(new) : new[k] \in {call, digest}
       /\ \A k, l \in 1 .. Len(new) : k < l => new[k] = call /\ new[l] = digest
  BY <1>14
<1>17. /\ \A k \in 1 .. Len(new) : EntryIn(new[k], contexts', listsort_items', listsort_cache')
       /\ \A k, l \in 1 .. Len(new) : k < l => InOrder(new[k], new[l])
       /\ \A j \in 2 .. Len(todo) :
            /\ EntryIn(todo[j], contexts', listsort_items', listsort_cache')
            /\ \A k \in 1 .. Len(new) : InOrder(new[k], todo[j])
  <2> HIDE DEF EntryIn, InOrder
  <2> QED BY <1>1, <1>9, <1>11, <1>12, <1>13, <1>16
<1>18. todo' \in Seq(Entries') /\ TodoOK'
  <2> HIDE DEF EntryIn, InOrder
  <2> QED BY <1>1, <1>14, <1>15, <1>17, Replace
<1>19. ListsOK' /\ TreeOK'
  BY <1>1, ListsKept
<1>20. tokens' = contexts'[1] /\ Len(contexts') >= 1
  BY <1>1, <1>5, <1>6, <1>8
<1> QED BY <1>1, <1>8, <1>18, <1>19, <1>20, WalkIInv

\* A sequence with one element replaced.
LEMMA SeqExcept ==
  ASSUME NEW S, NEW s \in Seq(S), NEW x \in S, NEW k
  PROVE  [s EXCEPT ![k] = x] \in Seq(S) /\ Len([s EXCEPT ![k] = x]) = Len(s)
<1> DEFINE t == [s EXCEPT ![k] = x]
<1>1. Len(s) \in Nat /\ DOMAIN s = 1 .. Len(s) /\ \A j \in 1 .. Len(s) : s[j] \in S
  OBVIOUS
<1>2. t = [j \in 1 .. Len(s) |-> IF j = k THEN x ELSE s[j]]
  BY <1>1
<1>3. t \in [1 .. Len(s) -> S]
  BY <1>1, <1>2
<1> HIDE DEF t
<1>4. t \in Seq(S) /\ Len(t) = Len(s)
  BY <1>1, <1>3
<1> QED BY <1>4 DEF t

\* The hash of an item is noted and its context freed: no one else is left in it.
LEMMA FreeContextIInv == IInv /\ FreeContext => IInv'
<1> SUFFICES ASSUME IInv, FreeContext PROVE IInv'
  OBVIOUS
<1> DEFINE i == Head(todo).i
<1>1. /\ phase = "walk" /\ phase' = "walk" /\ todo # <<>> /\ Head(todo).op = "digest"
      /\ Then(<<>>) /\ tokens' = tokens /\ contexts' = SubSeq(contexts, 1, ctx - 1)
      /\ UNCHANGED tree /\ listsort_cache' = listsort_cache
      /\ listsort_items' = [listsort_items EXCEPT ![node][i] = Hash]
  BY DEF FreeContext, Does
<1>2. /\ Head(todo) \in Entries /\ EntryIn(Head(todo), contexts, listsort_items, listsort_cache)
      /\ \A j \in 2 .. Len(todo) :
           /\ todo[j] \in Entries /\ InOrder(Head(todo), todo[j])
           /\ EntryIn(todo[j], contexts, listsort_items, listsort_cache)
  BY <1>1, HeadOK
<1>3. /\ node \in Nodes /\ i \in Nat /\ ctx \in Nat /\ ctx > 1 /\ ctx <= Len(contexts)
  BY <1>1, <1>2 DEF Entries, EntryIn, node, ctx
<1>4. contexts \in Seq(Strings) /\ Len(contexts) \in Nat /\ tokens = contexts[1] /\ ListsOK
  BY <1>1 DEF IInv, TokensAgree
<1>5. Hash \in Strings
  <2>1. ctx \in 1 .. Len(contexts)
    BY <1>3, <1>4
  <2> HIDE DEF Strings
  <2> QED BY <2>1, <1>4 DEF Hash
<1>6. /\ contexts' \in Seq(Strings) /\ Len(contexts') = ctx - 1
      /\ \A c \in 1 .. ctx - 1 : contexts'[c] = contexts[c]
  <2> HIDE DEF Strings
  <2> QED BY <1>1, <1>3, <1>4
<1>7. /\ listsort_items' \in [Nodes -> Seq(Strings)]
      /\ \A n \in Nodes : Len(listsort_items'[n]) = Len(listsort_items[n])
  <2>1. listsort_items \in [Nodes -> Seq(Strings)]
    BY <1>4 DEF ListsOK
  <2> DEFINE items == [listsort_items[node] EXCEPT ![i] = Hash]
  <2>2. listsort_items[node] \in Seq(Strings)
    BY <2>1, <1>3
  <2> HIDE DEF Strings, i
  <2>3. items \in Seq(Strings) /\ Len(items) = Len(listsort_items[node])
    BY <2>2, <1>5, SeqExcept
  <2>4. listsort_items' = [listsort_items EXCEPT ![node] = items]
    BY <1>1
  <2> HIDE DEF items, Nodes
  <2> QED BY <2>1, <2>3, <2>4, <1>3
<1>8. ASSUME NEW j \in 2 .. Len(todo)
      PROVE  EntryIn(todo[j], contexts', listsort_items', listsort_cache)
  <2>1. /\ todo[j].ctx \in Nat /\ todo[j].node \in Nodes
        /\ EntryIn(todo[j], contexts, listsort_items, listsort_cache)
    BY <1>2 DEF Entries
  <2>2. todo[j].ctx < ctx /\ todo[j].ctx >= 1
    BY <1>1, <1>2 DEF InOrder, ctx, EntryIn
  <2>3. todo[j].ctx \in 1 .. ctx - 1
    BY <2>1, <2>2, <1>3
  <2>4. contexts'[todo[j].ctx] = contexts[todo[j].ctx] /\ todo[j].ctx <= Len(contexts')
    BY <2>3, <1>6
  <2> QED BY <2>1, <2>4, <1>7 DEF EntryIn
<1>9. todo' \in Seq(Entries') /\ TodoOK'
  <2>1. <<>> \in Seq(Entries) /\ Len(<<>>) = 0
    OBVIOUS
  <2>2. \A k \in 1 .. Len(<<>>) : FALSE
    BY <2>1
  <2> HIDE DEF Entries, EntryIn
  <2> QED BY <2>1, <2>2, <1>1, <1>8, Replace
<1>10. ListsOK' /\ TreeOK'
  <2>1. kind' = kind /\ children' = children
    BY <1>1 DEF tree
  <2> QED BY <2>1, <1>1, <1>4, <1>7 DEF IInv, ListsOK, TreeOK, Nodes
<1>11. tokens' = contexts'[1] /\ Len(contexts') >= 1
  <2>1. 1 \in 1 .. ctx - 1
    BY <1>3
  <2> QED BY <2>1, <1>1, <1>4, <1>6
<1> QED BY <1>1, <1>6, <1>9, <1>10, <1>11, WalkIInv

\* An order of hashes is a sequence of their positions, of the same length.
LEMMA OrdersType ==
  ASSUME NEW n, Len(listsort_items[n]) \in Nat, NEW order \in Orders(n)
  PROVE  /\ order \in Seq(Nat) /\ Len(order) = Len(listsort_items[n])
         /\ \A k \in 1 .. Len(order) : order[k] \in 1 .. Len(listsort_items[n])
<1> DEFINE len == Len(listsort_items[n])
<1>1. order \in SetToSeqs(1 .. len)
  BY DEF Orders
<1>2. Cardinality(1 .. len) = len
  BY FS_Interval
<1>3. order \in [1 .. len -> 1 .. len]
  BY <1>1, <1>2 DEF SetToSeqs
<1> HIDE DEF len
<1>4. len \in Nat
  BY DEF len
<1>5. order \in Seq(Nat) /\ Len(order) = len /\ \A k \in 1 .. len : order[k] \in 1 .. len
  BY <1>3, <1>4
<1> QED BY <1>5 DEF len

\* The items are sorted and the order cached.
LEMMA SortListIInv == IInv /\ SortList => IInv'
<1> SUFFICES ASSUME IInv, SortList PROVE IInv'
  OBVIOUS
<1>1. /\ phase = "walk" /\ phase' = "walk" /\ todo # <<>> /\ Head(todo).op = "sort"
      /\ tokens' = tokens /\ contexts' = contexts /\ UNCHANGED tree
      /\ listsort_items' = listsort_items
  BY DEF SortList, Does
<1>2. PICK order \in Orders(node) :
        /\ listsort_cache' = [listsort_cache EXCEPT ![node] = order]
        /\ Then(ItemCalls("next", order))
  BY DEF SortList
<1>3. /\ Head(todo) \in Entries /\ EntryIn(Head(todo), contexts, listsort_items, listsort_cache)
      /\ \A j \in 2 .. Len(todo) :
           /\ todo[j] \in Entries
           /\ EntryIn(todo[j], contexts, listsort_items, listsort_cache)
  BY <1>1, HeadOK
<1>4. node \in Nodes /\ Len(listsort_items[node]) = Len(children[node]) /\ ListsOK
  BY <1>1, <1>3 DEF Entries, EntryIn, node, IInv
<1>5. Len(listsort_items[node]) \in Nat
  <2>1. listsort_items[node] \in Seq(Strings)
    BY <1>4 DEF ListsOK
  <2> HIDE DEF Strings
  <2> QED BY <2>1
<1>6. /\ order \in Seq(Nat) /\ Len(order) = Len(children[node]) /\ Len(order) \in Nat
      /\ \A k \in 1 .. Len(order) : order[k] \in 1 .. Len(children[node])
  <2>1. /\ order \in Seq(Nat) /\ Len(order) = Len(listsort_items[node])
        /\ \A k \in 1 .. Len(order) : order[k] \in 1 .. Len(listsort_items[node])
    BY <1>5, OrdersType
  <2> QED BY <2>1, <1>4, <1>5
<1>7. listsort_cache \in [Nodes -> Seq(Nat)]
  BY <1>4 DEF ListsOK
<1>8. /\ listsort_cache' \in [Nodes -> Seq(Nat)] /\ listsort_cache'[node] = order
      /\ \A n \in Nodes : n # node => listsort_cache'[n] = listsort_cache[n]
  <2> HIDE DEF Nodes
  <2> QED BY <1>2, <1>4, <1>6, <1>7
<1>9. \A n \in Nodes : Len(listsort_cache[n]) \in {0, Len(children[n])}
  BY <1>4 DEF ListsOK
<1>10. ASSUME NEW j \in 2 .. Len(todo)
       PROVE  EntryIn(todo[j], contexts, listsort_items, listsort_cache')
  <2>1. todo[j].node \in Nodes /\ EntryIn(todo[j], contexts, listsort_items, listsort_cache)
    BY <1>3 DEF Entries
  <2>2. todo[j].op = "next" => todo[j].i \in 1 .. Len(listsort_cache'[todo[j].node])
    <3>1. CASE todo[j].node = node
      <4>1. CASE Len(listsort_cache[node]) = 0
        BY <2>1, <3>1, <4>1 DEF EntryIn
      <4>2. CASE Len(listsort_cache[node]) = Len(children[node])
        BY <2>1, <3>1, <4>2, <1>6, <1>8 DEF EntryIn
      <4> QED BY <4>1, <4>2, <1>4, <1>9
    <3>2. CASE todo[j].node # node
      BY <2>1, <3>2, <1>8 DEF EntryIn
    <3> QED BY <3>1, <3>2
  <2> QED BY <2>1, <2>2 DEF EntryIn
<1>11. todo' \in Seq(Entries') /\ TodoOK'
  BY <1>1, <1>2, <1>6, <1>8, <1>10, CallItems
<1>12. ListsOK' /\ TreeOK'
  <2>1. kind' = kind /\ children' = children /\ Nodes' = Nodes
    BY <1>1 DEF tree, Nodes
  <2>2. TreeOK'
    BY <2>1 DEF IInv, TreeOK
  <2>3. \A n \in Nodes : Len(listsort_cache'[n]) \in {0, Len(children[n])}
    BY <1>6, <1>8, <1>9
  <2>4. \A n \in Nodes : \A k \in 1 .. Len(listsort_cache'[n]) :
          listsort_cache'[n][k] \in 1 .. Len(children[n])
    <3> TAKE n \in Nodes
    <3>1. CASE n = node
      BY <3>1, <1>6, <1>8
    <3>2. CASE n # node
      BY <3>2, <1>4, <1>8 DEF ListsOK
    <3> QED BY <3>1, <3>2
  <2>5. listsort_items \in [Nodes -> Seq(Strings)]
    BY <1>4 DEF ListsOK
  <2> QED BY <2>1, <2>2, <2>3, <2>4, <2>5, <1>1, <1>8 DEF ListsOK
<1> QED BY <1>1, <1>11, <1>12, WalkIInv DEF IInv, TokensAgree

\* The next item of a sorted list, unless it repeats the one before it.
LEMMA NextItemIInv == IInv /\ NextItem => IInv'
<1> SUFFICES ASSUME IInv, NextItem PROVE IInv'
  OBVIOUS
<1> DEFINE i == Head(todo).i
<1> DEFINE n == children[node][listsort_cache[node][i]]
<1>1. /\ phase = "walk" /\ phase' = "walk" /\ todo # <<>> /\ Head(todo).op = "next"
      /\ tokens' = tokens /\ contexts' = contexts
      /\ UNCHANGED <<tree, contexts, listsort_items, listsort_cache>>
      /\ (Then(<<>>) \/ Then(<<Call("node", n, 0, ctx)>>))
  BY DEF NextItem, Does
<1>2. /\ Head(todo) \in Entries /\ EntryIn(Head(todo), contexts, listsort_items, listsort_cache)
      /\ \A j \in 2 .. Len(todo) :
           /\ todo[j] \in Entries /\ InOrder(Head(todo), todo[j])
           /\ EntryIn(todo[j], contexts, listsort_items, listsort_cache)
  BY <1>1, HeadOK
<1>3. /\ node \in Nodes /\ i \in 1 .. Len(listsort_cache[node]) /\ ListsOK
      /\ ctx \in Nat /\ ctx >= 1 /\ ctx <= Len(contexts)
  BY <1>1, <1>2 DEF Entries, EntryIn, node, ctx, IInv
<1>4. n \in Nodes
  <2>1. children[node] \in Seq(Nodes)
    BY <1>3, ChildrenType DEF IInv
  <2>2. listsort_cache[node][i] \in 1 .. Len(children[node])
    BY <1>3 DEF ListsOK
  <2> QED BY <2>1, <2>2
<1> HIDE DEF n, i
<1>5. todo' \in Seq(Entries') /\ TodoOK'
  <2>1. CASE Then(<<>>)
    BY <2>1, <1>1, Pop
  <2>2. CASE Then(<<Call("node", n, 0, ctx)>>)
    <3> DEFINE call == Call("node", n, 0, ctx)
    <3>1. call \in Entries
      BY <1>3, <1>4 DEF Call, Entries, Strings
    <3>2. EntryIn(call, contexts, listsort_items, listsort_cache)
      BY <1>3 DEF Call, EntryIn
    <3>3. \A j \in 2 .. Len(todo) : InOrder(call, todo[j])
      BY <1>2 DEF Call, InOrder, ctx
    <3> HIDE DEF call, Entries
    <3> DEFINE new == <<call>>
    <3>4. new \in Seq(Entries) /\ Len(new) = 1 /\ new[1] = call
      BY <3>1
    <3>5. Then(new)
      BY <2>2 DEF call
    <3> HIDE DEF new
    <3>6. /\ \A k \in 1 .. Len(new) : new[k] = call
          /\ \A k, l \in 1 .. Len(new) : ~(k < l)
      BY <3>4
    <3>7. UNCHANGED tree /\ listsort_items' = listsort_items /\ listsort_cache' = listsort_cache
      BY <1>1
    <3>8. /\ \A k \in 1 .. Len(new) : EntryIn(new[k], contexts', listsort_items', listsort_cache')
          /\ \A k, l \in 1 .. Len(new) : k < l => InOrder(new[k], new[l])
          /\ \A j \in 2 .. Len(todo) :
               /\ EntryIn(todo[j], contexts', listsort_items', listsort_cache')
               /\ \A k \in 1 .. Len(new) : InOrder(new[k], todo[j])
      <4> HIDE DEF EntryIn, InOrder
      <4> QED BY <1>1, <1>2, <3>2, <3>3, <3>6, <3>7
    <3> HIDE DEF EntryIn, InOrder
    <3> QED BY <1>1, <3>4, <3>5, <3>7, <3>8, Replace
  <2> QED BY <2>1, <2>2, <1>1
<1>6. ListsOK' /\ TreeOK'
  BY <1>1, ListsKept
<1> QED BY <1>1, <1>5, <1>6, WalkIInv DEF IInv, TokensAgree


\* Nothing is left to do.
LEMMA DigestIInv == IInv /\ Digest => IInv'
<1> SUFFICES ASSUME IInv, Digest PROVE IInv'
  OBVIOUS
<1>1. /\ phase = "walk" /\ phase' = "done" /\ todo' = todo /\ contexts' = contexts
      /\ tokens' = tokens /\ kind' = kind /\ children' = children
      /\ listsort_items' = listsort_items /\ listsort_cache' = listsort_cache
  BY DEF Digest, tree
<1>2. Nodes' = Nodes /\ Entries' = Entries
  BY <1>1 DEF Nodes, Entries
<1>3. ListsOK /\ TreeOK /\ TokensAgree /\ TodoOK /\ todo \in Seq(Entries)
  BY <1>1 DEF IInv
<1>4. ListsOK' /\ TreeOK' /\ TokensAgree'
  BY <1>1, <1>2, <1>3 DEF ListsOK, TreeOK, TokensAgree
<1>5. TodoOK'
  BY <1>1, <1>3 DEF TodoOK, EntryIn
<1>6. contexts \in Seq(Strings) /\ Len(contexts) >= 1
  BY DEF IInv
<1> QED BY <1>1, <1>2, <1>3, <1>4, <1>5, <1>6 DEF IInv

\* The walk begins at the root, with no list sorted.
LEMMA ParsedIInv == IInv /\ Parsed => IInv'
<1> SUFFICES ASSUME IInv, Parsed PROVE IInv'
  OBVIOUS
<1>1. /\ phase' = "walk" /\ todo' = <<Call("node", 1, 0, 1)>> /\ contexts' = contexts
      /\ tokens' = tokens /\ kind' = kind /\ children' = children
      /\ listsort_items' = [n \in Nodes |-> <<>>] /\ listsort_cache' = [n \in Nodes |-> <<>>]
  BY DEF Parsed, tree
<1>2. Nodes' = Nodes /\ Entries' = Entries /\ TreeOK /\ TokensAgree
      /\ contexts \in Seq(Strings) /\ Len(contexts) >= 1
  BY <1>1 DEF Nodes, Entries, IInv
<1>3. TreeOK' /\ TokensAgree'
  BY <1>1, <1>2 DEF TreeOK, TokensAgree, Nodes
<1>4. ListsOK'
  <2>1. <<>> \in Seq(Strings) /\ <<>> \in Seq(Nat) /\ Len(<<>>) = 0
    OBVIOUS
  <2>2. \A n \in Nodes : listsort_cache'[n] = <<>>
    BY <1>1
  <2>3. \A k : k \in 1 .. Len(<<>>) => FALSE
    BY <2>1
  <2> HIDE DEF Strings, Nodes
  <2>4. listsort_items' \in [Nodes -> Seq(Strings)] /\ listsort_cache' \in [Nodes -> Seq(Nat)]
    BY <1>1, <2>1
  <2>5. \A n \in Nodes : Len(listsort_cache'[n]) = 0
    BY <2>1, <2>2
  <2>6. \A n \in Nodes : \A k : k \in 1 .. Len(listsort_cache'[n]) => FALSE
    BY <2>2, <2>3
  <2> QED BY <1>1, <1>2, <2>4, <2>5, <2>6 DEF ListsOK
<1>5. /\ todo' \in Seq(Entries) /\ Len(todo') = 1 /\ todo'[1] = Call("node", 1, 0, 1)
  <2>1. Call("node", 1, 0, 1) \in Entries
    <3>1. 1 \in Nodes /\ <<>> \in Strings
      BY <1>2 DEF TreeOK, Nodes, Strings
    <3> QED BY <3>1 DEF Call, Entries
  <2> HIDE DEF Entries, Call
  <2> QED BY <2>1, <1>1
<1>6. TodoOK'
  <2>1. DOMAIN todo' = {1}
    BY <1>5
  <2>2. EntryIn(todo'[1], contexts, listsort_items', listsort_cache')
    BY <1>2, <1>5 DEF EntryIn, Call
  <2>3. \A k \in DOMAIN todo' : k = 1
    BY <2>1
  <2> QED BY <1>1, <2>1, <2>2, <2>3 DEF TodoOK, EntryIn
<1> QED BY <1>1, <1>2, <1>3, <1>4, <1>5, <1>6 DEF IInv

\* A node is added.
LEMMA ParseNodeIInv == IInv /\ ParseNode => IInv'
<1> SUFFICES ASSUME IInv, ParseNode PROVE IInv'
  OBVIOUS
<1>1. /\ phase = "parse" /\ phase' = "parse" /\ todo' = todo /\ contexts' = contexts
      /\ tokens' = tokens
  BY DEF ParseNode
<1>2. PICK k \in Kinds, p \in Ancestors[Len(kind)] :
        /\ kind' = Append(kind, k)
        /\ \E c \in IF k = "again" THEN Shared(p) ELSE {<<>>} :
             children' = Append([children EXCEPT ![p] = Append(@, Len(kind) + 1)], c)
  BY DEF ParseNode
<1>3. PICK c \in IF k = "again" THEN Shared(p) ELSE {<<>>} :
        children' = Append([children EXCEPT ![p] = Append(@, Len(kind) + 1)], c)
  BY <1>2
<1>4. /\ kind \in Seq(Kinds) /\ Len(kind) \in Nat /\ Len(kind) >= 1
      /\ children \in Seq(Seq(Nodes)) /\ Len(children) = Len(kind)
  BY DEF IInv, TreeOK
<1>5. /\ kind' \in Seq(Kinds) /\ Len(kind') = Len(kind) + 1
  BY <1>2, <1>4
<1> DEFINE More == 1 .. Len(kind) + 1
<1>6. Nodes' = More /\ Nodes \subseteq More /\ Len(kind) + 1 \in More
  BY <1>4, <1>5 DEF Nodes
<1>7. Seq(Nodes) \subseteq Seq(More) /\ <<>> \in Seq(Nodes)
  <2> HIDE DEF More, Nodes
  <2> QED BY <1>6
<1>8. c \in Seq(Nodes)
  <2>1. CASE c = <<>>
    BY <2>1, <1>7
  <2>2. CASE c \in Shared(p)
    BY <2>2, <1>4 DEF Shared, Nodes
  <2> QED BY <2>1, <2>2
<1>9. /\ \A n \in 1 .. Len(children) : children[n] \in Seq(More)
      /\ children \in Seq(Seq(More))
  <2>1. \A n \in 1 .. Len(children) : children[n] \in Seq(Nodes)
    BY <1>4
  <2> HIDE DEF More, Nodes
  <2> QED BY <2>1, <1>4, <1>7
<1>10. children' \in Seq(Seq(More)) /\ Len(children') = Len(kind) + 1
  <2>1. DOMAIN children = 1 .. Len(children)
    BY <1>4
  <2> DEFINE x == Append(children[p], Len(kind) + 1)
  <2> DEFINE ch == [children EXCEPT ![p] = x]
  <2>2. ch \in Seq(Seq(More)) /\ Len(ch) = Len(children)
    <3>1. CASE p \in DOMAIN children
      <4>1. x \in Seq(More)
        <5>1. children[p] \in Seq(More)
          BY <3>1, <2>1, <1>9
        <5> HIDE DEF More
        <5> QED BY <5>1, <1>6
      <4> HIDE DEF More, x
      <4> QED BY <4>1, <1>9, SeqExcept
    <3>2. CASE p \notin DOMAIN children
      <4>1. ch = children
        <5> HIDE DEF x
        <5> QED BY <3>2, <1>4
      <4> QED BY <4>1, <1>9
    <3> QED BY <3>1, <3>2
  <2>3. children' = Append(ch, c)
    BY <1>3
  <2>4. c \in Seq(More)
    BY <1>7, <1>8
  <2> HIDE DEF ch, More
  <2> QED BY <2>2, <2>3, <2>4, <1>4
<1>11. TreeOK'
  BY <1>4, <1>5, <1>6, <1>10 DEF TreeOK
<1>12. todo' = <<>> /\ todo' \in Seq(Entries') /\ TodoOK'
  <2>1. todo' = <<>> /\ DOMAIN todo' = {}
    BY <1>1 DEF IInv
  <2> HIDE DEF Entries
  <2> QED BY <2>1 DEF TodoOK
<1>13. TokensAgree' /\ contexts' \in Seq(Strings) /\ Len(contexts') >= 1
  BY <1>1 DEF IInv, TokensAgree
<1> QED BY <1>1, <1>11, <1>12, <1>13 DEF IInv

LEMMA InitIInv == Init => IInv
<1> SUFFICES ASSUME Init PROVE IInv
  OBVIOUS
<1>1. /\ kind = <<"struct">> /\ children = <<<<>>>> /\ phase = "parse" /\ todo = <<>>
      /\ contexts = <<<<>>>> /\ tokens = <<>>
  BY DEF Init
<1>2. TreeOK
  <2>1. "struct" \in Kinds
    BY DEF Kinds
  <2>2. kind \in Seq(Kinds) /\ Len(kind) = 1
    <3> HIDE DEF Kinds
    <3> QED BY <1>1, <2>1
  <2>3. <<>> \in Seq(Nodes)
    OBVIOUS
  <2>4. children \in Seq(Seq(Nodes)) /\ Len(children) = 1
    <3> HIDE DEF Nodes
    <3> QED BY <1>1, <2>3
  <2> QED BY <2>2, <2>4 DEF TreeOK
<1>3. contexts \in Seq(Strings) /\ Len(contexts) >= 1 /\ TokensAgree
  BY <1>1 DEF Strings, TokensAgree
<1>4. todo \in Seq(Entries) /\ TodoOK
  BY <1>1 DEF TodoOK
<1> QED BY <1>1, <1>2, <1>3, <1>4 DEF IInv

LEMMA StutterIInv == IInv /\ UNCHANGED vars => IInv'
<1> SUFFICES ASSUME IInv, UNCHANGED vars PROVE IInv'
  OBVIOUS
<1>1. /\ phase' = phase /\ todo' = todo /\ contexts' = contexts
      /\ tokens' = tokens /\ kind' = kind /\ children' = children
      /\ listsort_items' = listsort_items /\ listsort_cache' = listsort_cache
  BY DEF vars, tree
<1> QED BY <1>1 DEF IInv, ListsOK, TreeOK, TokensAgree, TodoOK, EntryIn, Nodes, Entries

LEMMA NextIInv == IInv /\ [Next]_vars => IInv'
BY ParseNodeIInv, ParsedIInv, NothingIInv, ValueIInv, PlainListIInv, FieldIInv, FieldKeptIInv,
   FieldTakenBackIInv, CachedListIInv, NewListIInv, InitContextIInv, FreeContextIInv,
   SortListIInv, NextItemIInv, DigestIInv, StutterIInv DEF Next

-----------------------------------------------------------------------------
(* Sequences of texts, end to end.                                           *)

\* A set of natural numbers has a least one.
LEMMA LeastNat ==
  ASSUME NEW T \in SUBSET Nat, T # {}
  PROVE  \E m \in T : \A n \in T : m <= n
<1>1. PICK x \in T : \A y \in T : ~(<<y, x>> \in OpToRel(<, Nat))
  BY WFMin, NatLessThanWellFounded
<1>2. \A y \in T : ~(y < x)
  BY <1>1 DEF OpToRel
<1>3. x \in Nat /\ \A y \in T : y \in Nat
  OBVIOUS
<1>4. \A y \in T : x <= y
  BY <1>2, <1>3
<1> QED BY <1>4

\* What the first m of some sequences make, for each m.
Sums(W, s, m, f) ==
  /\ f \in [0 .. m -> Seq(W)] /\ f[0] = <<>>
  /\ \A i \in 1 .. m : f[i] = f[i - 1] \o s[i]

LEMMA SumsExist ==
  ASSUME NEW W, NEW s \in Seq(Seq(W))
  PROVE  \A m \in 0 .. Len(s) : \E f : Sums(W, s, m, f)
<1>0. Len(s) \in Nat /\ \A i \in 1 .. Len(s) : s[i] \in Seq(W)
  OBVIOUS
<1> DEFINE T == {m \in 0 .. Len(s) : ~ \E f : Sums(W, s, m, f)}
<1>1. SUFFICES ASSUME T # {} PROVE FALSE
  OBVIOUS
<1>2. T \in SUBSET Nat
  OBVIOUS
<1>3. PICK m \in T : \A n \in T : m <= n
  BY <1>1, <1>2, LeastNat
<1>4. m # 0
  <2>1. Sums(W, s, 0, [i \in 0 .. 0 |-> <<>>])
    <3> DEFINE f == [i \in 0 .. 0 |-> <<>>]
    <3>1. f \in [0 .. 0 -> Seq(W)] /\ f[0] = <<>>
      OBVIOUS
    <3>2. 1 .. 0 = {}
      OBVIOUS
    <3> QED BY <3>1, <3>2 DEF Sums
  <2> QED BY <2>1
<1>5. m \in 1 .. Len(s) /\ m - 1 \in 0 .. Len(s) /\ ~(m <= m - 1)
  BY <1>0, <1>4
<1>6. PICK f : Sums(W, s, m - 1, f)
  BY <1>3, <1>5
<1> DEFINE g == [i \in 0 .. m |-> IF i = m THEN f[m - 1] \o s[m] ELSE f[i]]
<1>7. f[m - 1] \o s[m] \in Seq(W)
  <2>1. f[m - 1] \in Seq(W) /\ s[m] \in Seq(W)
    BY <1>0, <1>5, <1>6 DEF Sums
  <2> QED BY <2>1
<1>8. g \in [0 .. m -> Seq(W)]
  <2>1. \A i \in 0 .. m : i # m => f[i] \in Seq(W)
    BY <1>5, <1>6 DEF Sums
  <2> QED BY <2>1, <1>7
<1>9. g[0] = <<>>
  BY <1>5, <1>6 DEF Sums
<1>10. ASSUME NEW i \in 1 .. m PROVE g[i] = g[i - 1] \o s[i]
  <2>1. i \in 0 .. m /\ i - 1 \in 0 .. m /\ i - 1 # m
    BY <1>5
  <2>2. CASE i = m
    BY <2>1, <2>2
  <2>3. CASE i # m
    <3>1. i \in 1 .. m - 1
      BY <1>5, <2>3
    <3> QED BY <2>1, <2>3, <3>1, <1>6 DEF Sums
  <2> QED BY <2>2, <2>3
<1>11. Sums(W, s, m, g)
  <2> HIDE DEF g
  <2> QED BY <1>8, <1>9, <1>10 DEF Sums
<1> QED BY <1>3, <1>11

\* FlattenSeq is the last of these.
LEMMA Flattened ==
  ASSUME NEW W, NEW s \in Seq(Seq(W))
  PROVE  \E f : Sums(W, s, Len(s), f) /\ f[Len(s)] = FlattenSeq(s)
<1>0. Len(s) \in Nat /\ \A i \in 1 .. Len(s) : s[i] \in Seq(W)
  OBVIOUS
<1>1. PICK f : Sums(W, s, Len(s), f)
  <2>1. Len(s) \in 0 .. Len(s)
    BY <1>0
  <2> QED BY <2>1, SumsExist
<1>2. CASE Len(s) = 0
  <2>1. s = <<>>
    BY <1>2
  <2>2. FlattenSeq(s) = <<>>
    BY <1>2, <2>1 DEF FlattenSeq
  <2> QED BY <1>1, <1>2, <2>2 DEF Sums
<1>3. CASE Len(s) # 0
  <2> DEFINE fl == CHOOSE g : g = [i \in 1 .. Len(s) |-> IF i = 1 THEN s[i] ELSE g[i - 1] \o s[i]]
  <2> DEFINE h == [i \in 1 .. Len(s) |-> f[i]]
  <2>1. FlattenSeq(s) = fl[Len(s)]
    BY <1>3 DEF FlattenSeq
  <2>2. h = [i \in 1 .. Len(s) |-> IF i = 1 THEN s[i] ELSE h[i - 1] \o s[i]]
    <3> SUFFICES ASSUME NEW i \in 1 .. Len(s)
                 PROVE  h[i] = IF i = 1 THEN s[i] ELSE h[i - 1] \o s[i]
      OBVIOUS
    <3>1. f[i] = f[i - 1] \o s[i] /\ f[0] = <<>>
      BY <1>1 DEF Sums
    <3>2. CASE i = 1
      <4>1. <<>> \o s[1] = s[1]
        BY <1>0, <3>2
      <4>2. i - 1 = 0 /\ h[i] = f[i]
        BY <3>2
      <4> QED BY <3>1, <3>2, <4>1, <4>2
    <3>3. CASE i # 1
      <4>1. i - 1 \in 1 .. Len(s)
        BY <1>0, <3>3
      <4> QED BY <3>1, <3>3, <4>1
    <3> QED BY <3>2, <3>3
  <2>3. fl = [i \in 1 .. Len(s) |-> IF i = 1 THEN s[i] ELSE fl[i - 1] \o s[i]]
    <3> HIDE DEF h
    <3> QED BY <2>2
  <2> HIDE DEF fl
  <2> DEFINE T == {i \in 1 .. Len(s) : fl[i] # f[i]}
  <2>4. T = {}
    <3>1. SUFFICES ASSUME T # {} PROVE FALSE
      OBVIOUS
    <3>2. T \in SUBSET Nat
      OBVIOUS
    <3>3. PICK i \in T : \A j \in T : i <= j
      BY <3>1, <3>2, LeastNat
    <3>4. fl[i] = (IF i = 1 THEN s[i] ELSE fl[i - 1] \o s[i]) /\ h[i] = f[i]
      BY <2>3, <3>3
    <3>5. h[i] = IF i = 1 THEN s[i] ELSE h[i - 1] \o s[i]
      BY <2>2, <3>3
    <3>6. CASE i = 1
      BY <3>3, <3>4, <3>5, <3>6
    <3>7. CASE i # 1
      <4>1. i - 1 \in 1 .. Len(s) /\ ~(i <= i - 1)
        BY <1>0, <3>3, <3>7
      <4>2. fl[i - 1] = f[i - 1]
        BY <3>3, <4>1
      <4> QED BY <3>3, <3>4, <3>5, <3>7, <4>1, <4>2
    <3> QED BY <3>6, <3>7
  <2>5. Len(s) \in 1 .. Len(s)
    BY <1>0, <1>3
  <2> QED BY <1>1, <2>1, <2>4, <2>5
<1> QED BY <1>2, <1>3

-----------------------------------------------------------------------------
(* The order of hashes.                                                      *)

LEMMA Codes ==
  \A v, w \in Words : Code[v] \in Int /\ (Code[v] = Code[w] => v = w)
BY DEF Words, Kinds, Lists, Code

\* Where g and h part, so that g is less than h.
PartsAt(g, h, k) ==
  /\ k \in Nat /\ k >= 1 /\ k <= Len(h) /\ k <= Len(g) + 1
  /\ \A j \in Nat : 1 <= j /\ j < k => g[j] = h[j]
  /\ k <= Len(g) => Code[g[k]] < Code[h[k]]

LEMMA LessParts ==
  ASSUME NEW g \in Texts, NEW h \in Texts
  PROVE  Less(g, h) <=> \E k : PartsAt(g, h, k)
<1>1. Len(g) \in Nat /\ Len(h) \in Nat
  BY DEF Texts
<1>2. ASSUME NEW k \in Nat, k >= 1
      PROVE  \A j : j \in 1 .. k - 1 <=> j \in Nat /\ 1 <= j /\ j < k
  BY <1>2
<1>3. ASSUME Less(g, h) PROVE \E k : PartsAt(g, h, k)
  <2>1. PICK k \in 1 .. Len(h) :
          /\ k <= Len(g) + 1 /\ \A j \in 1 .. k - 1 : g[j] = h[j]
          /\ k <= Len(g) => Code[g[k]] < Code[h[k]]
    BY <1>3 DEF Less
  <2> QED BY <1>1, <1>2, <2>1 DEF PartsAt
<1>4. ASSUME NEW k, PartsAt(g, h, k) PROVE Less(g, h)
  <2>1. k \in 1 .. Len(h) /\ k \in Nat /\ k >= 1
    BY <1>1, <1>4 DEF PartsAt
  <2> QED BY <1>2, <1>4, <2>1 DEF PartsAt, Less
<1> QED BY <1>3, <1>4

\* It is a strict order ...
LEMMA LessIrreflexive ==
  ASSUME NEW g \in Texts PROVE ~Less(g, g)
<1>1. SUFFICES ASSUME NEW k, PartsAt(g, g, k) PROVE FALSE
  BY LessParts
<1>2. k \in 1 .. Len(g) /\ Code[g[k]] < Code[g[k]]
  BY <1>1 DEF PartsAt, Texts
<1>3. g[k] \in Words
  BY <1>2 DEF Texts
<1> QED BY <1>2, <1>3, Codes

LEMMA LessTransitive ==
  ASSUME NEW a \in Texts, NEW b \in Texts, NEW c \in Texts, Less(a, b), Less(b, c)
  PROVE  Less(a, c)
<1>1. PICK k : PartsAt(a, b, k)
  BY LessParts
<1>2. PICK l : PartsAt(b, c, l)
  BY LessParts
<1>3. /\ Len(a) \in Nat /\ Len(b) \in Nat /\ Len(c) \in Nat
      /\ \A j \in 1 .. Len(a) : a[j] \in Words
      /\ \A j \in 1 .. Len(b) : b[j] \in Words
      /\ \A j \in 1 .. Len(c) : c[j] \in Words
  BY DEF Texts
<1>4. /\ k \in Nat /\ k >= 1 /\ k <= Len(b) /\ k <= Len(a) + 1
      /\ k <= Len(a) => Code[a[k]] < Code[b[k]]
      /\ \A j \in Nat : 1 <= j /\ j < k => a[j] = b[j]
  BY <1>1 DEF PartsAt
<1>5. /\ l \in Nat /\ l >= 1 /\ l <= Len(c) /\ l <= Len(b) + 1
      /\ l <= Len(b) => Code[b[l]] < Code[c[l]]
      /\ \A j \in Nat : 1 <= j /\ j < l => b[j] = c[j]
  BY <1>2 DEF PartsAt
<1>6. CASE k < l
  <2>1. k <= Len(c)
    BY <1>3, <1>4, <1>5, <1>6
  <2>2. b[k] = c[k]
    BY <1>4, <1>5, <1>6
  <2>3. \A j \in Nat : 1 <= j /\ j < k => a[j] = c[j]
    BY <1>4, <1>5, <1>6
  <2>4. PartsAt(a, c, k)
    BY <1>4, <2>1, <2>2, <2>3 DEF PartsAt
  <2> QED BY <2>4, LessParts
<1>7. CASE k = l
  <2>1. \A j \in Nat : 1 <= j /\ j < k => a[j] = c[j]
    BY <1>4, <1>5, <1>7
  <2>2. ASSUME k <= Len(a) PROVE Code[a[k]] < Code[c[k]]
    <3>1. a[k] \in Words /\ b[k] \in Words /\ c[k] \in Words
      BY <1>3, <1>4, <1>5, <1>7, <2>2
    <3>2. Code[a[k]] < Code[b[k]] /\ Code[b[k]] < Code[c[k]]
      BY <1>4, <1>5, <1>7, <2>2
    <3>3. Code[a[k]] \in Int /\ Code[b[k]] \in Int /\ Code[c[k]] \in Int
      BY <3>1, Codes
    <3> QED BY <3>2, <3>3
  <2>3. PartsAt(a, c, k)
    BY <1>4, <1>5, <1>7, <2>1, <2>2 DEF PartsAt
  <2> QED BY <2>3, LessParts
<1>8. CASE l < k
  <2>1. l <= Len(b) /\ l <= Len(a) + 1
    BY <1>3, <1>4, <1>5, <1>8
  <2>2. a[l] = b[l]
    BY <1>4, <1>5, <1>8
  <2>3. \A j \in Nat : 1 <= j /\ j < l => a[j] = c[j]
    BY <1>4, <1>5, <1>8
  <2>4. PartsAt(a, c, l)
    BY <1>5, <2>1, <2>2, <2>3 DEF PartsAt
  <2> QED BY <2>4, LessParts
<1> QED BY <1>4, <1>5, <1>6, <1>7, <1>8

\* ... and two different hashes are always in it.
LEMMA LessTotal ==
  ASSUME NEW a \in Texts, NEW b \in Texts, a # b
  PROVE  Less(a, b) \/ Less(b, a)
<1>1. /\ Len(a) \in Nat /\ Len(b) \in Nat
      /\ \A j \in 1 .. Len(a) : a[j] \in Words
      /\ \A j \in 1 .. Len(b) : b[j] \in Words
  BY DEF Texts
<1> DEFINE D == {k \in Nat : /\ k >= 1 /\ k <= Len(a) + 1 /\ k <= Len(b) + 1
                             /\ ~(k <= Len(a) /\ k <= Len(b) /\ a[k] = b[k])}
<1>2. D # {}
  <2>1. CASE Len(a) <= Len(b)
    <3>1. Len(a) + 1 \in D
      BY <1>1, <2>1
    <3> QED BY <3>1
  <2>2. CASE Len(b) <= Len(a)
    <3>1. Len(b) + 1 \in D
      BY <1>1, <2>2
    <3> QED BY <3>1
  <2> QED BY <1>1, <2>1, <2>2
<1>3. PICK k \in D : \A j \in D : k <= j
  <2>1. D \in SUBSET Nat
    OBVIOUS
  <2> HIDE DEF D
  <2> QED BY <1>2, <2>1, LeastNat
<1>4. /\ k \in Nat /\ k >= 1 /\ k <= Len(a) + 1 /\ k <= Len(b) + 1
      /\ ~(k <= Len(a) /\ k <= Len(b) /\ a[k] = b[k])
  BY <1>3
<1>5. ASSUME NEW j \in Nat, 1 <= j, j < k
      PROVE  a[j] = b[j] /\ b[j] = a[j]
  <2>1. j \notin D
    <3> HIDE DEF D
    <3> QED BY <1>3, <1>4, <1>5
  <2>2. j <= Len(a) + 1 /\ j <= Len(b) + 1
    BY <1>1, <1>4, <1>5
  <2> QED BY <1>5, <2>1, <2>2
<1> HIDE DEF D
<1>6. CASE k <= Len(a) /\ k <= Len(b)
  <2>1. a[k] # b[k] /\ a[k] \in Words /\ b[k] \in Words
    BY <1>1, <1>4, <1>6
  <2>2. Code[a[k]] # Code[b[k]] /\ Code[a[k]] \in Int /\ Code[b[k]] \in Int
    BY <2>1, Codes
  <2>3. PartsAt(a, b, k) \/ PartsAt(b, a, k)
    BY <1>4, <1>5, <1>6, <2>2 DEF PartsAt
  <2> QED BY <2>3, LessParts
<1>7. CASE ~(k <= Len(a)) /\ k <= Len(b)
  <2>1. PartsAt(a, b, k)
    BY <1>4, <1>5, <1>7 DEF PartsAt
  <2> QED BY <2>1, LessParts
<1>8. CASE k <= Len(a) /\ ~(k <= Len(b))
  <2>1. PartsAt(b, a, k)
    BY <1>4, <1>5, <1>8 DEF PartsAt
  <2> QED BY <2>1, LessParts
<1>9. CASE ~(k <= Len(a)) /\ ~(k <= Len(b))
  <2>1. Len(a) = k - 1 /\ Len(b) = k - 1
    BY <1>1, <1>4, <1>9
  <2>2. \A j \in 1 .. Len(a) : a[j] = b[j]
    BY <1>4, <1>5, <2>1
  <2>3. a = b
    BY <2>1, <2>2 DEF Texts
  <2> QED BY <2>3
<1> QED BY <1>6, <1>7, <1>8, <1>9

\* e lists the hashes of a set in order.
Listing(e, S) ==
  /\ e \in [1 .. Cardinality(S) -> S]
  /\ \A i, j \in 1 .. Cardinality(S) : i < j => Less(e[i], e[j])

\* Every finite set can be listed in order: each hash at the place that the number of
\* those below it gives it.
LEMMA SortedLists ==
  ASSUME NEW S \in SUBSET Texts, IsFiniteSet(S)
  PROVE  Listing(Sorted(S), S)
<1> DEFINE N == Cardinality(S)
<1> DEFINE Below(x) == {y \in S : Less(y, x)}
<1> DEFINE rank == [x \in S |-> Cardinality(Below(x)) + 1]
<1>1. N \in Nat
  BY FS_CardinalityType
<1>2. ASSUME NEW x \in S
      PROVE  IsFiniteSet(Below(x)) /\ Cardinality(Below(x)) \in Nat /\ rank[x] \in 1 .. N
  <2>1. Below(x) \subseteq S \ {x}
    <3>1. x \in Texts /\ ~Less(x, x)
      BY LessIrreflexive
    <3> QED BY <3>1
  <2>2. IsFiniteSet(S \ {x}) /\ Cardinality(S \ {x}) = N - 1
    BY FS_RemoveElement
  <2> HIDE DEF Below
  <2>3. IsFiniteSet(Below(x)) /\ Cardinality(Below(x)) <= N - 1
    BY <2>1, <2>2, FS_Subset
  <2>4. Cardinality(Below(x)) \in Nat
    BY <2>3, FS_CardinalityType
  <2>5. rank[x] = Cardinality(Below(x)) + 1
    OBVIOUS
  <2> HIDE DEF rank, N
  <2> QED BY <1>1, <2>3, <2>4, <2>5
<1>3. ASSUME NEW x \in S, NEW y \in S, Less(x, y)
      PROVE  rank[x] < rank[y]
  <2>0. x \in Texts /\ y \in Texts
    OBVIOUS
  <2>1. Below(x) \subseteq Below(y)
    <3> SUFFICES ASSUME NEW z \in S, Less(z, x) PROVE Less(z, y)
      OBVIOUS
    <3>1. z \in Texts
      OBVIOUS
    <3> QED BY <1>3, <2>0, <3>1, LessTransitive
  <2>2. x \in Below(y) /\ x \notin Below(x)
    BY <1>3, <2>0, LessIrreflexive
  <2>3. rank[x] = Cardinality(Below(x)) + 1 /\ rank[y] = Cardinality(Below(y)) + 1
    OBVIOUS
  <2>4. /\ IsFiniteSet(Below(y)) /\ Cardinality(Below(x)) \in Nat
        /\ Cardinality(Below(y)) \in Nat
    BY <1>2
  <2> HIDE DEF Below, rank
  <2>5. Below(x) # Below(y)
    BY <2>2
  <2>6. Cardinality(Below(x)) <= Cardinality(Below(y))
    BY <2>1, <2>4, FS_Subset
  <2>7. Cardinality(Below(x)) # Cardinality(Below(y))
    BY <2>1, <2>4, <2>5, FS_Subset
  <2> QED BY <2>3, <2>4, <2>6, <2>7
<1>4. rank \in [S -> 1 .. N]
  BY <1>2
<1> HIDE DEF rank, N
<1>5. rank \in Injection(S, 1 .. N)
  <2>1. ASSUME NEW x \in S, NEW y \in S, x # y PROVE rank[x] # rank[y]
    <3>1. x \in Texts /\ y \in Texts /\ rank[x] \in 1 .. N /\ rank[y] \in 1 .. N
      BY <1>4
    <3>2. Less(x, y) \/ Less(y, x)
      BY <2>1, <3>1, LessTotal
    <3>3. rank[x] < rank[y] \/ rank[y] < rank[x]
      BY <3>2, <1>3
    <3> QED BY <3>1, <3>3
  <2> QED BY <1>4, <2>1 DEF Injection, IsInjective
<1>6. rank \in Surjection(S, 1 .. N)
  <2>1. IsFiniteSet(1 .. N) /\ Cardinality(1 .. N) = N
    BY <1>1, FS_Interval
  <2>2. Cardinality(S) = Cardinality(1 .. N)
    BY <2>1 DEF N
  <2> QED BY <1>5, <2>1, <2>2, FS_Injection
<1> DEFINE e == [i \in 1 .. N |-> CHOOSE x \in S : rank[x] = i]
<1>7. ASSUME NEW i \in 1 .. N PROVE e[i] \in S /\ rank[e[i]] = i
  <2>1. \E x \in S : rank[x] = i
    BY <1>6 DEF Surjection
  <2> QED BY <2>1
<1>8. e \in [1 .. N -> S]
  BY <1>7
<1> HIDE DEF e
<1>9. ASSUME NEW i \in 1 .. N, NEW j \in 1 .. N, i < j PROVE Less(e[i], e[j])
  <2>1. /\ e[i] \in S /\ e[j] \in S /\ e[i] \in Texts /\ e[j] \in Texts
        /\ rank[e[i]] = i /\ rank[e[j]] = j
    BY <1>7
  <2>2. e[i] # e[j]
    BY <2>1, <1>9
  <2>3. ~Less(e[j], e[i])
    BY <2>1, <1>3, <1>9
  <2> QED BY <2>1, <2>2, <2>3, LessTotal
<1>10. \E h \in [1 .. N -> S] : \A i, j \in DOMAIN h : i < j => Less(h[i], h[j])
  <2>1. DOMAIN e = 1 .. N
    BY <1>8
  <2> QED BY <1>8, <1>9, <2>1
<1>11. /\ Sorted(S) \in [1 .. N -> S]
       /\ \A i, j \in DOMAIN Sorted(S) : i < j => Less(Sorted(S)[i], Sorted(S)[j])
  BY <1>10 DEF Sorted, N
<1> QED BY <1>11 DEF Listing, N

\* What lists a set in order lists each of its hashes once.
LEMMA ListsOnce ==
  ASSUME NEW S \in SUBSET Texts, IsFiniteSet(S), NEW e, Listing(e, S)
  PROVE  /\ \A i, j \in 1 .. Cardinality(S) : i # j => e[i] # e[j]
         /\ \A x \in S : \E i \in 1 .. Cardinality(S) : e[i] = x
<1> DEFINE N == Cardinality(S)
<1>1. N \in Nat
  BY FS_CardinalityType
<1>2. /\ e \in [1 .. N -> S]
      /\ \A i, j \in 1 .. N : i < j => Less(e[i], e[j])
  BY DEF Listing
<1>3. IsFiniteSet(1 .. N) /\ Cardinality(1 .. N) = Cardinality(S)
  BY <1>1, FS_Interval
<1> HIDE DEF N
<1>4. ASSUME NEW i \in 1 .. N, NEW j \in 1 .. N, i # j PROVE e[i] # e[j]
  <2>1. e[i] \in Texts /\ e[j] \in Texts
    BY <1>2
  <2>2. ~Less(e[i], e[i]) /\ ~Less(e[j], e[j])
    BY <2>1, LessIrreflexive
  <2>3. i < j \/ j < i
    BY <1>1, <1>4
  <2> QED BY <1>2, <2>2, <2>3
<1>5. e \in Injection(1 .. N, S)
  BY <1>2, <1>4 DEF Injection, IsInjective
<1>6. e \in Surjection(1 .. N, S)
  BY <1>3, <1>5, FS_Injection
<1>7. \A x \in S : \E i \in 1 .. N : e[i] = x
  BY <1>6 DEF Surjection
<1> QED BY <1>4, <1>7 DEF N

\* Hashes in order, repeated ones left out, are those of their set in order: what this
\* writes after i of them is f[i].
Distinct(a, f) ==
  /\ f \in [0 .. Len(a) -> Texts] /\ f[0] = <<>>
  /\ \A i \in 1 .. Len(a) :
       f[i] = IF i > 1 /\ a[i - 1] = a[i] THEN f[i - 1] ELSE f[i - 1] \o a[i]

LEMMA SortedOnce ==
  ASSUME NEW a \in Seq(Texts), \A i, j \in 1 .. Len(a) : i < j => ~Less(a[j], a[i])
  PROVE  \E f : Distinct(a, f) /\ f[Len(a)] = FlattenSeq(Sorted(Range(a)))
<1> DEFINE m == Len(a)
<1> DEFINE S == Range(a)
<1> DEFINE N == Cardinality(S)
<1> DEFINE e == Sorted(S)
<1> DEFINE Upto(i) == {a[j] : j \in 1 .. i}
<1> DEFINE p(i) == Cardinality(Upto(i))
<1>1. /\ m \in Nat /\ \A i \in 1 .. m : a[i] \in Texts
      /\ \A i, j \in 1 .. m : i < j => ~Less(a[j], a[i])
      /\ DOMAIN a = 1 .. m
  OBVIOUS
<1>2. S = Upto(m) /\ S \in SUBSET Texts
  BY <1>1 DEF Range
<1>3. /\ \A i \in 0 .. m : Upto(i) \subseteq S
      /\ Upto(0) = {}
      /\ \A i \in 1 .. m : Upto(i) = Upto(i - 1) \cup {a[i]}
  <2>1. \A i \in 0 .. m : Upto(i) \subseteq S
    BY <1>1, <1>2
  <2>2. Upto(0) = {}
    OBVIOUS
  <2>3. ASSUME NEW i \in 1 .. m PROVE Upto(i) = Upto(i - 1) \cup {a[i]}
    <3>1. 1 .. i = (1 .. i - 1) \cup {i}
      BY <1>1
    <3> QED BY <3>1
  <2> QED BY <2>1, <2>2, <2>3
<1>4. IsFiniteSet(S) /\ N \in Nat
  <2>1. IsFiniteSet(1 .. m)
    BY <1>1, FS_Interval
  <2>2. a \in Surjection(1 .. m, S)
    <3>1. a \in [1 .. m -> S]
      BY <1>1, <1>2
    <3>2. \A x \in S : \E i \in 1 .. m : a[i] = x
      BY <1>2
    <3> HIDE DEF S, m
    <3> QED BY <3>1, <3>2 DEF Surjection
  <2> HIDE DEF S, m
  <2>3. IsFiniteSet(S)
    BY <2>1, <2>2, FS_Surjection
  <2> QED BY <2>3, FS_CardinalityType
<1> HIDE DEF m, S, N, e
<1>5. /\ e \in [1 .. N -> S]
      /\ \A i, j \in 1 .. N : i < j => Less(e[i], e[j])
      /\ \A i, j \in 1 .. N : i # j => e[i] # e[j]
      /\ \A x \in S : \E i \in 1 .. N : e[i] = x
  <2>1. Listing(e, S)
    BY <1>2, <1>4, SortedLists DEF e
  <2>2. /\ \A i, j \in 1 .. N : i # j => e[i] # e[j]
        /\ \A x \in S : \E i \in 1 .. N : e[i] = x
    <3>1. /\ \A i, j \in 1 .. Cardinality(S) : i # j => e[i] # e[j]
          /\ \A x \in S : \E i \in 1 .. Cardinality(S) : e[i] = x
      <4>1. S \in SUBSET Texts /\ IsFiniteSet(S)
        BY <1>2, <1>4
      <4> HIDE DEF Listing, Texts
      <4> QED BY <2>1, <4>1, ListsOnce
    <3> QED BY <3>1 DEF N
  <2> QED BY <2>1, <2>2 DEF Listing, N
<1>6. \A i \in 1 .. N : e[i] \in S /\ e[i] \in Texts
  BY <1>2, <1>5
<1>7. \A i \in 0 .. m : IsFiniteSet(Upto(i)) /\ p(i) \in Nat
  <2> TAKE i \in 0 .. m
  <2>1. Upto(i) \subseteq S
    BY <1>3
  <2> HIDE DEF Upto
  <2>2. IsFiniteSet(Upto(i))
    BY <1>4, <2>1, FS_Subset
  <2> QED BY <2>2, FS_CardinalityType
\* The i-th one is the one that has as many up to it in the set as in the list.
<1>8. ASSUME NEW i \in 1 .. m
      PROVE  p(i) \in 1 .. N /\ e[p(i)] = a[i]
  <2>1. a[i] \in S /\ a[i] \in Texts
    BY <1>1, <1>2
  <2>2. PICK q \in 1 .. N : e[q] = a[i]
    BY <1>5, <2>1
  <2> DEFINE First == {e[k] : k \in 1 .. q}
  <2>3. ASSUME NEW j \in 1 .. i PROVE a[j] \in First
    <3>1. j \in 1 .. m /\ a[j] \in S
      BY <1>1, <1>2
    <3>2. PICK k \in 1 .. N : e[k] = a[j]
      BY <1>5, <3>1
    <3>3. CASE k <= q
      <4>1. k \in 1 .. q
        BY <3>3, <1>4
      <4> QED BY <3>2, <4>1
    <3>4. CASE q < k
      <4>1. Less(a[i], a[j])
        BY <1>5, <2>2, <3>2, <3>4
      <4>2. CASE j = i
        BY <2>1, <4>1, <4>2, LessIrreflexive
      <4>3. CASE j # i
        <5>1. j < i
          BY <1>1, <4>3
        <5> QED BY <1>1, <3>1, <4>1, <5>1
      <4> QED BY <4>2, <4>3
    <3> QED BY <1>4, <3>3, <3>4
  <2>4. ASSUME NEW k \in 1 .. q PROVE e[k] \in Upto(i)
    <3>1. k \in 1 .. N /\ e[k] \in S
      BY <1>4, <1>6
    <3>2. PICK j \in 1 .. m : e[k] = a[j]
      BY <1>2, <3>1
    <3>3. CASE j <= i
      <4>1. j \in 1 .. i
        BY <1>1, <3>3
      <4> QED BY <3>2, <4>1
    <3>4. CASE i < j
      <4>1. ~Less(a[j], a[i])
        BY <1>1, <3>4
      <4>2. CASE k = q
        <5>1. i \in 1 .. i
          BY <1>1
        <5> QED BY <2>2, <4>2, <5>1
      <4>3. CASE k # q
        <5>1. k < q
          BY <1>4, <4>3
        <5>2. Less(e[k], e[q])
          BY <1>5, <3>1, <5>1
        <5> QED BY <2>2, <3>2, <4>1, <5>2
      <4> QED BY <4>2, <4>3
    <3> QED BY <1>1, <3>3, <3>4
  <2>5. Upto(i) = First
    BY <2>3, <2>4
  <2>6. Cardinality(First) = q
    <3>1. q \in Nat /\ 1 .. q \subseteq 1 .. N
      BY <1>4
    <3>2. IsFiniteSet(1 .. q) /\ Cardinality(1 .. q) = q
      BY <3>1, FS_Interval
    <3> DEFINE g == [k \in 1 .. q |-> e[k]]
    <3>3. g \in [1 .. q -> First]
      OBVIOUS
    <3>4. \A k, l \in 1 .. q : g[k] = g[l] => k = l
      BY <1>5, <3>1
    <3>5. \A x \in First : \E k \in 1 .. q : g[k] = x
      OBVIOUS
    <3> HIDE DEF g, First
    <3>6. g \in Injection(1 .. q, First)
      BY <3>3, <3>4 DEF Injection, IsInjective
    <3>7. g \in Surjection(1 .. q, First)
      BY <3>3, <3>5 DEF Surjection
    <3>8. Cardinality(First) = Cardinality(1 .. q)
      BY <3>2, <3>6, <3>7, FS_Surjection
    <3> QED BY <3>2, <3>8
  <2>7. p(i) = q
    BY <2>5, <2>6
  <2> QED BY <2>2, <2>7
<1>9. ASSUME NEW i \in 1 .. m
      PROVE  p(i) = IF i > 1 /\ a[i - 1] = a[i] THEN p(i - 1) ELSE p(i - 1) + 1
  <2>0. i - 1 \in 0 .. m /\ Upto(i) = Upto(i - 1) \cup {a[i]}
    BY <1>1, <1>3
  <2>1. CASE i > 1 /\ a[i - 1] = a[i]
    <3>1. a[i] \in Upto(i - 1)
      <4>1. i - 1 \in 1 .. i - 1
        BY <1>1, <2>1
      <4> QED BY <2>1, <4>1
    <3>2. Upto(i) = Upto(i - 1)
      BY <2>0, <3>1
    <3> QED BY <2>1, <3>2
  <2>2. CASE ~(i > 1 /\ a[i - 1] = a[i])
    <3>1. a[i] \notin Upto(i - 1)
      <4>1. SUFFICES ASSUME NEW j \in 1 .. i - 1, a[j] = a[i] PROVE FALSE
        OBVIOUS
      <4>2. i > 1 /\ i - 1 \in 1 .. m /\ j \in 1 .. m /\ a[i - 1] # a[i]
        BY <1>1, <2>2, <4>1
      <4>3. a[i] \in Texts /\ a[i - 1] \in Texts
        BY <1>1, <4>2
      <4>4. ~Less(a[i], a[i - 1])
        <5>1. i - 1 < i
          OBVIOUS
        <5> QED BY <1>1, <4>2, <5>1
      <4>5. Less(a[i - 1], a[i])
        BY <4>2, <4>3, <4>4, LessTotal
      <4>6. j # i - 1
        BY <4>1, <4>2
      <4>7. j < i - 1
        BY <4>1, <4>6
      <4>8. ~Less(a[i - 1], a[j])
        BY <1>1, <4>2, <4>7
      <4> QED BY <4>1, <4>5, <4>8
    <3>2. IsFiniteSet(Upto(i - 1))
      BY <1>7, <2>0
    <3> HIDE DEF Upto
    <3>3. Cardinality(Upto(i - 1) \cup {a[i]}) = Cardinality(Upto(i - 1)) + 1
      BY <3>1, <3>2, FS_AddElement
    <3> QED BY <2>0, <2>2, <3>3
  <2> QED BY <2>1, <2>2
<1>10. p(0) = 0
  BY <1>3, FS_EmptySet
<1>11. p(m) = N
  BY <1>2 DEF N
<1>12. e \in Seq(Texts) /\ Len(e) = N
  BY <1>4, <1>5, <1>6
<1>13. PICK F : Sums(Words, e, N, F) /\ F[N] = FlattenSeq(e)
  <2>1. e \in Seq(Seq(Words))
    BY <1>12 DEF Texts
  <2> QED BY <1>12, <2>1, Flattened
<1> DEFINE f == [i \in 0 .. m |-> F[p(i)]]
<1>14. \A i \in 0 .. m : p(i) \in 0 .. N
  <2> TAKE i \in 0 .. m
  <2>1. CASE i = 0
    BY <2>1, <1>10, <1>4
  <2>2. CASE i # 0
    <3>1. i \in 1 .. m
      BY <1>1, <2>2
    <3>2. p(i) \in 1 .. N
      BY <1>8, <3>1
    <3> QED BY <3>2, <1>4
  <2> QED BY <2>1, <2>2
<1> HIDE DEF p
<1>15. f \in [0 .. m -> Texts]
  BY <1>13, <1>14 DEF Sums, Texts
<1>16. f[0] = <<>>
  BY <1>1, <1>10, <1>13 DEF Sums
<1>17. ASSUME NEW i \in 1 .. m
       PROVE  f[i] = IF i > 1 /\ a[i - 1] = a[i] THEN f[i - 1] ELSE f[i - 1] \o a[i]
  <2>1. i \in 0 .. m /\ i - 1 \in 0 .. m
    BY <1>1
  <2>2. f[i] = F[p(i)] /\ f[i - 1] = F[p(i - 1)]
    BY <2>1
  <2>3. p(i) \in 1 .. N /\ e[p(i)] = a[i]
    BY <1>8
  <2>4. F[p(i)] = F[p(i) - 1] \o e[p(i)]
    BY <2>3, <1>13 DEF Sums
  <2>5. p(i - 1) \in Nat
    BY <1>14, <2>1
  <2> HIDE DEF f
  <2>6. CASE i > 1 /\ a[i - 1] = a[i]
    BY <1>9, <2>2, <2>6
  <2>7. CASE ~(i > 1 /\ a[i - 1] = a[i])
    <3>1. p(i) = p(i - 1) + 1
      BY <1>9, <2>7
    <3>2. p(i) - 1 = p(i - 1)
      BY <2>5, <3>1
    <3> QED BY <2>2, <2>3, <2>4, <2>7, <3>2
  <2> QED BY <2>6, <2>7
<1>18. f[m] = FlattenSeq(e)
  <2>1. m \in 0 .. m
    BY <1>1
  <2> QED BY <2>1, <1>11, <1>13
<1>19. Distinct(a, f)
  <2> HIDE DEF f
  <2> QED BY <1>15, <1>16, <1>17 DEF Distinct, m
<1> QED BY <1>18, <1>19 DEF m, e, S

LEMMA FlattenType ==
  ASSUME NEW s \in Seq(Texts) PROVE FlattenSeq(s) \in Texts
<1>1. s \in Seq(Seq(Words)) /\ Len(s) \in Nat
  BY DEF Texts
<1>2. PICK f : Sums(Words, s, Len(s), f) /\ f[Len(s)] = FlattenSeq(s)
  BY <1>1, Flattened
<1>3. Len(s) \in 0 .. Len(s)
  BY <1>1
<1> QED BY <1>2, <1>3 DEF Sums, Texts

LEMMA NamedType ==
  ASSUME NEW n \in Nodes, kind[n] \in Words, NEW strings \in Texts
  PROVE  Named(n, strings) \in Texts
<1>1. <<kind[n]>> \o strings \in Texts /\ <<>> \in Texts
  <2>1. <<kind[n]>> \in Seq(Words)
    <3> HIDE DEF Words
    <3> QED OBVIOUS
  <2> HIDE DEF Words
  <2> QED BY <2>1 DEF Texts
<1> QED BY <1>1 DEF Named

LEMMA SortedType ==
  ASSUME NEW a \in Seq(Texts)
  PROVE  Sorted(Range(a)) \in Seq(Texts)
<1> DEFINE S == Range(a)
<1>1. S \in SUBSET Texts /\ S = {a[j] : j \in 1 .. Len(a)} /\ Len(a) \in Nat
  BY DEF Range
<1>2. IsFiniteSet(S)
  <2>1. IsFiniteSet(1 .. Len(a))
    BY <1>1, FS_Interval
  <2>2. a \in [1 .. Len(a) -> S] /\ \A x \in S : \E i \in 1 .. Len(a) : a[i] = x
    <3>1. \A j \in 1 .. Len(a) : a[j] \in S
      BY <1>1
    <3>2. a \in [1 .. Len(a) -> Texts]
      OBVIOUS
    <3> HIDE DEF S
    <3> QED BY <1>1, <3>1, <3>2
  <2> HIDE DEF S
  <2>3. a \in Surjection(1 .. Len(a), S)
    BY <2>2 DEF Surjection
  <2> QED BY <2>1, <2>3, FS_Surjection
<1> HIDE DEF S
<1>3. Sorted(S) \in [1 .. Cardinality(S) -> S] /\ Cardinality(S) \in Nat
  BY <1>1, <1>2, SortedLists, FS_CardinalityType DEF Listing
<1>4. Sorted(S) \in Seq(S)
  BY <1>3
<1>5. Sorted(S) \in Seq(Texts)
  BY <1>1, <1>4
<1> QED BY <1>5 DEF S

LEMMA ExpectedOfType ==
  ASSUME TreeOK, KindsOK, NEW n \in Nodes, NEW items \in Seq(Texts),
         Len(items) = Len(children[n])
  PROVE  ExpectedOf(n, items) \in Texts
<1>1. /\ kind[n] \in Kinds /\ children[n] \in Seq(Nodes) /\ \A m \in Nodes : kind[m] \in Kinds
      /\ Len(items) \in Nat
  BY DEF TreeOK, Nodes
<1>2. <<>> \in Texts
  BY DEF Texts
<1>3. ASSUME kind[n] # "null" PROVE <<kind[n]>> \in Texts
  <2>1. kind[n] \in Words
    BY <1>1, <1>3 DEF Words
  <2> HIDE DEF Words
  <2> QED BY <2>1 DEF Texts
<1>4. ASSUME kind[n] \in {"struct", "again"}
      PROVE  FlattenSeq([i \in DOMAIN items |-> Named(children[n][i], items[i])]) \in Texts
  <2> DEFINE s == [i \in DOMAIN items |-> Named(children[n][i], items[i])]
  <2>1. DOMAIN items = 1 .. Len(items) /\ DOMAIN children[n] = 1 .. Len(items)
    BY <1>1
  <2>2. ASSUME NEW i \in 1 .. Len(items) PROVE Named(children[n][i], items[i]) \in Texts
    <3>1. children[n][i] \in Nodes /\ items[i] \in Texts
      BY <1>1
    <3>2. kind[children[n][i]] # "null"
      BY <1>4, <2>1 DEF KindsOK
    <3>3. kind[children[n][i]] \in Words
      BY <1>1, <3>1, <3>2 DEF Words
    <3> QED BY <3>1, <3>3, NamedType
  <2>3. s \in Seq(Texts)
    <3> HIDE DEF Texts
    <3> QED BY <1>1, <2>1, <2>2
  <2> QED BY <2>3, FlattenType
<1>5. FlattenSeq(items) \in Texts
  BY FlattenType
<1>6. FlattenSeq(Sorted(Range(items))) \in Texts
  BY SortedType, FlattenType
<1>7. CASE Depth[n] >= MaxDepth \/ kind[n] \in {"const", "null"}
  BY <1>2, <1>7 DEF ExpectedOf
<1>8. CASE ~(Depth[n] >= MaxDepth \/ kind[n] \in {"const", "null"})
  <2>1. CASE kind[n] \in {"a", "b"}
    BY <1>3, <1>8, <2>1 DEF ExpectedOf
  <2>2. CASE kind[n] \in {"struct", "again"}
    <3> DEFINE x == FlattenSeq([i \in DOMAIN items |-> Named(children[n][i], items[i])])
    <3>1. x \in Texts /\ <<kind[n]>> \in Texts
      BY <1>3, <1>4, <2>2
    <3>2. <<kind[n]>> \o x \in Texts
      <4> HIDE DEF x
      <4> QED BY <3>1 DEF Texts
    <3>3. ExpectedOf(n, items) = <<kind[n]>> \o x
      BY <1>8, <2>2 DEF ExpectedOf
    <3> QED BY <3>2, <3>3
  <2>3. CASE kind[n] = "plain"
    BY <1>5, <1>8, <2>3 DEF ExpectedOf
  <2>4. CASE kind[n] = "sorted"
    BY <1>6, <1>8, <2>4 DEF ExpectedOf
  <2> QED BY <1>1, <1>8, <2>1, <2>2, <2>3, <2>4 DEF Kinds, Lists
<1> QED BY <1>7, <1>8

\* The recursion of Expected ends, as the children of a node are of a higher rank.
LEMMA ExpectedIs ==
  ASSUME TreeOK, RankedTree
  PROVE  /\ Expected \in [Nodes -> Texts]
         /\ \A n \in Nodes : Expected[n] = ExpectedOf(n, Items(n))
<1>1. PICK r : IsRank(r)
  BY DEF RankedTree
<1>2. /\ Len(kind) \in Nat /\ \A n \in Nodes : children[n] \in Seq(Nodes)
      /\ r \in [Nodes -> 0 .. Len(kind)]
      /\ \A n \in Nodes : \A i \in DOMAIN children[n] : r[children[n][i]] = r[n] + 1
  BY <1>1 DEF TreeOK, IsRank, Nodes
<1> DEFINE From(k) == {n \in Nodes : r[n] >= k}
<1> DEFINE Solves(f, k) ==
      /\ f \in [From(k) -> Texts]
      /\ \A n \in From(k) : f[n] = ExpectedOf(n, [i \in DOMAIN children[n] |-> f[children[n][i]]])
<1> DEFINE M == Len(kind)
<1>3. \A j \in 0 .. M + 1 : \E f : Solves(f, M + 1 - j)
  <2> DEFINE T == {j \in 0 .. M + 1 : ~ \E f : Solves(f, M + 1 - j)}
  <2>1. SUFFICES ASSUME T # {} PROVE FALSE
    OBVIOUS
  <2>2. PICK j \in T : \A k \in T : j <= k
    <3>1. T \in SUBSET Nat
      OBVIOUS
    <3> HIDE DEF T
    <3> QED BY <2>1, <3>1, LeastNat
  <2>3. j # 0
    <3>1. From(M + 1) = {}
      BY <1>2
    <3> DEFINE f == [n \in From(M + 1) |-> <<>>]
    <3>2. Solves(f, M + 1)
      BY <3>1
    <3>3. M + 1 - 0 = M + 1
      BY <1>2
    <3> HIDE DEF Solves, f
    <3> QED BY <2>2, <3>2, <3>3
  <2>4. /\ j \in Nat /\ j - 1 \in 0 .. M + 1 /\ ~(j <= j - 1) /\ M + 1 - j \in Int
        /\ M + 1 - (j - 1) = (M + 1 - j) + 1
    BY <1>2, <2>2, <2>3
  <2>5. PICK f : Solves(f, (M + 1 - j) + 1)
    <3>1. j - 1 \notin T
      <4> HIDE DEF T
      <4> QED BY <2>2, <2>4
    <3> HIDE DEF Solves
    <3>2. \E f : Solves(f, M + 1 - (j - 1))
      BY <2>4, <3>1
    <3> QED BY <2>4, <3>2
  <2> DEFINE k == M + 1 - j
  <2>6. k \in Int
    BY <2>4
  <2>7. Solves(f, k + 1) /\ ~ \E g : Solves(g, k)
    BY <2>2, <2>5
  <2> HIDE DEF k, T, M
  <2> DEFINE below(n) == [i \in DOMAIN children[n] |-> f[children[n][i]]]
  <2> DEFINE g == [n \in From(k) |-> IF n \in From(k + 1) THEN f[n] ELSE ExpectedOf(n, below(n))]
  <2>8. ASSUME NEW n \in From(k)
        PROVE  \A i \in DOMAIN children[n] : /\ children[n][i] \in Nodes
                                             /\ children[n][i] \in From(k + 1)
                                             /\ children[n][i] \in From(k)
    <3> TAKE i \in DOMAIN children[n]
    <3>1. children[n][i] \in Nodes /\ r[children[n][i]] = r[n] + 1
      BY <1>2
    <3>2. r[n] \in Nat /\ r[n] >= k
      BY <1>2
    <3>3. r[children[n][i]] >= k + 1 /\ r[children[n][i]] >= k
      BY <2>6, <3>1, <3>2
    <3> QED BY <3>1, <3>3
  <2> HIDE DEF From
  <2>9. ASSUME NEW n \in From(k)
        PROVE  ExpectedOf(n, below(n)) \in Texts
    <3>1. n \in Nodes /\ children[n] \in Seq(Nodes)
      BY <1>2 DEF From
    <3>2. \A i \in DOMAIN children[n] : f[children[n][i]] \in Texts
      BY <2>7, <2>8
    <3>3. DOMAIN children[n] = 1 .. Len(children[n]) /\ Len(children[n]) \in Nat
      BY <3>1
    <3>4. below(n) \in Seq(Texts) /\ Len(below(n)) = Len(children[n])
      BY <3>2, <3>3
    <3> HIDE DEF below
    <3> QED BY <3>1, <3>4, ExpectedOfType DEF RankedTree
  <2>10. ASSUME NEW n \in From(k)
         PROVE  n \in From(k + 1) => f[n] = ExpectedOf(n, below(n)) /\ f[n] \in Texts
    BY <2>7
  <2>11. \A n \in From(k) : g[n] = ExpectedOf(n, below(n)) /\ g[n] \in Texts
    <3> HIDE DEF below, Solves
    <3> QED BY <2>9, <2>10
  <2>12. \A n \in From(k) : [i \in DOMAIN children[n] |-> g[children[n][i]]] = below(n)
    <3> TAKE n \in From(k)
    <3>1. \A i \in DOMAIN children[n] : g[children[n][i]] = f[children[n][i]]
      <4> HIDE DEF Solves, below
      <4> QED BY <2>8
    <3> HIDE DEF g
    <3> QED BY <3>1
  <2>13. g \in [From(k) -> Texts]
    <3>1. \A n \in From(k) : g[n] \in Texts
      BY <2>11
    <3>2. g = [n \in From(k) |-> g[n]]
      OBVIOUS
    <3> HIDE DEF g
    <3> QED BY <3>1, <3>2
  <2>14. Solves(g, k)
    <3> HIDE DEF g, below
    <3> QED BY <2>11, <2>12, <2>13
  <2> QED BY <2>7, <2>14
<1>4. PICK f : Solves(f, 0)
  <2>1. M + 1 \in 0 .. M + 1 /\ M + 1 - (M + 1) = 0
    BY <1>2
  <2> HIDE DEF Solves
  <2> QED BY <1>3, <2>1
<1>5. From(0) = Nodes
  BY <1>2
<1>6. f \in [Nodes -> Texts]
      /\ f = [n \in Nodes |-> ExpectedOf(n, [i \in DOMAIN children[n] |-> f[children[n][i]]])]
  <2>1. f \in [Nodes -> Texts]
    BY <1>4, <1>5
  <2>2. \A n \in Nodes : f[n] = ExpectedOf(n, [i \in DOMAIN children[n] |-> f[children[n][i]]])
    BY <1>4, <1>5
  <2> QED BY <2>1, <2>2
<1> HIDE DEF From, Solves
<1>7. Expected = [n \in Nodes |->
                    ExpectedOf(n, [i \in DOMAIN children[n] |-> Expected[children[n][i]]])]
  BY <1>6 DEF Expected
<1>8. \A n \in Nodes : Expected[n] = ExpectedOf(n, Items(n))
  BY <1>7 DEF Items
<1>9. \A n \in Nodes : Expected[n] = f[n]
  <2> DEFINE T == {j \in 0 .. M : \E n \in Nodes : r[n] = M - j /\ Expected[n] # f[n]}
  <2>1. T = {}
    <3>1. SUFFICES ASSUME T # {} PROVE FALSE
      OBVIOUS
    <3>2. PICK j \in T : \A k \in T : j <= k
      <4>1. T \in SUBSET Nat
        OBVIOUS
      <4> HIDE DEF T
      <4> QED BY <3>1, <4>1, LeastNat
    <3>3. PICK n \in Nodes : r[n] = M - j /\ Expected[n] # f[n]
      BY <3>2
    <3>4. ASSUME NEW i \in DOMAIN children[n]
          PROVE  Expected[children[n][i]] = f[children[n][i]]
      <4>1. /\ children[n][i] \in Nodes /\ r[children[n][i]] = r[n] + 1
            /\ r[children[n][i]] \in 0 .. M
        BY <1>2
      <4>2. j - 1 \in 0 .. M /\ r[children[n][i]] = M - (j - 1) /\ ~(j <= j - 1)
        BY <1>2, <3>2, <3>3, <4>1
      <4>3. j - 1 \notin T
        <5> HIDE DEF T
        <5> QED BY <3>2, <4>2
      <4> QED BY <4>1, <4>2, <4>3
    <3>5. Items(n) = [i \in DOMAIN children[n] |-> f[children[n][i]]]
      BY <3>4 DEF Items
    <3> QED BY <1>6, <1>8, <3>3, <3>5
  <2>2. ASSUME NEW n \in Nodes PROVE Expected[n] = f[n]
    <3>1. r[n] \in 0 .. M /\ M \in Nat
      BY <1>2
    <3>2. M - r[n] \in 0 .. M /\ M - (M - r[n]) = r[n]
      BY <3>1
    <3>3. M - r[n] \notin T
      <4> HIDE DEF T
      <4> QED BY <2>1
    <3> QED BY <3>2, <3>3
  <2> QED BY <2>2
<1>10. Expected \in [Nodes -> Texts]
  <2>1. \A n \in Nodes : Expected[n] \in Texts
    BY <1>6, <1>9
  <2>2. Expected = [n \in Nodes |-> Expected[n]]
    BY <1>7
  <2> QED BY <2>1, <2>2
<1> QED BY <1>8, <1>10

LEMMA SameTree ==
  ASSUME UNCHANGED tree
  PROVE  /\ kind' = kind /\ parent' = parent /\ children' = children
         /\ Nodes' = Nodes /\ Depth' = Depth /\ Expected' = Expected
<1>1. kind' = kind /\ parent' = parent /\ children' = children
  BY DEF tree
<1>2. Nodes' = Nodes
  BY <1>1 DEF Nodes
<1>3. Depth' = Depth
  BY <1>1 DEF Depth, Nodes
<1>4. Expected' = Expected
  BY <1>1 DEF Expected, ExpectedOf, Named, OnlyNull, Depth, Nodes, Sorted, Less, Code
<1> QED BY <1>1, <1>2, <1>3, <1>4

\* What is where when new entries take the place of the first one.
LEMMA Positions ==
  ASSUME NEW E, NEW old \in Seq(E), old # <<>>, NEW new \in Seq(E), NEW t, t = new \o Tail(old)
  PROVE  /\ t \in Seq(E) /\ Len(old) \in Nat /\ Len(old) >= 1 /\ Len(new) \in Nat
         /\ Len(t) = Len(new) + (Len(old) - 1)
         /\ \A k \in 1 .. Len(t) :
              \/ k <= Len(new) /\ k \in 1 .. Len(new) /\ t[k] = new[k]
              \/ /\ k > Len(new) /\ k - Len(new) + 1 \in 2 .. Len(old)
                 /\ t[k] = old[k - Len(new) + 1]
<1> DEFINE m == Len(new)
<1> DEFINE L == Len(old)
<1>1. m \in Nat /\ L \in Nat /\ L >= 1
  OBVIOUS
<1>2. /\ Tail(old) \in Seq(E) /\ Len(Tail(old)) = L - 1
      /\ \A j \in 1 .. L - 1 : Tail(old)[j] = old[j + 1]
  BY <1>1
<1>3. /\ t \in Seq(E) /\ Len(t) = m + (L - 1)
      /\ \A k \in 1 .. m : t[k] = new[k]
      /\ \A k \in m + 1 .. m + (L - 1) : t[k] = Tail(old)[k - m]
  BY <1>1, <1>2
<1> HIDE DEF m, L
<1>4. ASSUME NEW k \in 1 .. Len(t)
      PROVE  \/ k <= m /\ k \in 1 .. m /\ t[k] = new[k]
             \/ k > m /\ k - m + 1 \in 2 .. L /\ t[k] = old[k - m + 1]
  <2>1. CASE k <= m
    <3>1. k \in 1 .. m
      BY <1>1, <2>1
    <3> QED BY <1>3, <2>1, <3>1
  <2>2. CASE ~(k <= m)
    <3>1. k \in m + 1 .. m + (L - 1) /\ k - m \in 1 .. L - 1 /\ k - m + 1 \in 2 .. L /\ k > m
      BY <1>1, <1>3, <2>2
    <3> QED BY <1>2, <1>3, <3>1
  <2> QED BY <2>1, <2>2
<1> QED BY <1>1, <1>3, <1>4 DEF m, L

\* h is f for the new entries, and g for those behind the one done.
Joined(old, new, t, g, f, h) ==
  /\ h[1] = f[1] /\ h[Len(t) + 1] = g[Len(old) + 1]
  /\ \A k \in 1 .. Len(t) :
       \/ \E j \in 1 .. Len(new) : t[k] = new[j] /\ h[k] = f[j] /\ h[k + 1] = f[j + 1]
       \/ \E j \in 2 .. Len(old) : t[k] = old[j] /\ h[k] = g[j] /\ h[k + 1] = g[j + 1]

\* The points before and behind the new entries are put in front of those of the others.
LEMMA PutInFront ==
  ASSUME NEW E, NEW old \in Seq(E), old # <<>>, NEW new \in Seq(E), NEW t, t = new \o Tail(old),
         NEW X, NEW g \in [1 .. Len(old) + 1 -> X], NEW f \in [1 .. Len(new) + 1 -> X],
         f[Len(new) + 1] = g[2]
  PROVE  \E h \in [1 .. Len(t) + 1 -> X] : Joined(old, new, t, g, f, h)
<1> DEFINE m == Len(new)
<1> DEFINE L == Len(old)
<1> DEFINE h == [k \in 1 .. Len(t) + 1 |-> IF k <= m + 1 THEN f[k] ELSE g[k - m + 1]]
<1>1. /\ L \in Nat /\ L >= 1 /\ m \in Nat /\ Len(t) = m + (L - 1)
      /\ \A k \in 1 .. Len(t) :
           \/ k <= m /\ k \in 1 .. m /\ t[k] = new[k]
           \/ k > m /\ k - m + 1 \in 2 .. L /\ t[k] = old[k - m + 1]
  BY Positions
<1>2. f \in [1 .. m + 1 -> X] /\ g \in [1 .. L + 1 -> X] /\ f[m + 1] = g[2]
  OBVIOUS
<1> HIDE DEF m, L
<1>3. ASSUME NEW k \in 1 .. Len(t) + 1
      PROVE  /\ k <= m + 1 => k \in 1 .. m + 1 /\ h[k] = f[k]
             /\ k > m => k - m + 1 \in 1 .. L + 1 /\ h[k] = g[k - m + 1]
  <2>1. ASSUME k <= m + 1 PROVE k \in 1 .. m + 1 /\ h[k] = f[k]
    BY <1>1, <2>1
  <2>2. ASSUME k > m + 1 PROVE k - m + 1 \in 1 .. L + 1 /\ h[k] = g[k - m + 1]
    BY <1>1, <2>2, SMTT(30)
  <2>3. ASSUME k = m + 1 PROVE k - m + 1 \in 1 .. L + 1 /\ h[k] = g[k - m + 1]
    <3>1. k - m + 1 = 2
      BY <1>1, <2>3
    <3> QED BY <1>1, <1>2, <2>1, <2>3, <3>1
  <2> QED BY <1>1, <2>1, <2>2, <2>3
<1>4. h \in [1 .. Len(t) + 1 -> X]
  <2>1. \A k \in 1 .. Len(t) + 1 : h[k] \in X
    <3> TAKE k \in 1 .. Len(t) + 1
    <3>1. k <= m + 1 \/ k > m
      BY <1>1
    <3> QED BY <1>2, <1>3, <3>1
  <2>2. h = [k \in 1 .. Len(t) + 1 |-> h[k]]
    OBVIOUS
  <2> HIDE DEF h
  <2> QED BY <2>1, <2>2
<1> HIDE DEF h
<1>5. h[1] = f[1]
  <2>1. 1 \in 1 .. Len(t) + 1 /\ 1 <= m + 1
    BY <1>1
  <2> QED BY <1>3, <2>1
<1>6. h[Len(t) + 1] = g[L + 1]
  <2>1. Len(t) + 1 \in 1 .. Len(t) + 1 /\ Len(t) + 1 > m /\ (Len(t) + 1) - m + 1 = L + 1
    BY <1>1
  <2>2. \A k \in 1 .. Len(t) + 1 : k > m => h[k] = g[k - m + 1]
    BY <1>3
  <2>3. h[Len(t) + 1] = g[(Len(t) + 1) - m + 1]
    BY <2>1, <2>2
  <2> QED BY <2>1, <2>3
<1>7. ASSUME NEW k \in 1 .. Len(t)
      PROVE  \/ \E j \in 1 .. m : t[k] = new[j] /\ h[k] = f[j] /\ h[k + 1] = f[j + 1]
             \/ \E j \in 2 .. L : t[k] = old[j] /\ h[k] = g[j] /\ h[k + 1] = g[j + 1]
  <2>0. k \in 1 .. Len(t) + 1 /\ k + 1 \in 1 .. Len(t) + 1 /\ k \in Int
    BY <1>1
  <2>1. CASE k <= m /\ k \in 1 .. m /\ t[k] = new[k]
    <3>1. k <= m + 1 /\ k + 1 <= m + 1
      BY <1>1, <2>0, <2>1
    <3>2. h[k] = f[k] /\ h[k + 1] = f[k + 1]
      BY <1>3, <2>0, <3>1
    <3> QED BY <2>1, <3>2
  <2>2. CASE k > m /\ k - m + 1 \in 2 .. L /\ t[k] = old[k - m + 1]
    <3>1. k + 1 > m /\ (k + 1) - m + 1 = (k - m + 1) + 1
      BY <1>1, <2>0, <2>2
    <3>2. h[k] = g[k - m + 1] /\ h[k + 1] = g[(k - m + 1) + 1]
      BY <1>3, <2>0, <2>2, <3>1
    <3> QED BY <2>2, <3>2
  <2> QED BY <1>1, <2>1, <2>2
<1>8. Joined(old, new, t, g, f, h)
  BY <1>5, <1>6, <1>7 DEF Joined, m, L
<1> QED BY <1>4, <1>8

\* A step that puts calls in the place of the entry done: the points of the chain that are
\* new lead from the hash it leaves to where the entry would have led.
LEMMA ChainOnward ==
  ASSUME IInv, todo # <<>>, UNCHANGED tree,
         NEW new \in Seq(Entries), Then(new), NEW g, Chain(g),
         NEW f \in [1 .. Len(new) + 1 -> Points],
         f[1] = At(Len(contexts'), contexts'[Len(contexts')]), f[Len(new) + 1] = g[2],
         \A k \in 1 .. Len(new) : Leads(new[k], f[k], f[k + 1], contexts', listsort_cache'),
         \A j \in 2 .. Len(todo) :
           /\ todo[j].op = "digest" => contexts'[todo[j].ctx - 1] = contexts[todo[j].ctx - 1]
           /\ todo[j].op = "next" =>
                listsort_cache'[todo[j].node] = listsort_cache[todo[j].node]
  PROVE  (\E h : Chain(h))'
<1>1. todo \in Seq(Entries) /\ Len(todo) \in Nat /\ todo' = new \o Tail(todo)
  BY DEF IInv, Then
<1>2. /\ g \in [1 .. Len(todo) + 1 -> Points] /\ g[Len(todo) + 1] = At(1, Expected[1])
      /\ \A k \in 1 .. Len(todo) : Leads(todo[k], g[k], g[k + 1], contexts, listsort_cache)
  BY DEF Chain
<1>3. PICK h \in [1 .. Len(todo') + 1 -> Points] : Joined(todo, new, todo', g, f, h)
  <2>1. todo \in Seq(Entries) /\ todo' = new \o Tail(todo)
    BY <1>1
  <2>2. g \in [1 .. Len(todo) + 1 -> Points]
    BY <1>2
  <2> HIDE DEF Entries, Points, Chain, Leads, Then, Joined
  <2> QED BY <2>1, <2>2, PutInFront
<1>4. ASSUME NEW j \in 2 .. Len(todo)
      PROVE  Leads(todo[j], g[j], g[j + 1], contexts', listsort_cache')
  <2>1. j \in 1 .. Len(todo)
    BY <1>1
  <2>2. Leads(todo[j], g[j], g[j + 1], contexts, listsort_cache)
    BY <1>2, <2>1
  <2>3. After(todo[j], g[j].hash, listsort_cache') = After(todo[j], g[j].hash, listsort_cache)
    BY DEF After
  <2> QED BY <2>2, <2>3 DEF Leads
<1>5. \A k \in 1 .. Len(todo') : Leads(todo'[k], h[k], h[k + 1], contexts', listsort_cache')
  <2> HIDE DEF Leads
  <2> TAKE k \in 1 .. Len(todo')
  <2>1. CASE \E j \in 1 .. Len(new) : todo'[k] = new[j] /\ h[k] = f[j] /\ h[k + 1] = f[j + 1]
    BY <2>1
  <2>2. CASE \E j \in 2 .. Len(todo) : todo'[k] = todo[j] /\ h[k] = g[j] /\ h[k + 1] = g[j + 1]
    BY <1>4, <2>2
  <2> QED BY <1>3, <2>1, <2>2 DEF Joined
<1>6. /\ kind' = kind /\ children' = children /\ Expected' = Expected
  BY SameTree
<1>7. Chain(h)'
  <2>1. /\ h \in [1 .. Len(todo') + 1 -> Points]
        /\ h[1] = At(Len(contexts'), contexts'[Len(contexts')])
        /\ h[Len(todo') + 1] = At(1, Expected[1])
    BY <1>2, <1>3 DEF Joined
  <2>2. \A k \in 1 .. Len(todo') : Leads(todo[k], h[k], h[k + 1], contexts, listsort_cache)'
    BY <1>5, <1>6, ZenonT(40) DEF Leads, After, Child, Named, OnlyNull
  <2> QED BY <1>6, <2>1, <2>2 DEF Chain
<1> QED BY <1>7

\* The new entries are of the kind they should be, and none of them is higher up in the tree.
LEMMA DescentOnward ==
  ASSUME IInv, todo # <<>>, UNCHANGED tree, EntriesOK,
         NEW new \in Seq(Entries), Then(new), NEW r, IsRank(r), Descends(r),
         \A k \in 1 .. Len(new) : EntryOK(new[k]) /\ Level(r, new[k]) >= Level(r, todo[1]),
         \A k, l \in 1 .. Len(new) : k < l => Level(r, new[l]) <= Level(r, new[k])
  PROVE  EntriesOK' /\ (\E s : IsRank(s) /\ Descends(s))'
<1>1. /\ todo \in Seq(Entries) /\ Len(todo) \in Nat /\ Len(todo) >= 1
      /\ todo' = new \o Tail(todo) /\ Len(new) \in Nat
  BY DEF IInv, Then
<1>2. /\ todo' \in Seq(Entries)
      /\ \A k \in 1 .. Len(todo') :
           \/ k <= Len(new) /\ k \in 1 .. Len(new) /\ todo'[k] = new[k]
           \/ /\ k > Len(new) /\ k - Len(new) + 1 \in 2 .. Len(todo)
              /\ todo'[k] = todo[k - Len(new) + 1]
  <2> HIDE DEF Entries
  <2>1. \A x, y : x = y => (y = x)
    OBVIOUS
  <2> QED BY <1>1, Positions
<1>3. ASSUME NEW e \in Entries PROVE Level(r, e) \in Nat
  <2>1. r[e.node] \in Nat
    BY DEF Entries, IsRank
  <2> QED BY <2>1 DEF Level
<1>4. \A k \in 1 .. Len(todo) : EntryOK(todo[k])
  BY DEF EntriesOK
<1>5. \A k, l \in 1 .. Len(todo) : k < l => Level(r, todo[l]) <= Level(r, todo[k])
  BY DEF Descends
<1>6. /\ \A k \in 1 .. Len(todo) : todo[k] \in Entries
      /\ \A k \in 1 .. Len(new) : new[k] \in Entries
  <2> HIDE DEF Entries
  <2> QED BY <1>1
<1> HIDE DEF Level, EntryOK
<1>7. \A k \in 1 .. Len(todo') : EntryOK(todo'[k])
  <2> TAKE k \in 1 .. Len(todo')
  <2>1. ASSUME k > Len(new), k - Len(new) + 1 \in 2 .. Len(todo),
               todo'[k] = todo[k - Len(new) + 1]
        PROVE  EntryOK(todo'[k])
    <3>1. k - Len(new) + 1 \in 1 .. Len(todo)
      BY <1>1, <2>1
    <3> QED BY <1>4, <2>1, <3>1
  <2> QED BY <1>2, <2>1
<1>8. ASSUME NEW k \in 1 .. Len(todo'), NEW l \in 1 .. Len(todo'), k < l
      PROVE  Level(r, todo'[l]) <= Level(r, todo'[k])
  <2> DEFINE m == Len(new)
  <2>0. k \in Int /\ l \in Int /\ m \in Nat
    BY <1>1
  <2>1. CASE k <= m /\ l <= m
    <3>1. k \in 1 .. m /\ l \in 1 .. m /\ todo'[k] = new[k] /\ todo'[l] = new[l]
      BY <1>2, <2>0, <2>1
    <3> QED BY <1>8, <3>1
  <2>2. CASE k <= m /\ l > m
    <3>1. /\ k \in 1 .. m /\ todo'[k] = new[k]
          /\ l - m + 1 \in 2 .. Len(todo) /\ todo'[l] = todo[l - m + 1]
      BY <1>2, <2>0, <2>2
    <3>2. l - m + 1 \in 1 .. Len(todo) /\ 1 \in 1 .. Len(todo) /\ 1 < l - m + 1
      BY <1>1, <3>1
    <3>3. Level(r, todo'[l]) <= Level(r, todo[1]) /\ Level(r, todo'[k]) >= Level(r, todo[1])
      BY <1>5, <3>1, <3>2
    <3>4. /\ Level(r, todo'[l]) \in Nat /\ Level(r, todo'[k]) \in Nat
          /\ Level(r, todo[1]) \in Nat
      BY <1>3, <1>6, <3>1, <3>2
    <3> QED BY <3>3, <3>4
  <2>3. CASE k > m /\ l > m
    <3>0. ~(k <= m) /\ ~(l <= m)
      BY <2>0, <2>3
    <3>1. /\ k - m + 1 \in 2 .. Len(todo) /\ todo'[k] = todo[k - m + 1]
          /\ l - m + 1 \in 2 .. Len(todo) /\ todo'[l] = todo[l - m + 1]
      BY <1>2, <3>0
    <3>2. k - m + 1 \in 1 .. Len(todo) /\ l - m + 1 \in 1 .. Len(todo)
      BY <1>1, <3>1
    <3>3. k - m + 1 < l - m + 1
      BY <1>8, <2>0
    <3>4. Level(r, todo[l - m + 1]) <= Level(r, todo[k - m + 1])
      BY <1>5, <3>2, <3>3
    <3> QED BY <3>1, <3>4
  <2>4. ~(k > m /\ l <= m)
    BY <1>8, <2>0
  <2> QED BY <2>0, <2>1, <2>2, <2>3, <2>4
<1>9. /\ kind' = kind /\ children' = children /\ parent' = parent /\ Depth' = Depth
      /\ Nodes' = Nodes
  BY SameTree
<1>10. EntriesOK'
  BY <1>7, <1>9 DEF EntriesOK, EntryOK, Deep
<1>11. IsRank(r)' /\ Descends(r)'
  BY <1>8, <1>9 DEF IsRank, Descends, Level
<1> QED BY <1>10, <1>11

\* What was covered still is.
LEMMA ItemsOnward ==
  ASSUME IInv, todo # <<>>, UNCHANGED tree, ItemsHashed, NEW new \in Seq(Entries), Then(new),
         \A n \in Nodes : \A i \in DOMAIN children[n] :
           \/ listsort_items[n][i] = Child(n, i)
           \/ todo[1].op \in {"item", "digest"} /\ todo[1].node = n /\ todo[1].i = i
           => Covered(n, i, listsort_items', new, Len(new) + 1),
         \A l \in 1 .. Len(new) : new[l].op = "sort" =>
           \A i \in DOMAIN children[new[l].node] :
             Covered(new[l].node, i, listsort_items', new, l)
  PROVE  ItemsHashed'
<1>1. /\ todo \in Seq(Entries) /\ Len(todo) \in Nat /\ Len(todo) >= 1
      /\ todo' = new \o Tail(todo) /\ Len(new) \in Nat
  BY DEF IInv, Then
<1> DEFINE m == Len(new)
<1>2. /\ Len(todo') = m + (Len(todo) - 1)
      /\ \A k \in 1 .. Len(todo') :
           \/ k <= m /\ k \in 1 .. m /\ todo'[k] = new[k]
           \/ k > m /\ k - m + 1 \in 2 .. Len(todo) /\ todo'[k] = todo[k - m + 1]
  <2> HIDE DEF Entries
  <2> QED BY <1>1, Positions
<1>3. \A k \in 1 .. Len(todo) : todo[k].node \in Nodes
  <2>1. \A k \in 1 .. Len(todo) : todo[k] \in Entries
    <3> HIDE DEF Entries
    <3> QED BY <1>1
  <2> QED BY <2>1 DEF Entries
<1> HIDE DEF m
<1>4. m \in Nat
  BY <1>1 DEF m
\* Entries keep their place, or are put further back.
<1>5. \A k \in 1 .. m : k \in 1 .. Len(todo') /\ todo'[k] = new[k]
  <2> TAKE k \in 1 .. m
  <2>1. k \in 1 .. Len(todo') /\ ~(k > m)
    BY <1>1, <1>2, <1>4
  <2> QED BY <1>2, <2>1
<1>6. ASSUME NEW k \in 2 .. Len(todo)
      PROVE  k + m - 1 \in 1 .. Len(todo') /\ todo'[k + m - 1] = todo[k]
  <2> DEFINE x == k + m - 1
  <2>1. x \in 1 .. Len(todo') /\ x > m /\ ~(x <= m) /\ x - m + 1 = k
    BY <1>1, <1>2, <1>4
  <2> HIDE DEF x
  <2>2. todo'[x] = todo[x - m + 1]
    BY <1>2, <2>1
  <2> QED BY <2>1, <2>2 DEF x
<1>7. ASSUME NEW l \in 1 .. Len(todo'), todo'[l].op = "sort",
             NEW i \in DOMAIN children[todo'[l].node]
      PROVE  Covered(todo'[l].node, i, listsort_items', todo', l)
  <2> DEFINE n == todo'[l].node
  <2>0. l \in Int
    OBVIOUS
  <2>1. CASE l <= m
    <3>1. l \in 1 .. m /\ todo'[l] = new[l]
      BY <1>2, <1>4, <2>0, <2>1
    <3>2. Covered(n, i, listsort_items', new, l)
      BY <1>7, <3>1 DEF m
    <3>3. ASSUME NEW k \in 1 .. l - 1 PROVE new[k] = todo'[k]
      <4>1. k \in 1 .. m
        BY <1>4, <2>0, <2>1
      <4> QED BY <1>5, <4>1
    <3> QED BY <3>2, <3>3 DEF Covered
  <2>2. CASE l > m
    <3> DEFINE j == l - m + 1
    <3>1. j \in 2 .. Len(todo) /\ todo'[l] = todo[j] /\ j \in Int /\ j = l - m + 1
      BY <1>2, <1>4, <2>0, <2>2
    <3> HIDE DEF j
    <3>2. j \in 1 .. Len(todo)
      BY <1>1, <3>1
    <3>3. Covered(n, i, listsort_items, todo, j) /\ n \in Nodes
      BY <1>3, <1>7, <3>1, <3>2 DEF ItemsHashed
    <3>4. ASSUME Covered(n, i, listsort_items', new, m + 1)
          PROVE  Covered(n, i, listsort_items', todo', l)
      <4>1. ASSUME NEW k \in 1 .. (m + 1) - 1
            PROVE  k \in 1 .. l - 1 /\ new[k] = todo'[k]
        <5>1. k \in 1 .. m
          BY <1>4
        <5>2. k \in 1 .. l - 1
          BY <1>4, <2>0, <2>2, <5>1
        <5> QED BY <1>5, <5>1, <5>2
      <4> QED BY <3>4, <4>1 DEF Covered
    <3>5. CASE listsort_items[n][i] = Child(n, i)
      <4>1. Covered(n, i, listsort_items', new, m + 1)
        BY <1>7, <3>3, <3>5 DEF m
      <4> QED BY <3>4, <4>1
    <3>6. CASE \E k \in 1 .. j - 1 :
                 todo[k].op \in {"item", "digest"} /\ todo[k].node = n /\ todo[k].i = i
      <4>1. PICK k \in 1 .. j - 1 :
                 todo[k].op \in {"item", "digest"} /\ todo[k].node = n /\ todo[k].i = i
        BY <3>6
      <4>2. CASE k = 1
        <5>1. Covered(n, i, listsort_items', new, m + 1)
          BY <1>7, <3>3, <4>1, <4>2 DEF m
        <5> QED BY <3>4, <5>1
      <4>3. CASE k # 1
        <5>1. k \in 2 .. Len(todo) /\ k + m - 1 \in 1 .. l - 1
          BY <1>1, <1>4, <2>0, <3>1, <4>3
        <5>2. todo'[k + m - 1] = todo[k]
          BY <1>6, <5>1
        <5> QED BY <4>1, <5>1, <5>2 DEF Covered
      <4> QED BY <4>2, <4>3
    <3> QED BY <3>3, <3>5, <3>6 DEF Covered
  <2> QED BY <1>4, <2>0, <2>1, <2>2
<1>8. kind' = kind /\ children' = children /\ Expected' = Expected
  BY SameTree
<1> QED BY <1>7, <1>8 DEF ItemsHashed, Covered, Child

\* The walk goes on.
LEMMA WalkOn ==
  ASSUME RankedTree, UNCHANGED tree, phase' = "walk", CacheOK', ItemsHashed', EntriesOK',
         (\E g : Chain(g))', (\E r : IsRank(r) /\ Descends(r))'
  PROVE  EInv'
<1>1. RankedTree'
  <2>1. kind' = kind /\ children' = children /\ parent' = parent /\ Nodes' = Nodes
    BY SameTree
  <2> QED BY <2>1 DEF RankedTree, KindsOK, ParentsOK, IsRank
<1> QED BY <1>1 DEF EInv, EWalk

LEMMA CacheKept ==
  ASSUME CacheOK, UNCHANGED <<tree, listsort_items, listsort_cache>>
  PROVE  CacheOK'
<1>1. /\ children' = children /\ Expected' = Expected /\ Nodes' = Nodes
      /\ listsort_items' = listsort_items /\ listsort_cache' = listsort_cache
  BY SameTree
<1>2. \A n : Hashed(n, listsort_items)' = Hashed(n, listsort_items)
  BY <1>1 DEF Hashed, Child
<1>3. \A n : InSortOrder(n, listsort_cache[n])' = InSortOrder(n, listsort_cache[n])
  BY <1>1 DEF InSortOrder, Child
<1> QED BY <1>1, <1>2, <1>3 DEF CacheOK

\* The first entry is of the innermost context.
LEMMA ChainHead ==
  ASSUME IInv, todo # <<>>, NEW g, Chain(g)
  PROVE  /\ todo \in Seq(Entries) /\ Len(todo) \in Nat /\ Len(todo) >= 1
         /\ Head(todo) = todo[1] /\ 1 \in 1 .. Len(todo) /\ Head(todo) \in Entries
         /\ node \in Nodes /\ ctx \in Nat
         /\ ctx = Len(contexts) /\ g[1] = At(ctx, Hash) /\ g[2] \in Points /\ Hash \in Texts
         /\ Head(todo).op # "digest" => g[2] = At(ctx, After(Head(todo), Hash, listsort_cache))
         /\ Head(todo).op = "digest" =>
              Hash = Child(node, Head(todo).i) /\ g[2] = At(ctx - 1, contexts[ctx - 1])
<1>1. /\ todo \in Seq(Entries) /\ Len(todo) \in Nat /\ Len(todo) >= 1
      /\ Head(todo) = todo[1] /\ 1 \in 1 .. Len(todo) /\ Head(todo) \in Entries
  <2>1. todo \in Seq(Entries)
    BY DEF IInv
  <2> HIDE DEF Entries
  <2> QED BY <2>1
<1>2. node \in Nodes /\ ctx \in Nat
  BY <1>1 DEF Entries, node, ctx
<1>3. /\ g[1] = At(Len(contexts), contexts[Len(contexts)])
      /\ g[1] \in Points /\ g[2] \in Points
      /\ Leads(todo[1], g[1], g[2], contexts, listsort_cache)
  BY <1>1 DEF Chain
<1>4. ctx = Len(contexts) /\ g[1] = At(ctx, Hash) /\ Hash \in Texts
  BY <1>1, <1>3 DEF Leads, ctx, Hash, At, Points
<1>5. g[1].ctx = ctx /\ g[1].hash = Hash
  BY <1>4 DEF At
<1>6. /\ Head(todo).op # "digest" => g[2] = At(ctx, After(Head(todo), Hash, listsort_cache))
      /\ Head(todo).op = "digest" =>
           Hash = Child(node, Head(todo).i) /\ g[2] = At(ctx - 1, contexts[ctx - 1])
  <2> HIDE DEF At, After, Child
  <2> QED BY <1>1, <1>3, <1>5 DEF Leads, node
<1> QED BY <1>1, <1>2, <1>3, <1>4, <1>6

\* A step that leaves the lists alone and puts entries of the same context in the place of
\* one that is not about an item: T is the hash before and behind them.
LEMMA SameContext ==
  ASSUME IInv, EInv, phase = "walk", phase' = "walk", todo # <<>>,
         Head(todo).op \notin {"item", "digest"},
         UNCHANGED <<tree, listsort_items, listsort_cache>>,
         NEW new \in Seq(Entries), Then(new),
         Len(contexts') = Len(contexts),
         \A i \in 1 .. Len(contexts) - 1 : contexts'[i] = contexts[i],
         NEW T \in [1 .. Len(new) + 1 -> Texts], T[1] = contexts'[ctx],
         T[Len(new) + 1] = After(Head(todo), Hash, listsort_cache),
         \A k \in 1 .. Len(new) :
           /\ new[k].ctx = ctx /\ new[k].op \notin {"digest", "sort"} /\ EntryOK(new[k])
           /\ T[k + 1] = After(new[k], T[k], listsort_cache),
         \A r : IsRank(r) =>
           /\ \A k \in 1 .. Len(new) : Level(r, new[k]) >= Level(r, todo[1])
           /\ \A k, l \in 1 .. Len(new) : k < l => Level(r, new[l]) <= Level(r, new[k])
  PROVE  EInv'
<1>1. EWalk /\ RankedTree
  BY DEF EInv
<1>2. PICK g : Chain(g)
  BY <1>1 DEF EWalk
<1>3. /\ todo \in Seq(Entries) /\ Len(todo) \in Nat /\ Len(todo) >= 1
      /\ Head(todo) = todo[1] /\ ctx \in Nat /\ ctx = Len(contexts)
      /\ g[2] = At(ctx, After(Head(todo), Hash, listsort_cache)) /\ Len(new) \in Nat
  BY <1>2, ChainHead
<1>4. UNCHANGED tree /\ listsort_items' = listsort_items /\ listsort_cache' = listsort_cache
  OBVIOUS
<1>5. CacheOK'
  BY <1>1, CacheKept DEF EWalk
<1>6. (\E r : IsRank(r) /\ Descends(r))' /\ EntriesOK'
  <2>1. PICK r : IsRank(r) /\ Descends(r)
    BY <1>1 DEF EWalk
  <2>2. EntriesOK
    BY <1>1 DEF EWalk
  <2>3. /\ \A k \in 1 .. Len(new) : EntryOK(new[k]) /\ Level(r, new[k]) >= Level(r, todo[1])
        /\ \A k, l \in 1 .. Len(new) : k < l => Level(r, new[l]) <= Level(r, new[k])
    BY <2>1
  <2> HIDE DEF Entries, EntryOK, Level
  <2> QED BY <1>4, <2>1, <2>2, <2>3, DescentOnward
<1>7. ItemsHashed'
  <2>1. \A n \in Nodes : \A i \in DOMAIN children[n] :
          \/ listsort_items[n][i] = Child(n, i)
          \/ todo[1].op \in {"item", "digest"} /\ todo[1].node = n /\ todo[1].i = i
          => Covered(n, i, listsort_items', new, Len(new) + 1)
    BY <1>3, <1>4 DEF Covered
  <2>2. \A l \in 1 .. Len(new) : new[l].op = "sort" =>
          \A i \in DOMAIN children[new[l].node] :
            Covered(new[l].node, i, listsort_items', new, l)
    OBVIOUS
  <2>3. ItemsHashed
    BY <1>1 DEF EWalk
  <2> HIDE DEF Entries, Covered, Child
  <2> QED BY <1>4, <2>1, <2>2, <2>3, ItemsOnward
<1>8. (\E h : Chain(h))'
  <2> DEFINE f == [k \in 1 .. Len(new) + 1 |-> At(ctx, T[k])]
  <2>1. f \in [1 .. Len(new) + 1 -> Points]
    BY <1>3 DEF Points, At
  <2>2. f[1] = At(Len(contexts'), contexts'[Len(contexts')])
    <3>1. 1 \in 1 .. Len(new) + 1
      BY <1>3
    <3> QED BY <1>3, <3>1
  <2>3. f[Len(new) + 1] = g[2]
    <3>1. Len(new) + 1 \in 1 .. Len(new) + 1
      BY <1>3
    <3> QED BY <1>3, <3>1
  <2>4. \A k \in 1 .. Len(new) : Leads(new[k], f[k], f[k + 1], contexts', listsort_cache')
    <3> TAKE k \in 1 .. Len(new)
    <3>1. k \in 1 .. Len(new) + 1 /\ k + 1 \in 1 .. Len(new) + 1
      BY <1>3
    <3>2. f[k] = At(ctx, T[k]) /\ f[k + 1] = At(ctx, T[k + 1])
      BY <3>1
    <3>3. f[k].ctx = ctx /\ f[k].hash = T[k]
      BY <3>2 DEF At
    <3> HIDE DEF f, After, At
    <3> QED BY <1>4, <3>2, <3>3 DEF Leads
  <2>5. \A j \in 2 .. Len(todo) :
          /\ todo[j].op = "digest" => contexts'[todo[j].ctx - 1] = contexts[todo[j].ctx - 1]
          /\ todo[j].op = "next" =>
               listsort_cache'[todo[j].node] = listsort_cache[todo[j].node]
    <3> TAKE j \in 2 .. Len(todo)
    <3>1. todo[j] \in Entries /\ EntryIn(todo[j], contexts, listsort_items, listsort_cache)
      BY HeadOK
    <3>2. todo[j].ctx \in Nat
      BY <3>1 DEF Entries
    <3>3. ASSUME todo[j].op = "digest" PROVE todo[j].ctx - 1 \in 1 .. Len(contexts) - 1
      BY <1>3, <3>1, <3>2, <3>3, SMTT(30) DEF EntryIn
    <3> QED BY <1>4, <3>3
  <2> HIDE DEF f, Entries, Points, Leads, At
  <2> QED BY <1>2, <1>4, <2>1, <2>2, <2>3, <2>4, <2>5, ChainOnward
<1> QED BY <1>1, <1>4, <1>5, <1>6, <1>7, <1>8, WalkOn

\* Texts behind each other.
LEMMA Concat ==
  /\ \A s \in Texts : s \o <<>> = s /\ <<>> \o s = s
  /\ \A s, t \in Texts : s \o t \in Texts /\ Len(s \o t) = Len(s) + Len(t)
  /\ \A s, t, u \in Texts : (s \o t) \o u = s \o (t \o u)
  /\ \A s \in Texts, x \in Words : /\ Append(s, x) = s \o <<x>> /\ <<x>> \in Texts
                                   /\ Append(s, x) \in Texts /\ Len(<<x>>) = 1
  /\ <<>> \in Texts /\ \A s \in Texts : Len(s) \in Nat /\ (Len(s) = 0 <=> s = <<>>)
<1> HIDE DEF Words
<1>1. ASSUME NEW s \in Texts
      PROVE  /\ s \o <<>> = s /\ <<>> \o s = s /\ Len(s) \in Nat /\ (Len(s) = 0 <=> s = <<>>)
  BY DEF Texts
<1>2. ASSUME NEW s \in Texts, NEW t \in Texts
      PROVE  s \o t \in Texts /\ Len(s \o t) = Len(s) + Len(t)
  BY DEF Texts
<1>3. ASSUME NEW s \in Texts, NEW t \in Texts, NEW u \in Texts
      PROVE  (s \o t) \o u = s \o (t \o u)
  BY DEF Texts
<1>4. ASSUME NEW s \in Texts, NEW x \in Words
      PROVE  /\ Append(s, x) = s \o <<x>> /\ <<x>> \in Texts
             /\ Append(s, x) \in Texts /\ Len(<<x>>) = 1
  BY DEF Texts
<1>5. <<>> \in Texts
  BY DEF Texts
<1> QED BY <1>1, <1>2, <1>3, <1>4, <1>5

LEMMA HeadPoint ==
  ASSUME IInv, EInv, phase = "walk", todo # <<>>
  PROVE  /\ Head(todo) \in Entries /\ Head(todo) = todo[1] /\ EntryOK(todo[1])
         /\ EntryIn(Head(todo), contexts, listsort_items, listsort_cache)
         /\ node \in Nodes /\ ctx \in Nat /\ ctx = Len(contexts) /\ ctx >= 1 /\ Hash \in Texts
         /\ Head(todo).op # "digest" => After(Head(todo), Hash, listsort_cache) \in Texts
         /\ TreeOK /\ RankedTree /\ ListsOK
         /\ Expected \in [Nodes -> Texts]
         /\ \A n \in Nodes : Expected[n] = ExpectedOf(n, Items(n))
         /\ Head(todo) = [op |-> Head(todo).op, node |-> node, i |-> Head(todo).i,
                          ctx |-> ctx, prev |-> Head(todo).prev]
<1>1. EWalk /\ RankedTree /\ TreeOK /\ Len(contexts) >= 1 /\ ListsOK
  BY DEF EInv, IInv
<1>2. PICK g : Chain(g)
  BY <1>1 DEF EWalk
<1>3. /\ Head(todo) \in Entries /\ Head(todo) = todo[1] /\ 1 \in 1 .. Len(todo)
      /\ node \in Nodes /\ ctx \in Nat /\ ctx = Len(contexts) /\ Hash \in Texts
      /\ g[2] \in Points
      /\ Head(todo).op # "digest" => g[2] = At(ctx, After(Head(todo), Hash, listsort_cache))
  BY <1>2, ChainHead
<1>4. Head(todo).op # "digest" => After(Head(todo), Hash, listsort_cache) \in Texts
  <2> HIDE DEF After
  <2> QED BY <1>3 DEF Points, At
<1>5. EntryOK(todo[1])
  BY <1>1, <1>3 DEF EWalk, EntriesOK
<1>6. EntryIn(Head(todo), contexts, listsort_items, listsort_cache)
  BY HeadOK
<1>7. Head(todo) = [op |-> Head(todo).op, node |-> node, i |-> Head(todo).i,
                          ctx |-> ctx, prev |-> Head(todo).prev]
  BY <1>3 DEF Entries, node, ctx
<1> HIDE DEF Entries, After, ExpectedOf, EntryOK, EntryIn
<1> QED BY <1>1, <1>3, <1>4, <1>5, <1>6, <1>7, ExpectedIs

\* A new hash for the innermost context.
LEMMA NewHash ==
  ASSUME IInv, NEW h, SetHash(h), ctx = Len(contexts), ctx \in Nat, ctx >= 1
  PROVE  /\ Len(contexts') = Len(contexts) /\ contexts'[ctx] = h
         /\ \A i \in 1 .. Len(contexts) - 1 : contexts'[i] = contexts[i]
<1>1. contexts \in Seq(Strings) /\ contexts' = [contexts EXCEPT ![ctx] = h]
  BY DEF IInv, SetHash
<1>2. DOMAIN contexts = 1 .. Len(contexts)
  BY <1>1
<1> HIDE DEF Strings
<1> QED BY <1>1, <1>2

\* An entry that calls nothing.
LEMMA CallNothing ==
  ASSUME IInv, EInv, phase = "walk", phase' = "walk", todo # <<>>,
         Head(todo).op \notin {"item", "digest"},
         UNCHANGED <<tree, listsort_items, listsort_cache>>, Then(<<>>),
         Len(contexts') = Len(contexts),
         \A i \in 1 .. Len(contexts) - 1 : contexts'[i] = contexts[i],
         contexts'[ctx] = After(Head(todo), Hash, listsort_cache)
  PROVE  EInv'
<1> DEFINE x == contexts'[ctx]
<1>1. x \in Texts
  BY HeadPoint
<1> HIDE DEF x
<1> DEFINE T == [k \in 1 .. 1 |-> x]
<1>2. <<>> \in Seq(Entries) /\ Len(<<>>) = 0 /\ \A k : ~(k \in 1 .. 0)
  OBVIOUS
<1>3. T \in [1 .. 0 + 1 -> Texts] /\ T[1] = contexts'[ctx] /\ T[0 + 1] = contexts'[ctx]
  BY <1>1 DEF x
<1> DEFINE new == <<>>
<1>4. /\ new \in Seq(Entries) /\ Len(new) = 0 /\ Then(new)
      /\ T \in [1 .. Len(new) + 1 -> Texts] /\ T[1] = contexts'[ctx]
      /\ T[Len(new) + 1] = After(Head(todo), Hash, listsort_cache)
  BY <1>2, <1>3
<1> HIDE DEF new, T, Entries, After, Then
<1>5. \A k : ~(k \in 1 .. Len(new))
  BY <1>2, <1>4
<1> QED BY <1>4, <1>5, SameContext

\* Nodes that are ignored leave no trace.
LEMMA NothingEInv == IInv /\ EInv /\ FingerprintNothing => EInv'
<1> SUFFICES ASSUME IInv, EInv, FingerprintNothing PROVE EInv'
  OBVIOUS
<1>1. /\ phase = "walk" /\ phase' = "walk" /\ todo # <<>> /\ Then(<<>>) /\ contexts' = contexts
      /\ UNCHANGED <<tree, listsort_items, listsort_cache>> /\ Head(todo).op = "node" /\ Ignored
  BY DEF FingerprintNothing, Visit, Does
<1>2. /\ node \in Nodes /\ ctx = Len(contexts) /\ Hash \in Texts
      /\ \A n \in Nodes : Expected[n] = ExpectedOf(n, Items(n))
  BY <1>1, HeadPoint
<1>3. Expected[node] = <<>>
  BY <1>1, <1>2 DEF Ignored, ExpectedOf
<1>4. After(Head(todo), Hash, listsort_cache) = contexts'[ctx]
  <2>1. After(Head(todo), Hash, listsort_cache) = Hash \o Expected[node]
    BY <1>1 DEF After, node
  <2> QED BY <1>1, <1>2, <1>3, <2>1, Concat DEF Hash
<1> HIDE DEF After, Then
<1> QED BY <1>1, <1>4, CallNothing

\* A value is hashed as such.
LEMMA ValueEInv == IInv /\ EInv /\ FingerprintValue => EInv'
<1> SUFFICES ASSUME IInv, EInv, FingerprintValue PROVE EInv'
  OBVIOUS
<1>1. /\ phase = "walk" /\ phase' = "walk" /\ todo # <<>> /\ Then(<<>>)
      /\ SetHash(Append(Hash, kind[node])) /\ kind[node] \in {"a", "b"}
      /\ UNCHANGED <<tree, listsort_items, listsort_cache>> /\ Head(todo).op = "node" /\ ~Ignored
  BY DEF FingerprintValue, Visit, Does, FingerprintString
<1>2. /\ node \in Nodes /\ ctx = Len(contexts) /\ Hash \in Texts /\ ctx \in Nat /\ ctx >= 1
      /\ \A n \in Nodes : Expected[n] = ExpectedOf(n, Items(n))
  BY <1>1, HeadPoint
<1>3. Expected[node] = <<kind[node]>>
  BY <1>1, <1>2 DEF Ignored, ExpectedOf
<1>4. kind[node] \in Words
  BY <1>1 DEF Words, Kinds
<1>5. After(Head(todo), Hash, listsort_cache) = Append(Hash, kind[node])
  <2>1. After(Head(todo), Hash, listsort_cache) = Hash \o Expected[node]
    BY <1>1 DEF After, node
  <2>2. Append(Hash, kind[node]) = Hash \o <<kind[node]>>
    <3> HIDE DEF Texts, Words
    <3> QED BY <1>2, <1>4, Concat
  <2> QED BY <1>3, <2>1, <2>2
<1>6. /\ Len(contexts') = Len(contexts) /\ contexts'[ctx] = Append(Hash, kind[node])
      /\ \A i \in 1 .. Len(contexts) - 1 : contexts'[i] = contexts[i]
  BY <1>1, <1>2, NewHash
<1> HIDE DEF After, Then
<1> QED BY <1>1, <1>5, <1>6, CallNothing

\* The end of a field.
LEMMA EndedEInv == IInv /\ EInv /\ (FieldKept \/ FieldTakenBack) => EInv'
<1> SUFFICES ASSUME IInv, EInv, FieldKept \/ FieldTakenBack PROVE EInv'
  OBVIOUS
<1>1. /\ phase = "walk" /\ phase' = "walk" /\ todo # <<>> /\ Then(<<>>)
      /\ UNCHANGED <<tree, listsort_items, listsort_cache>> /\ Head(todo).op = "ended"
  BY DEF FieldKept, FieldTakenBack, Does
<1>2. ctx = Len(contexts) /\ ctx \in Nat /\ ctx >= 1
  BY <1>1, HeadPoint
<1>3. After(Head(todo), Hash, listsort_cache) = IF Empty THEN Head(todo).prev ELSE Hash
  BY <1>1 DEF After, Empty, node
<1>4. /\ Len(contexts') = Len(contexts)
      /\ contexts'[ctx] = After(Head(todo), Hash, listsort_cache)
      /\ \A i \in 1 .. Len(contexts) - 1 : contexts'[i] = contexts[i]
  <2> HIDE DEF After, Empty
  <2>1. CASE FieldKept
    <3>1. ~Empty /\ contexts' = contexts
      BY <2>1 DEF FieldKept
    <3> QED BY <1>3, <3>1 DEF Hash
  <2>2. CASE FieldTakenBack
    <3>1. Empty /\ SetHash(Head(todo).prev)
      BY <2>2 DEF FieldTakenBack
    <3> QED BY <1>2, <1>3, <3>1, NewHash
  <2> QED BY <2>1, <2>2
<1> HIDE DEF After, Then
<1> QED BY <1>1, <1>4, CallNothing

\* Each child is called, for a node or a field: s are the texts that they add.
LEMMA CallEach ==
  ASSUME IInv, EInv, phase = "walk", phase' = "walk", todo # <<>>, Head(todo).op = "node",
         UNCHANGED <<tree, listsort_items, listsort_cache>>,
         NEW op \in {"node", "field"}, Then(Calls(op, children[node])),
         Len(contexts') = Len(contexts),
         \A i \in 1 .. Len(contexts) - 1 : contexts'[i] = contexts[i],
         op = "field" => \A i \in DOMAIN children[node] : kind[children[node][i]] # "null",
         NEW s \in Seq(Texts), Len(s) = Len(children[node]),
         \A i \in 1 .. Len(s) : s[i] = IF op = "node" THEN Child(node, i)
                                       ELSE Named(children[node][i], Child(node, i)),
         contexts'[ctx] \in Texts,
         contexts'[ctx] \o FlattenSeq(s) = Hash \o Expected[node]
  PROVE  EInv'
<1>1. /\ node \in Nodes /\ ctx \in Nat /\ TreeOK /\ Head(todo) = todo[1]
      /\ ctx >= 1
  BY HeadPoint
<1>2. children[node] \in Seq(Nodes)
  BY <1>1, ChildrenType
<1> DEFINE m == Len(children[node])
<1> DEFINE new == Calls(op, children[node])
<1> DEFINE x == contexts'[ctx]
<1>3. m \in Nat /\ Len(s) = m
  BY <1>2
<1>4. new = [i \in 1 .. m |-> Call(op, children[node][i], 0, ctx)]
  BY DEF Calls
<1>5. ASSUME NEW i \in 1 .. m
      PROVE  /\ children[node][i] \in Nodes /\ i \in DOMAIN children[node]
             /\ Call(op, children[node][i], 0, ctx) \in Entries
  <2>1. children[node][i] \in Nodes /\ i \in DOMAIN children[node]
    BY <1>2
  <2>2. <<>> \in Strings
    BY DEF Strings
  <2> QED BY <1>1, <2>1, <2>2 DEF Call, Entries
<1>6. /\ new \in Seq(Entries) /\ Len(new) = m
      /\ \A k \in 1 .. m : new[k] = Call(op, children[node][k], 0, ctx)
  <2> HIDE DEF Entries, Call
  <2> QED BY <1>3, <1>4, <1>5
<1>7. PICK F : Sums(Words, s, Len(s), F) /\ F[Len(s)] = FlattenSeq(s)
  <2>1. s \in Seq(Seq(Words))
    BY DEF Texts
  <2> QED BY <2>1, Flattened
<1>8. /\ F \in [0 .. m -> Texts] /\ F[0] = <<>> /\ F[m] = FlattenSeq(s)
      /\ \A i \in 1 .. m : F[i] = F[i - 1] \o s[i]
  BY <1>3, <1>7 DEF Sums, Texts
<1> DEFINE T == [k \in 1 .. m + 1 |-> x \o F[k - 1]]
<1>9. x \in Texts
  OBVIOUS
<1> HIDE DEF x, m
<1>10. \A k \in 1 .. m + 1 : k - 1 \in 0 .. m /\ x \o F[k - 1] \in Texts
  <2> TAKE k \in 1 .. m + 1
  <2>1. k - 1 \in 0 .. m
    BY <1>3
  <2>2. F[k - 1] \in Texts
    BY <1>8, <2>1
  <2> HIDE DEF Texts
  <2> QED BY <1>9, <2>1, <2>2, Concat
<1>11. T \in [1 .. m + 1 -> Texts]
  BY <1>10
<1>12. T[1] = x
  <2>1. T[1] = x \o F[0]
    <3>1. 1 \in 1 .. m + 1 /\ 1 - 1 = 0
      BY <1>3
    <3> QED BY <3>1
  <2> QED BY <1>8, <1>9, <2>1, Concat
<1>13. T[m + 1] = After(Head(todo), Hash, listsort_cache)
  <2>1. T[m + 1] = x \o F[m]
    <3>1. m + 1 \in 1 .. m + 1 /\ (m + 1) - 1 = m
      BY <1>3
    <3> QED BY <3>1
  <2>2. After(Head(todo), Hash, listsort_cache) = Hash \o Expected[node]
    BY DEF After, node
  <2> QED BY <1>8, <2>1, <2>2 DEF x
<1>14. ASSUME NEW k \in 1 .. m
       PROVE  T[k + 1] = After(new[k], T[k], listsort_cache)
  <2>1. k \in 1 .. m + 1 /\ k + 1 \in 1 .. m + 1 /\ (k + 1) - 1 = k /\ k \in 0 .. m
        /\ k - 1 \in 0 .. m
    BY <1>3
  <2>2. T[k] = x \o F[k - 1] /\ T[k + 1] = x \o F[k]
    BY <2>1
  <2>3. F[k] = F[k - 1] \o s[k] /\ F[k - 1] \in Texts
    BY <1>8, <2>1
  <2>4. T[k + 1] = T[k] \o s[k]
    <3>1. s[k] \in Texts
      <4> HIDE DEF Texts
      <4> QED BY <1>3
    <3> HIDE DEF Texts, T
    <3>2. (x \o F[k - 1]) \o s[k] = x \o (F[k - 1] \o s[k])
      BY <1>9, <2>3, <3>1, Concat, ZenonT(40)
    <3> QED BY <2>2, <2>3, <3>2
  <2> HIDE DEF T, new
  <2>5. After(new[k], T[k], listsort_cache) = T[k] \o s[k]
    <3>1. new[k].op = op /\ new[k].node = children[node][k]
      BY <1>6 DEF Call
    <3>2. s[k] = IF op = "node" THEN Child(node, k) ELSE Named(children[node][k], Child(node, k))
      BY <1>3
    <3>3. CASE op = "node"
      BY <3>1, <3>2, <3>3 DEF After, Child
    <3>4. CASE op = "field"
      BY <3>1, <3>2, <3>4 DEF After, Child
    <3> QED BY <3>3, <3>4
  <2> QED BY <2>4, <2>5
<1>15. ASSUME NEW k \in 1 .. m
       PROVE  new[k].ctx = ctx /\ new[k].op \notin {"digest", "sort"} /\ EntryOK(new[k])
  <2>1. new[k].op = op /\ new[k].node = children[node][k] /\ new[k].ctx = ctx
    <3> HIDE DEF new
    <3> QED BY <1>6 DEF Call
  <2>2. op = "field" => kind[children[node][k]] # "null"
    BY <1>5
  <2> HIDE DEF new
  <2> QED BY <2>1, <2>2 DEF EntryOK, OfList, InItem
<1>16. ASSUME NEW r, IsRank(r)
       PROVE  /\ \A k \in 1 .. m : Level(r, new[k]) >= Level(r, todo[1])
              /\ \A k, l \in 1 .. m : k < l => Level(r, new[l]) <= Level(r, new[k])
  <2>1. r[node] \in Nat /\ \A k \in 1 .. m : r[children[node][k]] = r[node] + 1
    BY <1>1, <1>5, <1>16 DEF IsRank
  <2>2. Level(r, todo[1]) = r[node]
    BY <1>1, <2>1, SMTT(30) DEF Level, InItem, node
  <2>3. \A k \in 1 .. m : Level(r, new[k]) = r[node] + 1
    <3> TAKE k \in 1 .. m
    <3> HIDE DEF new
    <3>1. new[k].op = op /\ new[k].node = children[node][k]
      BY <1>6 DEF Call
    <3> QED BY <2>1, <3>1, SMTT(30) DEF Level, InItem
  <2> HIDE DEF new
  <2> QED BY <2>1, <2>2, <2>3
<1> HIDE DEF new, T, Entries, After, EntryOK, Level, Then
<1>17. /\ Then(new) /\ T \in [1 .. Len(new) + 1 -> Texts] /\ T[1] = contexts'[ctx]
       /\ T[Len(new) + 1] = After(Head(todo), Hash, listsort_cache)
       /\ Head(todo).op \notin {"item", "digest"}
  BY <1>6, <1>11, <1>12, <1>13 DEF new, x
<1>18. \A k \in 1 .. Len(new) :
         /\ new[k].ctx = ctx /\ new[k].op \notin {"digest", "sort"} /\ EntryOK(new[k])
         /\ T[k + 1] = After(new[k], T[k], listsort_cache)
  BY <1>6, <1>14, <1>15
<1>19. \A r : IsRank(r) =>
         /\ \A k \in 1 .. Len(new) : Level(r, new[k]) >= Level(r, todo[1])
         /\ \A k, l \in 1 .. Len(new) : k < l => Level(r, new[l]) <= Level(r, new[k])
  BY <1>6, <1>16
<1> QED BY <1>6, <1>17, <1>18, <1>19, SameContext

\* The fields of a node.
LEMMA StructEInv == IInv /\ EInv /\ FingerprintStruct => EInv'
<1> SUFFICES ASSUME IInv, EInv, FingerprintStruct PROVE EInv'
  OBVIOUS
<1>1. /\ phase = "walk" /\ phase' = "walk" /\ todo # <<>>
      /\ Then(Calls("field", children[node]))
      /\ SetHash(Append(Hash, kind[node])) /\ kind[node] \in {"struct", "again"}
      /\ UNCHANGED <<tree, listsort_items, listsort_cache>> /\ Head(todo).op = "node" /\ ~Ignored
  BY DEF FingerprintStruct, Visit, Does, FingerprintString
<1>2. /\ node \in Nodes /\ ctx = Len(contexts) /\ Hash \in Texts /\ ctx \in Nat /\ ctx >= 1
      /\ TreeOK /\ RankedTree /\ Expected \in [Nodes -> Texts]
      /\ \A n \in Nodes : Expected[n] = ExpectedOf(n, Items(n))
  BY <1>1, HeadPoint
<1>3. children[node] \in Seq(Nodes) /\ \A n \in Nodes : kind[n] \in Kinds
  BY <1>2, ChildrenType
<1> DEFINE m == Len(children[node])
<1> DEFINE s == [i \in 1 .. m |-> Named(children[node][i], Child(node, i))]
<1>4. m \in Nat /\ DOMAIN children[node] = 1 .. m
  BY <1>3
<1>5. \A i \in DOMAIN children[node] : kind[children[node][i]] # "null"
  BY <1>1, <1>2 DEF RankedTree, KindsOK
<1>6. s \in Seq(Texts) /\ Len(s) = m
  <2>1. ASSUME NEW i \in 1 .. m PROVE Named(children[node][i], Child(node, i)) \in Texts
    <3>1. children[node][i] \in Nodes
      BY <1>3
    <3>2. kind[children[node][i]] \in Words
      BY <1>3, <1>4, <1>5, <3>1 DEF Words
    <3>3. Child(node, i) \in Texts
      BY <1>2, <3>1 DEF Child
    <3> QED BY <3>1, <3>2, <3>3, NamedType
  <2> HIDE DEF Texts, m
  <2> QED BY <1>4, <2>1
<1>7. Expected[node] = <<kind[node]>> \o FlattenSeq(s)
  <2>1. Items(node) = [i \in 1 .. m |-> Child(node, i)]
    BY <1>4 DEF Items, Child
  <2>2. s = [i \in DOMAIN Items(node) |-> Named(children[node][i], Items(node)[i])]
    <3> DEFINE it == Items(node)
    <3>1. DOMAIN it = 1 .. m /\ \A i \in 1 .. m : it[i] = Child(node, i)
      BY <2>1
    <3> HIDE DEF it, m
    <3> QED BY <3>1 DEF it
  <2>3. Expected[node] = ExpectedOf(node, Items(node))
    BY <1>2
  <2> HIDE DEF s
  <2> QED BY <1>1, <2>2, <2>3 DEF ExpectedOf, Ignored
<1>8. kind[node] \in Words
  BY <1>1 DEF Words, Kinds
<1>9. FlattenSeq(s) \in Texts
  BY <1>6, FlattenType
<1>10. /\ Len(contexts') = Len(contexts) /\ contexts'[ctx] = Append(Hash, kind[node])
       /\ \A i \in 1 .. Len(contexts) - 1 : contexts'[i] = contexts[i]
  BY <1>1, <1>2, NewHash
<1>11. contexts'[ctx] \in Texts /\ contexts'[ctx] \o FlattenSeq(s) = Hash \o Expected[node]
  <2> DEFINE F == FlattenSeq(s)
  <2> HIDE DEF F, Texts, Words
  <2>1. /\ Append(Hash, kind[node]) = Hash \o <<kind[node]>> /\ <<kind[node]>> \in Texts
        /\ Append(Hash, kind[node]) \in Texts
    BY <1>2, <1>8, Concat
  <2>2. F \in Texts
    BY <1>9 DEF F
  <2>3. (Hash \o <<kind[node]>>) \o F = Hash \o (<<kind[node]>> \o F)
    BY <1>2, <2>1, <2>2, Concat, SMTT(30)
  <2> QED BY <1>7, <1>10, <2>1, <2>3 DEF F
<1>12. \A i \in 1 .. Len(s) : s[i] = Named(children[node][i], Child(node, i))
  BY <1>6
<1> DEFINE op == "field"
<1>13. /\ op \in {"node", "field"} /\ op # "node" /\ Then(Calls(op, children[node]))
       /\ op = "field" => \A i \in DOMAIN children[node] : kind[children[node][i]] # "null"
  BY <1>1, <1>5
<1>14. \A i \in 1 .. Len(s) : s[i] = IF op = "node" THEN Child(node, i)
                                     ELSE Named(children[node][i], Child(node, i))
  <2> HIDE DEF s
  <2> QED BY <1>12, <1>13
<1>15. Len(s) = Len(children[node])
  BY <1>6
<1> HIDE DEF op, s, Then, Calls, Child, Named
<1> QED BY <1>1, <1>6, <1>10, <1>11, <1>13, <1>14, <1>15, CallEach

\* The items of a list that is not sorted.
LEMMA PlainListEInv == IInv /\ EInv /\ FingerprintPlainList => EInv'
<1> SUFFICES ASSUME IInv, EInv, FingerprintPlainList PROVE EInv'
  OBVIOUS
<1>1. /\ phase = "walk" /\ phase' = "walk" /\ todo # <<>> /\ contexts' = contexts
      /\ Then(Calls("node", children[node])) /\ kind[node] = "plain"
      /\ UNCHANGED <<tree, listsort_items, listsort_cache>> /\ Head(todo).op = "node" /\ ~Ignored
  BY DEF FingerprintPlainList, Visit, Does
<1>2. /\ node \in Nodes /\ ctx = Len(contexts) /\ Hash \in Texts /\ ctx \in Nat /\ ctx >= 1
      /\ TreeOK /\ Expected \in [Nodes -> Texts]
      /\ \A n \in Nodes : Expected[n] = ExpectedOf(n, Items(n))
  BY <1>1, HeadPoint
<1>3. children[node] \in Seq(Nodes)
  BY <1>2, ChildrenType
<1> DEFINE m == Len(children[node])
<1> DEFINE s == Items(node)
<1>4. m \in Nat /\ DOMAIN children[node] = 1 .. m
  BY <1>3
<1>5. s = [i \in 1 .. m |-> Child(node, i)]
  BY <1>4 DEF Items, Child
<1>6. \A i \in 1 .. m : Child(node, i) \in Texts
  BY <1>2, <1>3 DEF Child
<1>7. s \in Seq(Texts) /\ Len(s) = m /\ \A i \in 1 .. Len(s) : s[i] = Child(node, i)
  <2> HIDE DEF Texts, m, s
  <2> QED BY <1>4, <1>5, <1>6
<1>8. Expected[node] = FlattenSeq(s)
  <2>1. Expected[node] = ExpectedOf(node, s)
    BY <1>2
  <2> HIDE DEF s
  <2> QED BY <1>1, <2>1 DEF ExpectedOf, Ignored
<1>9. /\ contexts'[ctx] \in Texts /\ contexts'[ctx] \o FlattenSeq(s) = Hash \o Expected[node]
      /\ Len(contexts') = Len(contexts)
      /\ \A i \in 1 .. Len(contexts) - 1 : contexts'[i] = contexts[i]
  BY <1>1, <1>2, <1>8 DEF Hash
<1> DEFINE op == "node"
<1>10. /\ op \in {"node", "field"} /\ op # "field" /\ Then(Calls(op, children[node]))
  BY <1>1
<1>11. \A i \in 1 .. Len(s) : s[i] = IF op = "node" THEN Child(node, i)
                                     ELSE Named(children[node][i], Child(node, i))
  <2> HIDE DEF s
  <2> QED BY <1>7
<1>12. Len(s) = Len(children[node])
  BY <1>7
<1>13. op = "field" => \A i \in DOMAIN children[node] : kind[children[node][i]] # "null"
  BY <1>10
<1> HIDE DEF op, s, Then, Calls, Child, Named
<1> QED BY <1>1, <1>7, <1>9, <1>10, <1>11, <1>12, <1>13, CallEach

\* A field is its name and what it holds, or nothing.
LEMMA FieldEInv == IInv /\ EInv /\ Field => EInv'
<1> SUFFICES ASSUME IInv, EInv, Field PROVE EInv'
  OBVIOUS
<1> DEFINE e1 == Call("node", node, 0, ctx)
<1> DEFINE e2 == [Call("ended", node, 0, ctx) EXCEPT !.prev = Hash]
<1> DEFINE new == <<e1, e2>>
<1>1. /\ phase = "walk" /\ phase' = "walk" /\ todo # <<>> /\ Then(new)
      /\ SetHash(Append(Hash, kind[node]))
      /\ UNCHANGED <<tree, listsort_items, listsort_cache>> /\ Head(todo).op = "field"
  BY DEF Field, Does, FingerprintString
<1>2. /\ node \in Nodes /\ ctx = Len(contexts) /\ Hash \in Texts /\ ctx \in Nat /\ ctx >= 1
      /\ TreeOK /\ RankedTree /\ Expected \in [Nodes -> Texts]
      /\ Head(todo) = todo[1] /\ EntryOK(todo[1])
      /\ After(Head(todo), Hash, listsort_cache) \in Texts
  BY <1>1, HeadPoint
<1>3. kind[node] \in Words
  BY <1>1, <1>2, ChildrenType DEF EntryOK, Words, node
<1>4. /\ Len(contexts') = Len(contexts) /\ contexts'[ctx] = Append(Hash, kind[node])
      /\ \A i \in 1 .. Len(contexts) - 1 : contexts'[i] = contexts[i]
  BY <1>1, <1>2, NewHash
<1>5. Hash \in Strings
  BY <1>2 DEF Texts, Strings, Words
<1>6. e1 \in Entries /\ e2 \in Entries
  <2>1. <<>> \in Strings
    BY DEF Strings
  <2> QED BY <1>2, <1>5, <2>1 DEF Call, Entries
<1>7. /\ e1.op = "node" /\ e1.node = node /\ e1.ctx = ctx
      /\ e2.op = "ended" /\ e2.node = node /\ e2.ctx = ctx /\ e2.prev = Hash
  BY DEF Call
<1> DEFINE E == Expected[node]
<1> DEFINE w == <<kind[node]>>
<1> DEFINE x == Append(Hash, kind[node])
<1> DEFINE y == x \o E
<1> DEFINE z == After(Head(todo), Hash, listsort_cache)
<1>8. z = Hash \o Named(node, E)
  BY <1>1 DEF After, node
<1>9. E \in Texts
  BY <1>2
<1>10. /\ x = Hash \o w /\ w \in Texts /\ x \in Texts /\ Len(w) = 1 /\ y \in Texts
       /\ y = Hash \o (w \o E) /\ Len(x) = Len(Hash) + 1 /\ Len(y) = Len(x) + Len(E)
       /\ Hash \o <<>> = Hash /\ Len(E) \in Nat /\ (Len(E) = 0 <=> E = <<>>) /\ Len(Hash) \in Nat
  <2> HIDE DEF Texts, Words, E
  <2>1. /\ x = Hash \o w /\ w \in Texts /\ x \in Texts /\ Len(w) = 1
    BY <1>2, <1>3, Concat
  <2>2. y \in Texts /\ Len(y) = Len(x) + Len(E) /\ Len(x) = Len(Hash) + 1
    BY <1>2, <1>9, <2>1, Concat
  <2>3. (Hash \o w) \o E = Hash \o (w \o E)
    BY <1>2, <1>9, <2>1, Concat, SMTT(30)
  <2>4. y = (Hash \o w) \o E
    BY <2>1
  <2>5. /\ Hash \o <<>> = Hash /\ Len(E) \in Nat /\ (Len(E) = 0 <=> E = <<>>)
        /\ Len(Hash) \in Nat
    BY <1>2, <1>9, Concat
  <2> QED BY <2>1, <2>2, <2>3, <2>4, <2>5
<1>11. z = IF Len(y) = Len(Hash) + 1 /\ ~OnlyNull(node) THEN Hash ELSE y
  <2> HIDE DEF x, y, z, E, w
  <2>1. Len(y) = Len(Hash) + 1 <=> E = <<>>
    BY <1>10
  <2>2. Named(node, E) = IF E = <<>> /\ ~OnlyNull(node) THEN <<>> ELSE w \o E
    BY DEF Named, w
  <2> HIDE DEF Named
  <2> QED BY <1>8, <1>10, <2>1, <2>2
<1> DEFINE T == [k \in 1 .. 3 |-> IF k = 1 THEN x ELSE IF k = 2 THEN y ELSE z]
<1>12. T \in [1 .. 3 -> Texts] /\ T[1] = x /\ T[2] = y /\ T[3] = z
  BY <1>2, <1>10
<1> HIDE DEF x, y, z, E, T, e1, e2
<1>13. After(e1, x, listsort_cache) = y
  BY <1>7 DEF After, y, E
<1>14. After(e2, y, listsort_cache) = z
  BY <1>7, <1>11 DEF After
<1>15. new \in Seq(Entries) /\ Len(new) = 2 /\ new[1] = e1 /\ new[2] = e2
  <2> HIDE DEF Entries
  <2> QED BY <1>6
<1> HIDE DEF new
<1>16. \A k \in 1 .. Len(new) : k = 1 \/ k = 2
  BY <1>15
<1>17. \A k \in 1 .. Len(new) :
         /\ new[k].ctx = ctx /\ new[k].op \notin {"digest", "sort"} /\ EntryOK(new[k])
         /\ T[k + 1] = After(new[k], T[k], listsort_cache)
  <2>1. EntryOK(e1) /\ EntryOK(e2)
    BY <1>7 DEF EntryOK, OfList, InItem
  <2>2. T[1 + 1] = After(e1, T[1], listsort_cache) /\ T[2 + 1] = After(e2, T[2], listsort_cache)
    BY <1>12, <1>13, <1>14
  <2> HIDE DEF After, EntryOK
  <2> QED BY <1>7, <1>15, <1>16, <2>1, <2>2
<1>18. \A r : IsRank(r) =>
         /\ \A k \in 1 .. Len(new) : Level(r, new[k]) >= Level(r, todo[1])
         /\ \A k, l \in 1 .. Len(new) : k < l => Level(r, new[l]) <= Level(r, new[k])
  <2> TAKE r
  <2> HAVE IsRank(r)
  <2>1. r[node] \in Nat
    BY <1>2 DEF IsRank
  <2>2. /\ Level(r, e1) = r[node] /\ Level(r, e2) = r[node] /\ Level(r, todo[1]) = r[node]
    BY <1>1, <1>2, <1>7, <2>1 DEF Level, InItem, node
  <2>3. \A k \in 1 .. Len(new) : Level(r, new[k]) = r[node]
    <3> HIDE DEF Level
    <3> QED BY <1>15, <1>16, <2>2
  <2> HIDE DEF Level
  <2> QED BY <2>1, <2>2, <2>3
<1>19. /\ T \in [1 .. Len(new) + 1 -> Texts] /\ T[1] = contexts'[ctx]
       /\ T[Len(new) + 1] = After(Head(todo), Hash, listsort_cache)
       /\ Head(todo).op \notin {"item", "digest"}
  <2>1. Len(new) + 1 = 3
    BY <1>15
  <2> HIDE DEF After
  <2> QED BY <1>1, <1>4, <1>12, <2>1 DEF x, z
<1> HIDE DEF Entries, After, EntryOK, Level, Then
<1> QED BY <1>1, <1>4, <1>15, <1>17, <1>18, <1>19, SameContext

\* An item of a sorted list adds its text, unless it repeats the one before it.
LEMMA NextItemEInv == IInv /\ EInv /\ NextItem => EInv'
<1> SUFFICES ASSUME IInv, EInv, NextItem PROVE EInv'
  OBVIOUS
<1> DEFINE i == Head(todo).i
<1> DEFINE order == listsort_cache[node]
<1> DEFINE n == children[node][order[i]]
<1>1. /\ phase = "walk" /\ phase' = "walk" /\ todo # <<>> /\ contexts' = contexts
      /\ UNCHANGED <<tree, listsort_items, listsort_cache>> /\ Head(todo).op = "next"
      /\ IF Repeats(node, i) THEN Then(<<>>) ELSE Then(<<Call("node", n, 0, ctx)>>)
  BY DEF NextItem, Does
<1>2. /\ node \in Nodes /\ ctx = Len(contexts) /\ Hash \in Texts /\ ctx \in Nat /\ ctx >= 1
      /\ TreeOK /\ RankedTree /\ ListsOK
      /\ Head(todo) = todo[1] /\ EntryIn(Head(todo), contexts, listsort_items, listsort_cache)
      /\ After(Head(todo), Hash, listsort_cache) \in Texts
  BY <1>1, HeadPoint
<1>3. /\ i \in 1 .. Len(order) /\ order \in Seq(Nat) /\ children[node] \in Seq(Nodes)
      /\ Len(order) \in {0, Len(children[node])}
      /\ \A k \in 1 .. Len(order) : order[k] \in 1 .. Len(children[node])
  <2>1. i \in 1 .. Len(order)
    BY <1>1, <1>2 DEF EntryIn, node
  <2>2. /\ order \in Seq(Nat) /\ Len(order) \in {0, Len(children[node])}
        /\ \A k \in 1 .. Len(order) : order[k] \in 1 .. Len(children[node])
    BY <1>2 DEF ListsOK
  <2> QED BY <1>2, <2>1, <2>2, ChildrenType
<1>4. order # <<>>
  BY <1>3
<1>5. \A k \in DOMAIN children[node] : listsort_items[node][k] = Child(node, k)
  BY <1>1, <1>2, <1>4 DEF EInv, EWalk, CacheOK, Hashed
<1>6. order[i] \in DOMAIN children[node] /\ n \in Nodes
  BY <1>3
<1>7. Repeats(node, i) <=> i > 1 /\ Child(node, order[i - 1]) = Child(node, order[i])
  <2>1. ASSUME i > 1 PROVE order[i - 1] \in DOMAIN children[node]
    <3>1. i - 1 \in 1 .. Len(order)
      BY <1>3, <2>1
    <3>2. order[i - 1] \in 1 .. Len(children[node])
      BY <1>3, <3>1
    <3> QED BY <1>3, <3>2
  <2> HIDE DEF Child
  <2> QED BY <1>5, <1>6, <2>1 DEF Repeats
<1>8. After(Head(todo), Hash, listsort_cache) =
        IF Repeats(node, i) THEN Hash ELSE Hash \o Child(node, order[i])
  <2> HIDE DEF Child
  <2> QED BY <1>1, <1>7 DEF After, node
<1>9. CASE Repeats(node, i)
  <2>1. contexts'[ctx] = After(Head(todo), Hash, listsort_cache)
    BY <1>1, <1>8, <1>9 DEF Hash
  <2> HIDE DEF After, Then
  <2> QED BY <1>1, <1>9, <2>1, CallNothing
<1>10. CASE ~Repeats(node, i)
  <2> DEFINE e == Call("node", n, 0, ctx)
  <2> DEFINE new == <<e>>
  <2> DEFINE z == After(Head(todo), Hash, listsort_cache)
  <2> DEFINE T == [k \in 1 .. 2 |-> IF k = 1 THEN Hash ELSE z]
  <2>1. Then(new)
    BY <1>1, <1>10
  <2> HIDE DEF n, i
  <2>2. e.op = "node" /\ e.node = n /\ e.ctx = ctx
    BY DEF Call
  <2>3. e \in Entries
    <3>1. <<>> \in Strings
      BY DEF Strings
    <3> QED BY <1>2, <1>6, <3>1 DEF Call, Entries
  <2>4. After(e, Hash, listsort_cache) = z
    <3>1. After(e, Hash, listsort_cache) = Hash \o Expected[n]
      <4> HIDE DEF e
      <4> QED BY <2>2 DEF After
    <3>2. z = Hash \o Child(node, order[i])
      BY <1>8, <1>10
    <3> QED BY <3>1, <3>2 DEF Child, n
  <2> HIDE DEF e, z
  <2>5. T \in [1 .. 2 -> Texts] /\ T[1] = Hash /\ T[2] = z
    BY <1>2 DEF z
  <2>6. new \in Seq(Entries) /\ Len(new) = 1 /\ new[1] = e
    <3> HIDE DEF Entries
    <3> QED BY <2>3
  <2> HIDE DEF new, T
  <2>7. \A k \in 1 .. Len(new) : k = 1
    BY <2>6
  <2>8. \A k \in 1 .. Len(new) :
          /\ new[k].ctx = ctx /\ new[k].op \notin {"digest", "sort"} /\ EntryOK(new[k])
          /\ T[k + 1] = After(new[k], T[k], listsort_cache)
    <3>1. EntryOK(e)
      BY <2>2 DEF EntryOK, OfList, InItem
    <3>2. T[1 + 1] = After(e, T[1], listsort_cache)
      BY <2>4, <2>5
    <3> HIDE DEF After, EntryOK
    <3> QED BY <2>2, <2>6, <2>7, <3>1, <3>2
  <2>9. \A r : IsRank(r) =>
          /\ \A k \in 1 .. Len(new) : Level(r, new[k]) >= Level(r, todo[1])
          /\ \A k, l \in 1 .. Len(new) : k < l => Level(r, new[l]) <= Level(r, new[k])
    <3> TAKE r
    <3> HAVE IsRank(r)
    <3>1. r[node] \in Nat /\ r[n] = r[node] + 1
      BY <1>2, <1>6 DEF IsRank, n
    <3>2. Level(r, e) = r[node] + 1 /\ Level(r, todo[1]) = r[node] + 1
      BY <1>1, <1>2, <2>2, <3>1 DEF Level, InItem, node
    <3>3. \A k \in 1 .. Len(new) : Level(r, new[k]) = r[node] + 1
      <4> HIDE DEF Level
      <4> QED BY <2>6, <2>7, <3>2
    <3> HIDE DEF Level
    <3> QED BY <3>1, <3>2, <3>3
  <2>10. /\ T \in [1 .. Len(new) + 1 -> Texts] /\ T[1] = contexts'[ctx]
         /\ T[Len(new) + 1] = After(Head(todo), Hash, listsort_cache)
         /\ Head(todo).op \notin {"item", "digest"}
    <3>1. Len(new) + 1 = 2
      BY <2>6
    <3> HIDE DEF After
    <3> QED BY <1>1, <2>5, <3>1 DEF z, Hash
  <2>11. /\ Len(contexts') = Len(contexts)
         /\ \A k \in 1 .. Len(contexts) - 1 : contexts'[k] = contexts[k]
    BY <1>1
  <2> HIDE DEF Entries, After, EntryOK, Level, Then
  <2> QED BY <1>1, <2>1, <2>6, <2>8, <2>9, <2>10, <2>11, SameContext
<1> QED BY <1>9, <1>10

\* A sorted list, written in order and repeated items left out, is what it is expected to be.
LEMMA InOrderOnce ==
  ASSUME TreeOK, RankedTree, NEW n \in Nodes, kind[n] = "sorted", ~Deep(n),
         NEW order, InSortOrder(n, order)
  PROVE  \E F \in [0 .. Len(children[n]) -> Texts] :
           /\ F[0] = <<>> /\ F[Len(children[n])] = Expected[n]
           /\ \A i \in 1 .. Len(children[n]) :
                F[i] = IF i > 1 /\ Child(n, order[i - 1]) = Child(n, order[i]) THEN F[i - 1]
                       ELSE F[i - 1] \o Child(n, order[i])
<1> DEFINE m == Len(children[n])
<1> DEFINE a == [i \in 1 .. m |-> Child(n, order[i])]
<1>1. children[n] \in Seq(Nodes) /\ m \in Nat /\ DOMAIN children[n] = 1 .. m
  BY ChildrenType
<1>2. Expected \in [Nodes -> Texts] /\ Expected[n] = ExpectedOf(n, Items(n))
  <2> HIDE DEF ExpectedOf, Items
  <2> QED BY ExpectedIs
<1>3. /\ order \in [1 .. m -> 1 .. m]
      /\ \A i \in 1 .. m : \E j \in 1 .. m : order[j] = i
      /\ \A i, j \in 1 .. m : i < j => ~Less(Child(n, order[j]), Child(n, order[i]))
  BY DEF InSortOrder
<1>4. \A i \in 1 .. m : Child(n, i) \in Texts
  <2> TAKE i \in 1 .. m
  <2>1. children[n][i] \in Nodes
    BY <1>1
  <2> QED BY <1>2, <2>1 DEF Child
<1> HIDE DEF m
<1>5. a \in Seq(Texts) /\ Len(a) = m /\ \A i \in 1 .. m : a[i] = Child(n, order[i])
  <2>1. \A i \in 1 .. m : Child(n, order[i]) \in Texts
    BY <1>3, <1>4
  <2> HIDE DEF Texts, Child
  <2> QED BY <1>1, <2>1 DEF m
<1>6. \A i, j \in 1 .. Len(a) : i < j => ~Less(a[j], a[i])
  <2> HIDE DEF a, Less
  <2> QED BY <1>3, <1>5
<1>7. Range(a) = Range(Items(n))
  <2>1. Range(a) = {Child(n, order[i]) : i \in 1 .. m}
    BY DEF Range
  <2>2. Range(Items(n)) = {Child(n, i) : i \in 1 .. m}
    BY <1>1 DEF Range, Items, Child, m
  <2>3. {Child(n, order[i]) : i \in 1 .. m} = {Child(n, i) : i \in 1 .. m}
    BY <1>3
  <2> QED BY <2>1, <2>2, <2>3
<1> HIDE DEF a
<1>8. PICK F : Distinct(a, F) /\ F[Len(a)] = FlattenSeq(Sorted(Range(a)))
  BY <1>5, <1>6, SortedOnce
<1>9. Expected[n] = FlattenSeq(Sorted(Range(a)))
  <2> DEFINE it == Items(n)
  <2>1. Expected[n] = ExpectedOf(n, it)
    BY <1>2
  <2> HIDE DEF it
  <2>2. ExpectedOf(n, it) = FlattenSeq(Sorted(Range(it)))
    BY DEF ExpectedOf, Deep
  <2> QED BY <1>7, <2>1, <2>2 DEF it
<1>10. /\ F \in [0 .. m -> Texts] /\ F[0] = <<>> /\ F[m] = Expected[n]
       /\ \A i \in 1 .. m : F[i] = IF i > 1 /\ a[i - 1] = a[i] THEN F[i - 1] ELSE F[i - 1] \o a[i]
  BY <1>5, <1>8, <1>9 DEF Distinct
<1>11. ASSUME NEW i \in 1 .. m
       PROVE  F[i] = IF i > 1 /\ Child(n, order[i - 1]) = Child(n, order[i]) THEN F[i - 1]
                     ELSE F[i - 1] \o Child(n, order[i])
  <2>1. ASSUME i > 1 PROVE a[i - 1] = Child(n, order[i - 1])
    <3>1. i - 1 \in 1 .. m
      BY <1>1, <2>1
    <3> QED BY <1>5, <3>1
  <2>2. a[i] = Child(n, order[i])
    BY <1>5
  <2> QED BY <1>10, <2>1, <2>2
<1> QED BY <1>10, <1>11 DEF m

\* The calls for the items of a list in order, and the hash before and behind them.
LEMMA ItemsInTurn ==
  ASSUME IInv, EInv, phase = "walk", todo # <<>>, Head(todo).op \in {"node", "sort"},
         kind[node] = "sorted", ~Deep(node),
         NEW order, InSortOrder(node, order), NEW cache, cache[node] = order
  PROVE  LET new == ItemCalls("next", order)
         IN  /\ new \in Seq(Entries)
             /\ \A k \in 1 .. Len(new) :
                  new[k].ctx = ctx /\ new[k].op = "next" /\ new[k].node = node /\ EntryOK(new[k])
             /\ \E T \in [1 .. Len(new) + 1 -> Texts] :
                  /\ T[1] = Hash /\ T[Len(new) + 1] = After(Head(todo), Hash, listsort_cache)
                  /\ \A k \in 1 .. Len(new) : T[k + 1] = After(new[k], T[k], cache)
             /\ \A r : IsRank(r) =>
                  /\ \A k \in 1 .. Len(new) : Level(r, new[k]) >= Level(r, todo[1])
                  /\ \A k, l \in 1 .. Len(new) : k < l => Level(r, new[l]) <= Level(r, new[k])
<1> DEFINE m == Len(children[node])
<1> DEFINE new == ItemCalls("next", order)
<1>1. /\ node \in Nodes /\ ctx \in Nat /\ Hash \in Texts /\ TreeOK /\ RankedTree
      /\ Head(todo) = todo[1]
  BY HeadPoint
<1>2. m \in Nat /\ order \in [1 .. m -> 1 .. m] /\ Len(order) = m
  <2>1. m \in Nat
    BY <1>1, ChildrenType
  <2>2. order \in [1 .. m -> 1 .. m]
    BY DEF InSortOrder
  <2> HIDE DEF m
  <2> QED BY <2>1, <2>2
<1>3. PICK F \in [0 .. m -> Texts] :
        /\ F[0] = <<>> /\ F[m] = Expected[node]
        /\ \A i \in 1 .. m :
             F[i] = IF i > 1 /\ Child(node, order[i - 1]) = Child(node, order[i]) THEN F[i - 1]
                    ELSE F[i - 1] \o Child(node, order[i])
  BY <1>1, InOrderOnce
<1>4. new = [k \in 1 .. m |-> Call("next", node, k, ctx)]
  BY <1>2 DEF ItemCalls
<1>5. /\ new \in Seq(Entries) /\ Len(new) = m
      /\ \A k \in 1 .. m : new[k] = Call("next", node, k, ctx)
  <2>1. \A k \in 1 .. m : Call("next", node, k, ctx) \in Entries
    <3>1. <<>> \in Strings
      BY DEF Strings
    <3> QED BY <1>1, <3>1 DEF Call, Entries
  <2> HIDE DEF Entries, Call, m, new
  <2>2. m \in Nat
    BY <1>2
  <2>3. new \in [1 .. m -> Entries]
    BY <1>4, <2>1
  <2>4. \A k \in 1 .. m : new[k] = Call("next", node, k, ctx)
    BY <1>4
  <2> QED BY <2>2, <2>3, <2>4
<1> HIDE DEF new, m
<1>6. \A k \in 1 .. m : /\ new[k].op = "next" /\ new[k].node = node /\ new[k].i = k
                        /\ new[k].ctx = ctx
  BY <1>5 DEF Call
<1>7. \A k \in 1 .. m : EntryOK(new[k])
  BY <1>6 DEF EntryOK
<1> DEFINE T == [k \in 1 .. m + 1 |-> Hash \o F[k - 1]]
<1>8. \A k \in 1 .. m + 1 : k - 1 \in 0 .. m /\ Hash \o F[k - 1] \in Texts
  <2> TAKE k \in 1 .. m + 1
  <2>1. k - 1 \in 0 .. m
    BY <1>2
  <2>2. F[k - 1] \in Texts
    BY <1>3, <2>1
  <2> HIDE DEF Texts
  <2> QED BY <1>1, <2>1, <2>2, Concat
<1>9. T \in [1 .. m + 1 -> Texts]
  BY <1>8
<1>10. T[1] = Hash
  <2>1. 1 \in 1 .. m + 1 /\ 1 - 1 = 0
    BY <1>2
  <2>2. T[1] = Hash \o F[0]
    BY <2>1
  <2> QED BY <1>1, <1>3, <2>2, Concat
<1>11. T[m + 1] = After(Head(todo), Hash, listsort_cache)
  <2>1. m + 1 \in 1 .. m + 1 /\ (m + 1) - 1 = m
    BY <1>2
  <2>2. T[m + 1] = Hash \o F[m]
    BY <2>1
  <2>3. After(Head(todo), Hash, listsort_cache) = Hash \o Expected[node]
    BY DEF After, node
  <2> QED BY <1>3, <2>2, <2>3
<1>12. ASSUME NEW k \in 1 .. m PROVE T[k + 1] = After(new[k], T[k], cache)
  <2>1. k \in 1 .. m + 1 /\ k + 1 \in 1 .. m + 1 /\ (k + 1) - 1 = k /\ k \in 0 .. m
        /\ k - 1 \in 0 .. m
    BY <1>2
  <2>2. T[k] = Hash \o F[k - 1] /\ T[k + 1] = Hash \o F[k]
    BY <2>1
  <2> HIDE DEF T
  <2>3. After(new[k], T[k], cache) =
          IF k > 1 /\ Child(node, order[k - 1]) = Child(node, order[k])
          THEN T[k] ELSE T[k] \o Child(node, order[k])
    <3> HIDE DEF Child
    <3> QED BY <1>6 DEF After
  <2>4. CASE k > 1 /\ Child(node, order[k - 1]) = Child(node, order[k])
    <3>1. F[k] = F[k - 1]
      BY <1>3, <2>4
    <3> QED BY <2>2, <2>3, <2>4, <3>1
  <2>5. CASE ~(k > 1 /\ Child(node, order[k - 1]) = Child(node, order[k]))
    <3> DEFINE c == Child(node, order[k])
    <3>1. F[k] = F[k - 1] \o c
      BY <1>3, <2>5
    <3>2. c \in Texts
      <4>1. Expected \in [Nodes -> Texts] /\ children[node] \in Seq(Nodes)
        BY <1>1, ChildrenType, HeadPoint
      <4>2. order[k] \in 1 .. m
        BY <1>2
      <4>3. children[node][order[k]] \in Nodes
        BY <4>1, <4>2 DEF m
      <4> QED BY <4>1, <4>3 DEF Child
    <3>3. F[k - 1] \in Texts
      BY <1>3, <2>1
    <3> HIDE DEF c, Texts
    <3>4. (Hash \o F[k - 1]) \o c = Hash \o (F[k - 1] \o c)
      BY <1>1, <3>2, <3>3, Concat
    <3> QED BY <2>2, <2>3, <2>5, <3>1, <3>4 DEF c
  <2> QED BY <2>4, <2>5
<1>13. ASSUME NEW r, IsRank(r)
       PROVE  /\ \A k \in 1 .. m : Level(r, new[k]) >= Level(r, todo[1])
              /\ \A k, l \in 1 .. m : k < l => Level(r, new[l]) <= Level(r, new[k])
  <2>1. r[node] \in Nat
    BY <1>1, <1>13 DEF IsRank
  <2>2. Level(r, todo[1]) = r[node]
    BY <1>1, <2>1 DEF Level, InItem, node
  <2>3. \A k \in 1 .. m : Level(r, new[k]) = r[node] + 1
    BY <1>6 DEF Level, InItem
  <2> HIDE DEF Level
  <2> QED BY <2>1, <2>2, <2>3
<1>14. \E U \in [1 .. Len(new) + 1 -> Texts] :
         /\ U[1] = Hash /\ U[Len(new) + 1] = After(Head(todo), Hash, listsort_cache)
         /\ \A k \in 1 .. Len(new) : U[k + 1] = After(new[k], U[k], cache)
  <2> HIDE DEF T, After
  <2> QED BY <1>5, <1>9, <1>10, <1>11, <1>12
<1> HIDE DEF Entries, After, EntryOK, Level
<1>15. \A r : IsRank(r) =>
         /\ \A k \in 1 .. Len(new) : Level(r, new[k]) >= Level(r, todo[1])
         /\ \A k, l \in 1 .. Len(new) : k < l => Level(r, new[l]) <= Level(r, new[k])
  BY <1>5, <1>13
<1>16. \A k \in 1 .. Len(new) :
         new[k].ctx = ctx /\ new[k].op = "next" /\ new[k].node = node /\ EntryOK(new[k])
  BY <1>5, <1>6, <1>7
<1> QED BY <1>5, <1>14, <1>15, <1>16 DEF new

\* A list that has been sorted before.
LEMMA CachedListEInv == IInv /\ EInv /\ FingerprintCachedList => EInv'
<1> SUFFICES ASSUME IInv, EInv, FingerprintCachedList PROVE EInv'
  OBVIOUS
<1> DEFINE order == listsort_cache[node]
<1> DEFINE new == ItemCalls("next", order)
<1>1. /\ phase = "walk" /\ phase' = "walk" /\ todo # <<>> /\ contexts' = contexts
      /\ Then(new) /\ kind[node] = "sorted" /\ order # <<>>
      /\ UNCHANGED <<tree, listsort_items, listsort_cache>> /\ Head(todo).op = "node" /\ ~Ignored
  BY DEF FingerprintCachedList, Visit, Does, Cached
<1>2. node \in Nodes /\ ~Deep(node)
  BY <1>1, HeadPoint DEF Ignored, Deep
<1>3. InSortOrder(node, order)
  BY <1>1, <1>2 DEF EInv, EWalk, CacheOK
<1> HIDE DEF new, EntryOK, Level, After, Entries, Then
<1>4. /\ new \in Seq(Entries)
      /\ \A k \in 1 .. Len(new) :
           new[k].ctx = ctx /\ new[k].op = "next" /\ new[k].node = node /\ EntryOK(new[k])
      /\ \E T \in [1 .. Len(new) + 1 -> Texts] :
           /\ T[1] = Hash /\ T[Len(new) + 1] = After(Head(todo), Hash, listsort_cache)
           /\ \A k \in 1 .. Len(new) : T[k + 1] = After(new[k], T[k], listsort_cache)
      /\ \A r : IsRank(r) =>
           /\ \A k \in 1 .. Len(new) : Level(r, new[k]) >= Level(r, todo[1])
           /\ \A k, l \in 1 .. Len(new) : k < l => Level(r, new[l]) <= Level(r, new[k])
  BY <1>1, <1>2, <1>3, ItemsInTurn DEF new
<1>5. PICK T \in [1 .. Len(new) + 1 -> Texts] :
           /\ T[1] = Hash /\ T[Len(new) + 1] = After(Head(todo), Hash, listsort_cache)
           /\ \A k \in 1 .. Len(new) : T[k + 1] = After(new[k], T[k], listsort_cache)
  BY <1>4
<1>6. T[1] = contexts'[ctx]
  BY <1>1, <1>5 DEF Hash
<1>7. \A k \in 1 .. Len(new) :
        /\ new[k].ctx = ctx /\ new[k].op \notin {"digest", "sort"} /\ EntryOK(new[k])
        /\ T[k + 1] = After(new[k], T[k], listsort_cache)
  BY <1>4, <1>5
<1>8. /\ Len(contexts') = Len(contexts)
      /\ \A k \in 1 .. Len(contexts) - 1 : contexts'[k] = contexts[k]
      /\ Head(todo).op \notin {"item", "digest"}
  BY <1>1
<1> QED BY <1>1, <1>4, <1>5, <1>6, <1>7, <1>8, SameContext

\* The items of a list are hashed before it is sorted, and until then nothing is written.
LEMMA NewListEInv == IInv /\ EInv /\ FingerprintNewList => EInv'
<1> SUFFICES ASSUME IInv, EInv, FingerprintNewList PROVE EInv'
  OBVIOUS
<1> DEFINE m == Len(children[node])
<1> DEFINE is == ItemCalls("item", children[node])
<1> DEFINE sort == Call("sort", node, 0, ctx)
<1> DEFINE new == Append(is, sort)
<1>1. /\ phase = "walk" /\ phase' = "walk" /\ todo # <<>> /\ Head(todo).op = "node"
      /\ Then(new) /\ contexts' = contexts /\ kind[node] = "sorted" /\ ~Ignored
      /\ UNCHANGED tree /\ listsort_cache' = listsort_cache /\ listsort_cache[node] = <<>>
      /\ listsort_items' = [listsort_items EXCEPT ![node] = [i \in 1 .. m |-> <<>>]]
  BY DEF FingerprintNewList, Visit, Does, Cached
<1>2. /\ node \in Nodes /\ ctx = Len(contexts) /\ Hash \in Texts /\ ctx \in Nat /\ ctx >= 1
      /\ TreeOK /\ RankedTree /\ ListsOK /\ Head(todo) = todo[1]
      /\ After(Head(todo), Hash, listsort_cache) \in Texts
  BY <1>1, HeadPoint
<1>3. children[node] \in Seq(Nodes) /\ m \in Nat /\ DOMAIN children[node] = 1 .. m
  BY <1>2, ChildrenType
<1>4. EWalk
  BY <1>1 DEF EInv
<1>5. /\ \A i \in Nat : Call("item", node, i, ctx) \in Entries
      /\ sort \in Entries
  BY <1>2 DEF Call, Entries, Strings
<1> HIDE DEF m
<1>6. /\ is \in Seq(Entries) /\ Len(is) = m
      /\ \A k \in 1 .. m : is[k] = Call("item", node, k, ctx)
  <2>1. is = [k \in 1 .. m |-> Call("item", node, k, ctx)]
    BY DEF ItemCalls, m
  <2>2. \A k \in 1 .. m : k \in Nat
    BY <1>3
  <2> HIDE DEF Entries, Call, is
  <2>3. is \in [1 .. m -> Entries]
    BY <1>5, <2>1, <2>2
  <2>4. \A k \in 1 .. m : is[k] = Call("item", node, k, ctx)
    BY <2>1
  <2> QED BY <1>3, <2>3, <2>4
<1> HIDE DEF is, sort
<1>7. /\ new \in Seq(Entries) /\ Len(new) = m + 1 /\ new[m + 1] = sort
      /\ \A k \in 1 .. m : new[k] = Call("item", node, k, ctx)
  <2> HIDE DEF Entries, Call
  <2> QED BY <1>3, <1>5, <1>6
<1> HIDE DEF new
<1>8. /\ \A k \in 1 .. m : /\ new[k].op = "item" /\ new[k].node = node /\ new[k].i = k
                           /\ new[k].ctx = ctx
      /\ new[m + 1].op = "sort" /\ new[m + 1].node = node /\ new[m + 1].ctx = ctx
  <2>1. \A k \in 1 .. m : /\ new[k].op = "item" /\ new[k].node = node /\ new[k].i = k
                          /\ new[k].ctx = ctx
    <3> TAKE k \in 1 .. m
    <3>1. new[k] = Call("item", node, k, ctx)
      BY <1>7
    <3> QED BY <3>1 DEF Call
  <2>2. sort.op = "sort" /\ sort.node = node /\ sort.ctx = ctx
    BY DEF Call, sort
  <2> QED BY <1>7, <2>1, <2>2
<1>9. \A k \in 1 .. Len(new) : k \in 1 .. m \/ k = m + 1
  BY <1>3, <1>7
<1>10. \A n \in Nodes : n # node => listsort_items'[n] = listsort_items[n]
  <2>1. listsort_items \in [Nodes -> Seq(Strings)]
    BY <1>2 DEF ListsOK
  <2> HIDE DEF Strings, Nodes
  <2> QED BY <2>1, <1>1
<1>11. CacheOK'
  <2>1. /\ children' = children /\ Expected' = Expected /\ Nodes' = Nodes
    BY <1>1, SameTree
  <2>2. ASSUME NEW n \in Nodes, listsort_cache[n] # <<>>
        PROVE  Hashed(n, listsort_items') /\ InSortOrder(n, listsort_cache[n])
    <3>1. listsort_items'[n] = listsort_items[n]
      BY <1>1, <1>10, <2>2
    <3>2. Hashed(n, listsort_items) /\ InSortOrder(n, listsort_cache[n])
      BY <1>4, <2>2 DEF EWalk, CacheOK
    <3> QED BY <3>1, <3>2 DEF Hashed
  <2>3. \A n : Hashed(n, listsort_items)' = Hashed(n, listsort_items')
    BY <2>1 DEF Hashed, Child
  <2>4. \A n : InSortOrder(n, listsort_cache[n])' = InSortOrder(n, listsort_cache'[n])
    BY <2>1 DEF InSortOrder, Child
  <2> QED BY <1>1, <2>1, <2>2, <2>3, <2>4 DEF CacheOK
<1>12. (\E r : IsRank(r) /\ Descends(r))' /\ EntriesOK'
  <2>1. PICK r : IsRank(r) /\ Descends(r)
    BY <1>4 DEF EWalk
  <2>2. EntriesOK
    BY <1>4 DEF EWalk
  <2>3. r[node] \in Nat
    BY <1>2, <2>1 DEF IsRank
  <2>4. /\ \A k \in 1 .. m : Level(r, new[k]) = r[node] + 1
        /\ Level(r, new[m + 1]) = r[node] /\ Level(r, todo[1]) = r[node]
    BY <1>1, <1>2, <1>8, <2>3 DEF Level, InItem, node
  <2>5. \A k \in 1 .. Len(new) : EntryOK(new[k])
    <3> TAKE k \in 1 .. Len(new)
    <3>1. new[k].node = node /\ new[k].op # "field"
      BY <1>8, <1>9
    <3> QED BY <1>1, <3>1 DEF EntryOK, Deep, Ignored
  <2> HIDE DEF Entries, EntryOK, Level
  <2>6. \A k \in 1 .. Len(new) : Level(r, new[k]) >= Level(r, todo[1])
    BY <1>9, <2>3, <2>4
  <2>7. ASSUME NEW k \in 1 .. Len(new), NEW l \in 1 .. Len(new), k < l
        PROVE  Level(r, new[l]) <= Level(r, new[k])
    <3>1. k \in 1 .. m
      BY <1>3, <1>7, <2>7
    <3> QED BY <1>9, <2>3, <2>4, <3>1
  <2> QED BY <1>1, <1>7, <2>1, <2>2, <2>5, <2>6, <2>7, DescentOnward
<1>13. ItemsHashed'
  <2>1. ASSUME NEW i \in 1 .. m, NEW l, l = m + 1
        PROVE  Covered(node, i, listsort_items', new, l)
    <3>1. i \in 1 .. l - 1
      BY <1>3, <2>1
    <3> QED BY <1>8, <3>1 DEF Covered
  <2>2. ASSUME NEW n \in Nodes, NEW i \in DOMAIN children[n],
               \/ listsort_items[n][i] = Child(n, i)
               \/ todo[1].op \in {"item", "digest"} /\ todo[1].node = n /\ todo[1].i = i
        PROVE  Covered(n, i, listsort_items', new, Len(new) + 1)
    <3>1. CASE n = node
      <4>1. i \in 1 .. m /\ i \in 1 .. (Len(new) + 1) - 1
        BY <1>3, <1>7, <3>1
      <4> QED BY <1>8, <3>1, <4>1 DEF Covered
    <3>2. CASE n # node
      <4>1. listsort_items'[n] = listsort_items[n]
        BY <1>10, <3>2
      <4>2. listsort_items[n][i] = Child(n, i)
        BY <1>1, <1>2, <2>2
      <4> QED BY <4>1, <4>2 DEF Covered
    <3> QED BY <3>1, <3>2
  <2>3. ASSUME NEW l \in 1 .. Len(new), new[l].op = "sort",
               NEW i \in DOMAIN children[new[l].node]
        PROVE  Covered(new[l].node, i, listsort_items', new, l)
    <3>1. l = m + 1 /\ new[l].node = node
      BY <1>8, <1>9, <2>3
    <3>2. i \in 1 .. m
      BY <1>3, <2>3, <3>1
    <3> QED BY <2>1, <3>1, <3>2
  <2>4. ItemsHashed
    BY <1>4 DEF EWalk
  <2> HIDE DEF Entries, Covered, Child, Then
  <2> QED BY <1>1, <1>7, <2>2, <2>3, <2>4, ItemsOnward
<1>14. (\E h : Chain(h))'
  <2>1. PICK g : Chain(g)
    BY <1>4 DEF EWalk
  <2>2. g[2] = At(ctx, After(Head(todo), Hash, listsort_cache))
    BY <1>1, <2>1, ChainHead
  <2> DEFINE z == After(Head(todo), Hash, listsort_cache)
  <2> DEFINE f == [k \in 1 .. m + 2 |-> At(ctx, IF k = m + 2 THEN z ELSE Hash)]
  <2>3. z = Hash \o Expected[node]
    BY <1>1 DEF After, node
  <2>4. z \in Texts
    BY <1>2
  <2> HIDE DEF z
  <2>5. f \in [1 .. m + 2 -> Points]
    BY <1>2, <2>4 DEF Points, At
  <2>6. /\ \A k \in 1 .. m + 1 : f[k] = At(ctx, Hash)
        /\ f[m + 2] = At(ctx, z)
    <3>1. \A k \in 1 .. m + 1 : k \in 1 .. m + 2 /\ k # m + 2
      BY <1>3
    <3>2. m + 2 \in 1 .. m + 2
      BY <1>3
    <3> QED BY <3>1, <3>2
  <2> HIDE DEF f
  <2>7. f[1] = At(Len(contexts'), contexts'[Len(contexts')])
    <3>1. 1 \in 1 .. m + 1
      BY <1>3
    <3> QED BY <1>1, <1>2, <2>6, <3>1 DEF Hash
  <2>8. f[Len(new) + 1] = g[2] /\ f \in [1 .. Len(new) + 1 -> Points]
    <3>1. Len(new) + 1 = m + 2
      BY <1>3, <1>7
    <3> QED BY <2>2, <2>5, <2>6, <3>1 DEF z
  <2>9. \A k \in 1 .. Len(new) : Leads(new[k], f[k], f[k + 1], contexts', listsort_cache')
    <3> TAKE k \in 1 .. Len(new)
    <3>1. CASE k \in 1 .. m
      <4>1. k \in 1 .. m + 1 /\ k + 1 \in 1 .. m + 1
        BY <1>3, <3>1
      <4>2. f[k] = At(ctx, Hash) /\ f[k + 1] = At(ctx, Hash)
        BY <2>6, <4>1
      <4>3. After(new[k], Hash, listsort_cache') = Hash
        BY <1>8, <3>1 DEF After
      <4> HIDE DEF After
      <4> QED BY <1>8, <3>1, <4>2, <4>3 DEF Leads, At
    <3>2. CASE k = m + 1
      <4>1. k \in 1 .. m + 1 /\ k + 1 = m + 2
        BY <1>3, <3>2
      <4>2. f[k] = At(ctx, Hash) /\ f[k + 1] = At(ctx, z)
        BY <2>6, <4>1
      <4>3. After(new[k], Hash, listsort_cache') = z
        BY <1>8, <2>3, <3>2 DEF After
      <4> HIDE DEF After
      <4> QED BY <1>8, <3>2, <4>2, <4>3 DEF Leads, At
    <3> QED BY <1>9, <3>1, <3>2
  <2>10. \A j \in 2 .. Len(todo) :
          /\ todo[j].op = "digest" => contexts'[todo[j].ctx - 1] = contexts[todo[j].ctx - 1]
          /\ todo[j].op = "next" =>
               listsort_cache'[todo[j].node] = listsort_cache[todo[j].node]
    BY <1>1
  <2> HIDE DEF Entries, Points, Leads, At, Then
  <2> QED BY <1>1, <1>7, <2>1, <2>7, <2>8, <2>9, <2>10, ChainOnward
<1> QED BY <1>1, <1>2, <1>11, <1>12, <1>13, <1>14, WalkOn

\* An item is hashed from nothing, in a context of its own.
LEMMA InitContextEInv == IInv /\ EInv /\ InitContext => EInv'
<1> SUFFICES ASSUME IInv, EInv, InitContext PROVE EInv'
  OBVIOUS
<1> DEFINE i == Head(todo).i
<1> DEFINE fctx == Len(contexts) + 1
<1> DEFINE n == children[node][i]
<1> DEFINE call == Call("node", n, 0, fctx)
<1> DEFINE digest == Call("digest", node, i, fctx)
<1> DEFINE new == <<call, digest>>
<1>1. /\ phase = "walk" /\ phase' = "walk" /\ todo # <<>> /\ Head(todo).op = "item"
      /\ Then(new) /\ contexts' = Append(contexts, <<>>)
      /\ UNCHANGED tree /\ listsort_cache' = listsort_cache /\ listsort_items' = listsort_items
  BY DEF InitContext, Does
<1>2. /\ node \in Nodes /\ ctx = Len(contexts) /\ Hash \in Texts /\ ctx \in Nat /\ ctx >= 1
      /\ TreeOK /\ RankedTree /\ Head(todo) = todo[1] /\ EntryOK(todo[1])
      /\ EntryIn(Head(todo), contexts, listsort_items, listsort_cache)
      /\ Head(todo) \in Entries /\ Expected \in [Nodes -> Texts]
  BY <1>1, HeadPoint
<1>3. i \in Nat /\ i \in 1 .. Len(children[node]) /\ children[node] \in Seq(Nodes)
  <2>1. i \in Nat /\ i \in 1 .. Len(children[node])
    BY <1>1, <1>2 DEF EntryIn, Entries, node
  <2> QED BY <1>2, <2>1, ChildrenType
<1>4. n \in Nodes /\ i \in DOMAIN children[node] /\ Child(node, i) = Expected[n]
  BY <1>3 DEF Child
<1>5. EWalk
  BY <1>1 DEF EInv
<1>6. Expected[n] \in Texts /\ <<>> \in Texts
  BY <1>2, <1>4 DEF Texts
<1> HIDE DEF n, i
<1>7. fctx \in Nat /\ fctx = ctx + 1 /\ fctx - 1 = ctx
  BY <1>2
<1>8. contexts' = Append(contexts, <<>>) /\ contexts \in Seq(Strings) /\ <<>> \in Strings
  BY <1>1 DEF IInv, Strings
<1>9. /\ Len(contexts') = fctx /\ contexts'[fctx] = <<>>
      /\ \A k \in 1 .. Len(contexts) : contexts'[k] = contexts[k]
  <2> HIDE DEF Strings
  <2> QED BY <1>8
<1> HIDE DEF fctx
<1>10. /\ call.op = "node" /\ call.node = n /\ call.ctx = fctx
       /\ digest.op = "digest" /\ digest.node = node /\ digest.ctx = fctx /\ digest.i = i
  BY DEF Call
<1>11. call \in Entries /\ digest \in Entries
  <2>1. <<>> \in Strings
    BY <1>8
  <2> QED BY <1>2, <1>3, <1>4, <1>7, <2>1 DEF Call, Entries
<1> HIDE DEF call, digest
<1>12. new \in Seq(Entries) /\ Len(new) = 2 /\ new[1] = call /\ new[2] = digest
  <2> HIDE DEF Entries
  <2> QED BY <1>11
<1> HIDE DEF new
<1>13. \A k \in 1 .. Len(new) : k = 1 \/ k = 2
  BY <1>12
<1>14. CacheOK'
  BY <1>1, <1>5, CacheKept DEF EWalk
<1>15. (\E r : IsRank(r) /\ Descends(r))' /\ EntriesOK'
  <2>1. PICK r : IsRank(r) /\ Descends(r)
    BY <1>5 DEF EWalk
  <2>2. EntriesOK
    BY <1>5 DEF EWalk
  <2>3. r[node] \in Nat /\ r[n] = r[node] + 1
    BY <1>2, <1>4, <2>1 DEF IsRank, n
  <2>4. /\ Level(r, call) = r[node] + 1 /\ Level(r, digest) = r[node] + 1
        /\ Level(r, todo[1]) = r[node] + 1
    BY <1>1, <1>2, <1>10, <2>3 DEF Level, InItem, node
  <2>5. EntryOK(call) /\ EntryOK(digest)
    BY <1>1, <1>2, <1>10 DEF EntryOK, OfList, InItem, node
  <2> HIDE DEF Level, EntryOK, Entries
  <2>6. \A k \in 1 .. Len(new) : EntryOK(new[k]) /\ Level(r, new[k]) = r[node] + 1
    BY <1>12, <1>13, <2>4, <2>5
  <2>7. /\ \A k \in 1 .. Len(new) : EntryOK(new[k]) /\ Level(r, new[k]) >= Level(r, todo[1])
        /\ \A k, l \in 1 .. Len(new) : k < l => Level(r, new[l]) <= Level(r, new[k])
    BY <2>3, <2>4, <2>6
  <2> QED BY <1>1, <1>12, <2>1, <2>2, <2>7, DescentOnward
<1>16. ItemsHashed'
  <2>1. ASSUME NEW p \in Nodes, NEW j \in DOMAIN children[p],
               \/ listsort_items[p][j] = Child(p, j)
               \/ todo[1].op \in {"item", "digest"} /\ todo[1].node = p /\ todo[1].i = j
        PROVE  Covered(p, j, listsort_items', new, Len(new) + 1)
    <3>1. CASE listsort_items[p][j] = Child(p, j)
      BY <1>1, <3>1 DEF Covered
    <3>2. CASE todo[1].node = p /\ todo[1].i = j
      <4>1. 2 \in 1 .. (Len(new) + 1) - 1
        BY <1>12
      <4>2. p = node /\ j = i
        BY <1>2, <3>2 DEF node, i
      <4> QED BY <1>10, <1>12, <4>1, <4>2 DEF Covered
    <3> QED BY <2>1, <3>1, <3>2
  <2>2. \A l \in 1 .. Len(new) : new[l].op # "sort"
    BY <1>10, <1>12, <1>13
  <2>3. ItemsHashed
    BY <1>5 DEF EWalk
  <2> HIDE DEF Entries, Covered, Child, Then
  <2> QED BY <1>1, <1>12, <2>1, <2>2, <2>3, ItemsOnward
<1>17. (\E h : Chain(h))'
  <2>1. PICK g : Chain(g)
    BY <1>5 DEF EWalk
  <2>2. g[2] = At(ctx, After(Head(todo), Hash, listsort_cache))
    BY <1>1, <2>1, ChainHead
  <2>3. g[2] = At(ctx, Hash)
    BY <1>1, <2>2 DEF After
  <2> DEFINE c == Expected[n]
  <2> DEFINE f == [k \in 1 .. 3 |->
                     IF k = 1 THEN At(fctx, <<>>) ELSE IF k = 2 THEN At(fctx, c) ELSE At(ctx, Hash)]
  <2>4. f \in [1 .. 3 -> Points]
    BY <1>2, <1>6, <1>7 DEF Points, At
  <2>5. f[1] = At(fctx, <<>>) /\ f[2] = At(fctx, c) /\ f[3] = At(ctx, Hash)
    OBVIOUS
  <2> HIDE DEF f
  <2>6. Leads(call, f[1], f[2], contexts', listsort_cache')
    <3>1. After(call, <<>>, listsort_cache') = c
      <4>1. After(call, <<>>, listsort_cache') = <<>> \o Expected[n]
        BY <1>10 DEF After
      <4> HIDE DEF Texts
      <4> QED BY <1>6, <4>1, Concat
    <3> HIDE DEF After
    <3> QED BY <1>10, <2>5, <3>1 DEF Leads, At
  <2>7. Leads(digest, f[2], f[3], contexts', listsort_cache')
    <3>1. contexts'[fctx - 1] = Hash
      BY <1>2, <1>7, <1>9 DEF Hash
    <3>2. c = Child(node, i)
      BY <1>4
    <3> HIDE DEF c
    <3> QED BY <1>7, <1>10, <2>5, <3>1, <3>2 DEF Leads, At
  <2>8. \A k \in 1 .. Len(new) : Leads(new[k], f[k], f[k + 1], contexts', listsort_cache')
    <3> HIDE DEF Leads
    <3> QED BY <1>12, <1>13, <2>6, <2>7
  <2>9. f[1] = At(Len(contexts'), contexts'[Len(contexts')])
    BY <1>9, <2>5
  <2>10. f[Len(new) + 1] = g[2] /\ f \in [1 .. Len(new) + 1 -> Points]
    <3>1. Len(new) + 1 = 3
      BY <1>12
    <3> HIDE DEF Points
    <3> QED BY <2>3, <2>4, <2>5, <3>1
  <2>11. \A j \in 2 .. Len(todo) :
          /\ todo[j].op = "digest" => contexts'[todo[j].ctx - 1] = contexts[todo[j].ctx - 1]
          /\ todo[j].op = "next" =>
               listsort_cache'[todo[j].node] = listsort_cache[todo[j].node]
    <3> TAKE j \in 2 .. Len(todo)
    <3>1. todo[j] \in Entries /\ EntryIn(todo[j], contexts, listsort_items, listsort_cache)
      BY <1>1, HeadOK
    <3>2. todo[j].ctx \in Nat
      BY <3>1 DEF Entries
    <3>3. ASSUME todo[j].op = "digest" PROVE todo[j].ctx - 1 \in 1 .. Len(contexts)
      BY <1>2, <3>1, <3>2, <3>3 DEF EntryIn
    <3> QED BY <1>1, <1>9, <3>3
  <2> HIDE DEF Entries, Points, Leads, At, Then
  <2> QED BY <1>1, <1>12, <2>1, <2>8, <2>9, <2>10, <2>11, ChainOnward
<1> QED BY <1>1, <1>2, <1>14, <1>15, <1>16, <1>17, WalkOn

\* The hash of an item is noted, and the walk is back in the context of the list.
LEMMA FreeContextEInv == IInv /\ EInv /\ FreeContext => EInv'
<1> SUFFICES ASSUME IInv, EInv, FreeContext PROVE EInv'
  OBVIOUS
<1> DEFINE i == Head(todo).i
<1> DEFINE new == <<>>
<1>1. /\ phase = "walk" /\ phase' = "walk" /\ todo # <<>> /\ Head(todo).op = "digest"
      /\ Then(new) /\ contexts' = SubSeq(contexts, 1, ctx - 1)
      /\ UNCHANGED tree /\ listsort_cache' = listsort_cache
      /\ listsort_items' = [listsort_items EXCEPT ![node][i] = Hash]
  BY DEF FreeContext, Does
<1>2. /\ node \in Nodes /\ ctx = Len(contexts) /\ Hash \in Texts /\ ctx \in Nat /\ ctx >= 1
      /\ TreeOK /\ RankedTree /\ ListsOK /\ Head(todo) = todo[1]
      /\ EntryIn(Head(todo), contexts, listsort_items, listsort_cache)
      /\ Head(todo) \in Entries
  BY <1>1, HeadPoint
<1>3. /\ i \in Nat /\ i \in 1 .. Len(children[node]) /\ ctx > 1
      /\ Len(listsort_items[node]) = Len(children[node])
  BY <1>1, <1>2 DEF EntryIn, Entries, node, ctx
<1>4. EWalk
  BY <1>1 DEF EInv
<1>5. PICK g : Chain(g)
  BY <1>4 DEF EWalk
<1>6. Hash = Child(node, i) /\ g[2] = At(ctx - 1, contexts[ctx - 1]) /\ g[2] \in Points
  BY <1>1, <1>5, ChainHead
<1>7. /\ Len(contexts') = ctx - 1
      /\ \A c \in 1 .. ctx - 1 : contexts'[c] = contexts[c]
  <2>1. contexts \in Seq(Strings)
    BY DEF IInv
  <2> HIDE DEF Strings
  <2> QED BY <2>1, <1>1, <1>2, <1>3
<1> HIDE DEF i
<1>8. ASSUME NEW n \in Nodes, NEW j \in DOMAIN children[n],
             listsort_items[n][j] = Child(n, j) \/ (n = node /\ j = i)
      PROVE  listsort_items'[n][j] = Child(n, j)
  <2>1. listsort_items \in [Nodes -> Seq(Strings)]
    BY <1>2 DEF ListsOK
  <2>2. i \in DOMAIN listsort_items[node]
    <3>1. listsort_items[node] \in Seq(Strings)
      BY <1>2, <2>1
    <3> HIDE DEF Strings
    <3> QED BY <1>3, <3>1
  <2> HIDE DEF Strings, Nodes, Child
  <2>3. CASE n = node /\ j = i
    <3>1. listsort_items'[node][i] = Hash
      BY <1>1, <1>2, <2>1, <2>2
    <3> QED BY <1>6, <2>3, <3>1
  <2>4. CASE ~(n = node /\ j = i)
    <3>1. listsort_items'[n][j] = listsort_items[n][j]
      BY <1>1, <1>2, <2>1, <2>4
    <3> QED BY <1>8, <2>4, <3>1
  <2> QED BY <2>3, <2>4
<1>9. CacheOK'
  <2>1. /\ children' = children /\ Expected' = Expected /\ Nodes' = Nodes
    BY <1>1, SameTree
  <2>2. ASSUME NEW n \in Nodes, listsort_cache[n] # <<>>
        PROVE  Hashed(n, listsort_items') /\ InSortOrder(n, listsort_cache[n])
    <3>1. Hashed(n, listsort_items) /\ InSortOrder(n, listsort_cache[n])
      BY <1>4, <2>2 DEF EWalk, CacheOK
    <3>2. Hashed(n, listsort_items')
      <4>1. ASSUME NEW j \in DOMAIN children[n] PROVE listsort_items'[n][j] = Child(n, j)
        <5>1. listsort_items[n][j] = Child(n, j)
          BY <3>1 DEF Hashed
        <5> HIDE DEF Child
        <5> QED BY <1>8, <5>1
      <4> QED BY <4>1 DEF Hashed
    <3> QED BY <3>1, <3>2
  <2>3. \A n : Hashed(n, listsort_items)' = Hashed(n, listsort_items')
    BY <2>1 DEF Hashed, Child
  <2>4. \A n : InSortOrder(n, listsort_cache[n])' = InSortOrder(n, listsort_cache'[n])
    BY <2>1 DEF InSortOrder, Child
  <2> QED BY <1>1, <2>1, <2>2, <2>3, <2>4 DEF CacheOK
<1>10. new \in Seq(Entries) /\ Len(new) = 0
  OBVIOUS
<1> HIDE DEF new
<1>11. \A k : ~(k \in 1 .. Len(new))
  BY <1>10
<1>12. (\E r : IsRank(r) /\ Descends(r))' /\ EntriesOK'
  <2>1. PICK r : IsRank(r) /\ Descends(r)
    BY <1>4 DEF EWalk
  <2>2. EntriesOK
    BY <1>4 DEF EWalk
  <2> HIDE DEF Level, EntryOK, Entries, Then
  <2> QED BY <1>1, <1>10, <1>11, <2>1, <2>2, DescentOnward
<1>13. ItemsHashed'
  <2>1. ASSUME NEW n \in Nodes, NEW j \in DOMAIN children[n],
               \/ listsort_items[n][j] = Child(n, j)
               \/ todo[1].op \in {"item", "digest"} /\ todo[1].node = n /\ todo[1].i = j
        PROVE  Covered(n, j, listsort_items', new, Len(new) + 1)
    <3>1. listsort_items[n][j] = Child(n, j) \/ (n = node /\ j = i)
      <4> HIDE DEF Child
      <4>1. CASE listsort_items[n][j] = Child(n, j)
        BY <4>1
      <4>2. CASE todo[1].node = n /\ todo[1].i = j
        BY <1>2, <4>2 DEF node, i
      <4> QED BY <2>1, <4>1, <4>2
    <3> HIDE DEF Child
    <3> QED BY <1>8, <3>1 DEF Covered
  <2>2. ItemsHashed
    BY <1>4 DEF EWalk
  <2> HIDE DEF Entries, Covered, Child, Then
  <2> QED BY <1>1, <1>10, <1>11, <2>1, <2>2, ItemsOnward
<1>14. (\E h : Chain(h))'
  <2> DEFINE f == [k \in 1 .. 1 |-> g[2]]
  <2>1. f \in [1 .. Len(new) + 1 -> Points] /\ f[1] = g[2] /\ f[Len(new) + 1] = g[2]
    <3>1. Len(new) + 1 = 1
      BY <1>10
    <3> HIDE DEF Points
    <3> QED BY <1>6, <3>1
  <2> HIDE DEF f
  <2>2. f[1] = At(Len(contexts'), contexts'[Len(contexts')])
    <3>1. ctx - 1 \in 1 .. ctx - 1
      BY <1>2, <1>3
    <3> QED BY <1>6, <1>7, <2>1, <3>1
  <2>3. \A j \in 2 .. Len(todo) :
          /\ todo[j].op = "digest" => contexts'[todo[j].ctx - 1] = contexts[todo[j].ctx - 1]
          /\ todo[j].op = "next" =>
               listsort_cache'[todo[j].node] = listsort_cache[todo[j].node]
    <3> TAKE j \in 2 .. Len(todo)
    <3>1. /\ todo[j] \in Entries /\ EntryIn(todo[j], contexts, listsort_items, listsort_cache)
          /\ InOrder(Head(todo), todo[j])
      BY <1>1, HeadOK
    <3>2. todo[j].ctx \in Nat
      BY <3>1 DEF Entries
    <3>3. todo[j].ctx < ctx
      BY <1>1, <3>1 DEF InOrder, ctx
    <3>4. ASSUME todo[j].op = "digest" PROVE todo[j].ctx - 1 \in 1 .. ctx - 1
      BY <1>2, <3>1, <3>2, <3>3, <3>4 DEF EntryIn
    <3> QED BY <1>1, <1>7, <3>4
  <2> HIDE DEF Entries, Points, Leads, At, Then
  <2> QED BY <1>1, <1>5, <1>10, <1>11, <2>1, <2>2, <2>3, ChainOnward
<1> QED BY <1>1, <1>2, <1>9, <1>12, <1>13, <1>14, WalkOn

\* Sorted by the hashes of its items, a list is in order.
LEMMA OrderFound ==
  ASSUME TreeOK, NEW n \in Nodes, Hashed(n, listsort_items),
         Len(listsort_items[n]) = Len(children[n]), NEW order \in Orders(n)
  PROVE  InSortOrder(n, order)
<1> DEFINE m == Len(children[n])
<1>1. m \in Nat /\ DOMAIN children[n] = 1 .. m
  BY ChildrenType
<1>2. /\ order \in SetToSeqs(1 .. m)
      /\ \A i, j \in DOMAIN order :
           i < j => ~Less(listsort_items[n][order[j]], listsort_items[n][order[i]])
  BY DEF Orders
<1> HIDE DEF m
<1>3. IsFiniteSet(1 .. m) /\ Cardinality(1 .. m) = m
  BY <1>1, FS_Interval
<1>4. order \in [1 .. m -> 1 .. m] /\ \A i, j \in 1 .. m : i # j => order[i] # order[j]
  BY <1>2, <1>3 DEF SetToSeqs
<1>5. \A i \in 1 .. m : \E j \in 1 .. m : order[j] = i
  <2>1. order \in Injection(1 .. m, 1 .. m)
    BY <1>4 DEF Injection, IsInjective
  <2>2. order \in Surjection(1 .. m, 1 .. m)
    BY <1>3, <2>1, FS_Injection
  <2> QED BY <2>2 DEF Surjection
<1>6. \A i \in 1 .. m : listsort_items[n][order[i]] = Child(n, order[i])
  <2> TAKE i \in 1 .. m
  <2>1. order[i] \in DOMAIN children[n]
    BY <1>1, <1>4
  <2> QED BY <2>1 DEF Hashed
<1>7. \A i, j \in 1 .. m : i < j => ~Less(Child(n, order[j]), Child(n, order[i]))
  <2> TAKE i, j \in 1 .. m
  <2> HAVE i < j
  <2>1. i \in DOMAIN order /\ j \in DOMAIN order
    BY <1>4
  <2>2. ~Less(listsort_items[n][order[j]], listsort_items[n][order[i]])
    BY <1>2, <2>1
  <2> HIDE DEF Less, Child
  <2> QED BY <1>6, <2>2
<1> QED BY <1>4, <1>5, <1>7 DEF InSortOrder, m

\* All items of a list that is to be sorted are hashed. No list is sorted while it is written.
LEMMA SortListEInv == IInv /\ EInv /\ SortList => EInv'
<1> SUFFICES ASSUME IInv, EInv, SortList PROVE EInv'
  OBVIOUS
<1>1. /\ phase = "walk" /\ phase' = "walk" /\ todo # <<>> /\ Head(todo).op = "sort"
      /\ contexts' = contexts /\ UNCHANGED tree /\ listsort_items' = listsort_items
  BY DEF SortList, Does
<1>2. PICK order \in Orders(node) :
        /\ listsort_cache' = [listsort_cache EXCEPT ![node] = order]
        /\ Then(ItemCalls("next", order))
  BY DEF SortList
<1> DEFINE new == ItemCalls("next", order)
<1>3. /\ node \in Nodes /\ ctx = Len(contexts) /\ Hash \in Texts /\ ctx \in Nat /\ ctx >= 1
      /\ TreeOK /\ RankedTree /\ ListsOK /\ Head(todo) = todo[1] /\ EntryOK(todo[1])
      /\ EntryIn(Head(todo), contexts, listsort_items, listsort_cache)
  BY <1>1, HeadPoint
<1>4. EWalk
  BY <1>1 DEF EInv
<1>5. PICK r : IsRank(r) /\ Descends(r)
  BY <1>4 DEF EWalk
<1>6. PICK g : Chain(g)
  BY <1>4 DEF EWalk
<1>7. /\ todo \in Seq(Entries) /\ Len(todo) \in Nat /\ Len(todo) >= 1 /\ 1 \in 1 .. Len(todo)
      /\ g[2] = At(ctx, After(Head(todo), Hash, listsort_cache))
  BY <1>1, <1>6, ChainHead
<1>8. kind[node] = "sorted" /\ ~Deep(node) /\ Len(listsort_items[node]) = Len(children[node])
  BY <1>1, <1>3 DEF EntryOK, OfList, EntryIn, node
<1>9. Hashed(node, listsort_items)
  <2> SUFFICES ASSUME NEW i \in DOMAIN children[node]
               PROVE  listsort_items[node][i] = Child(node, i)
    BY DEF Hashed
  <2>1. Covered(node, i, listsort_items, todo, 1)
    BY <1>1, <1>3, <1>4, <1>7 DEF EWalk, ItemsHashed, node
  <2>2. \A k : ~(k \in 1 .. 1 - 1)
    OBVIOUS
  <2> QED BY <2>1, <2>2 DEF Covered
<1>10. InSortOrder(node, order)
  BY <1>3, <1>8, <1>9, OrderFound
<1>11. /\ listsort_cache'[node] = order
       /\ \A n \in Nodes : n # node => listsort_cache'[n] = listsort_cache[n]
  <2>1. listsort_cache \in [Nodes -> Seq(Nat)]
    BY <1>3 DEF ListsOK
  <2> HIDE DEF Nodes
  <2> QED BY <1>2, <1>3, <2>1
<1>12. CacheOK'
  <2>1. /\ children' = children /\ Expected' = Expected /\ Nodes' = Nodes
    BY <1>1, SameTree
  <2>2. ASSUME NEW n \in Nodes, listsort_cache'[n] # <<>>
        PROVE  Hashed(n, listsort_items) /\ InSortOrder(n, listsort_cache'[n])
    <3>1. CASE n = node
      BY <1>9, <1>10, <1>11, <3>1
    <3>2. CASE n # node
      <4>1. listsort_cache'[n] = listsort_cache[n]
        BY <1>11, <3>2
      <4> QED BY <1>4, <2>2, <4>1 DEF EWalk, CacheOK
    <3> QED BY <3>1, <3>2
  <2>3. \A n : Hashed(n, listsort_items)' = Hashed(n, listsort_items)
    BY <1>1, <2>1 DEF Hashed, Child
  <2>4. \A n : InSortOrder(n, listsort_cache[n])' = InSortOrder(n, listsort_cache'[n])
    BY <2>1 DEF InSortOrder, Child
  <2> QED BY <2>1, <2>2, <2>3, <2>4 DEF CacheOK
<1> DEFINE cache == listsort_cache'
<1> HIDE DEF cache
<1>13. cache[node] = order
  BY <1>11 DEF cache
<1> HIDE DEF new, EntryOK, Level, After, Entries, Then, Points, Leads, At
<1>14. /\ new \in Seq(Entries)
       /\ \A k \in 1 .. Len(new) :
            new[k].ctx = ctx /\ new[k].op = "next" /\ new[k].node = node /\ EntryOK(new[k])
       /\ \E T \in [1 .. Len(new) + 1 -> Texts] :
            /\ T[1] = Hash /\ T[Len(new) + 1] = After(Head(todo), Hash, listsort_cache)
            /\ \A k \in 1 .. Len(new) : T[k + 1] = After(new[k], T[k], cache)
       /\ \A q : IsRank(q) =>
            /\ \A k \in 1 .. Len(new) : Level(q, new[k]) >= Level(q, todo[1])
            /\ \A k, l \in 1 .. Len(new) : k < l => Level(q, new[l]) <= Level(q, new[k])
  BY <1>1, <1>8, <1>10, <1>13, ItemsInTurn DEF new
<1>15. Then(new)
  BY <1>2 DEF new
<1>16. (\E q : IsRank(q) /\ Descends(q))' /\ EntriesOK'
  <2>1. EntriesOK
    BY <1>4 DEF EWalk
  <2>2. /\ \A k \in 1 .. Len(new) : EntryOK(new[k]) /\ Level(r, new[k]) >= Level(r, todo[1])
        /\ \A k, l \in 1 .. Len(new) : k < l => Level(r, new[l]) <= Level(r, new[k])
    BY <1>5, <1>14
  <2> QED BY <1>1, <1>5, <1>14, <1>15, <2>1, <2>2, DescentOnward
<1>17. ItemsHashed'
  <2>1. ASSUME NEW n \in Nodes, NEW j \in DOMAIN children[n],
               \/ listsort_items[n][j] = Child(n, j)
               \/ todo[1].op \in {"item", "digest"} /\ todo[1].node = n /\ todo[1].i = j
        PROVE  Covered(n, j, listsort_items', new, Len(new) + 1)
    BY <1>1, <1>3, <2>1 DEF Covered
  <2>2. \A l \in 1 .. Len(new) : new[l].op # "sort"
    BY <1>14
  <2>3. ItemsHashed
    BY <1>4 DEF EWalk
  <2> HIDE DEF Covered, Child
  <2> QED BY <1>1, <1>14, <1>15, <2>1, <2>2, <2>3, ItemsOnward
<1>18. (\E h : Chain(h))'
  <2>1. PICK T \in [1 .. Len(new) + 1 -> Texts] :
          /\ T[1] = Hash /\ T[Len(new) + 1] = After(Head(todo), Hash, listsort_cache)
          /\ \A k \in 1 .. Len(new) : T[k + 1] = After(new[k], T[k], cache)
    BY <1>14
  <2> DEFINE f == [k \in 1 .. Len(new) + 1 |-> At(ctx, T[k])]
  <2>2. Len(new) \in Nat
    BY <1>14
  <2>3. f \in [1 .. Len(new) + 1 -> Points]
    BY <1>3 DEF Points, At
  <2>4. f[1] = At(Len(contexts'), contexts'[Len(contexts')])
    <3>1. 1 \in 1 .. Len(new) + 1
      BY <2>2
    <3> QED BY <1>1, <1>3, <2>1, <3>1 DEF Hash
  <2>5. f[Len(new) + 1] = g[2]
    <3>1. Len(new) + 1 \in 1 .. Len(new) + 1
      BY <2>2
    <3> QED BY <1>7, <2>1, <3>1
  <2>6. \A k \in 1 .. Len(new) : Leads(new[k], f[k], f[k + 1], contexts', listsort_cache')
    <3> TAKE k \in 1 .. Len(new)
    <3>1. k \in 1 .. Len(new) + 1 /\ k + 1 \in 1 .. Len(new) + 1
      BY <2>2
    <3>2. f[k] = At(ctx, T[k]) /\ f[k + 1] = At(ctx, T[k + 1])
      BY <3>1
    <3>3. f[k].ctx = ctx /\ f[k].hash = T[k]
      BY <3>2 DEF At
    <3>4. new[k].ctx = ctx /\ new[k].op = "next" /\ T[k + 1] = After(new[k], T[k], cache)
      BY <1>14, <2>1
    <3> HIDE DEF f
    <3> QED BY <3>2, <3>3, <3>4 DEF Leads, cache
  <2>7. \A j \in 2 .. Len(todo) :
          /\ todo[j].op = "digest" => contexts'[todo[j].ctx - 1] = contexts[todo[j].ctx - 1]
          /\ todo[j].op = "next" =>
               listsort_cache'[todo[j].node] = listsort_cache[todo[j].node]
    <3> TAKE j \in 2 .. Len(todo)
    <3>1. todo[j] \in Entries
      BY <1>1, HeadOK
    <3>2. todo[j].node \in Nodes
      BY <3>1 DEF Entries
    <3>3. ASSUME todo[j].op = "next" PROVE todo[j].node # node
      <4>1. Level(r, todo[j]) <= Level(r, todo[1])
        <5>1. j \in 1 .. Len(todo) /\ 1 < j
          BY <1>7
        <5> QED BY <1>5, <1>7, <5>1 DEF Descends
      <4>2. Level(r, todo[1]) = r[node] /\ r[node] \in Nat
        <5>1. r[node] \in Nat
          BY <1>3, <1>5 DEF IsRank
        <5> QED BY <1>1, <1>3, <5>1 DEF Level, InItem, node
      <4>3. Level(r, todo[j]) = r[todo[j].node] + 1
        BY <3>3 DEF Level, InItem
      <4> QED BY <4>1, <4>2, <4>3
    <3> QED BY <1>1, <1>11, <3>2, <3>3
  <2> HIDE DEF f
  <2> QED BY <1>1, <1>6, <1>14, <1>15, <2>3, <2>4, <2>5, <2>6, <2>7, ChainOnward
<1> QED BY <1>1, <1>3, <1>12, <1>16, <1>17, <1>18, WalkOn

\* At the end nothing is left to do.
LEMMA DigestEInv == IInv /\ EInv /\ Digest => EInv'
<1> SUFFICES ASSUME IInv, EInv, Digest PROVE EInv'
  OBVIOUS
<1>1. /\ phase = "walk" /\ phase' = "done" /\ todo = <<>> /\ todo' = todo
      /\ UNCHANGED tree /\ contexts' = contexts
      /\ listsort_items' = listsort_items /\ listsort_cache' = listsort_cache
  BY DEF Digest
<1>2. /\ kind' = kind /\ children' = children /\ parent' = parent /\ Nodes' = Nodes
      /\ Depth' = Depth /\ Expected' = Expected
  BY <1>1, SameTree
<1>3. RankedTree'
  BY <1>2 DEF EInv, RankedTree, KindsOK, ParentsOK, IsRank
<1>4. EWalk /\ CacheOK'
  BY <1>1, CacheKept DEF EInv, EWalk
<1>5. ItemsHashed'
  BY <1>1, <1>2, <1>4 DEF EWalk, ItemsHashed, Covered, Child
<1>6. EntriesOK'
  BY <1>1, <1>2, <1>4 DEF EWalk, EntriesOK, EntryOK, Deep
<1>7. (\E g : Chain(g))'
  <2>1. PICK g : Chain(g)
    BY <1>4 DEF EWalk
  <2>2. Chain(g)'
    BY <1>1, <1>2, <2>1 DEF Chain, Leads, After, Child, Named, OnlyNull, At, Points
  <2> QED BY <2>2
<1>8. (\E r : IsRank(r) /\ Descends(r))'
  <2>1. PICK r : IsRank(r) /\ Descends(r)
    BY <1>4 DEF EWalk
  <2>2. IsRank(r)' /\ Descends(r)'
    BY <1>1, <1>2, <2>1 DEF IsRank, Descends, Level
  <2> QED BY <2>2
<1> QED BY <1>1, <1>3, <1>4, <1>5, <1>6, <1>7, <1>8 DEF EInv, EWalk

\* The first thing to do is the root, and it leads from nothing to what is expected.
LEMMA ParsedEInv == IInv /\ EInv /\ Parsed => EInv'
<1> SUFFICES ASSUME IInv, EInv, Parsed PROVE EInv'
  OBVIOUS
<1>1. /\ phase = "parse" /\ phase' = "walk" /\ todo' = <<Call("node", 1, 0, 1)>> /\ contexts' = contexts
      /\ UNCHANGED tree /\ listsort_cache' = [n \in Nodes |-> <<>>]
  BY DEF Parsed
<1>2. RankedTree /\ contexts = <<<<>>>> /\ TreeOK
  BY <1>1 DEF EInv, IInv
<1>3. /\ kind' = kind /\ children' = children /\ parent' = parent /\ Nodes' = Nodes
      /\ Depth' = Depth /\ Expected' = Expected
  BY <1>1, SameTree
<1>4. 1 \in Nodes /\ Expected[1] \in Texts
  <2>1. 1 \in Nodes
    BY <1>2 DEF TreeOK, Nodes
  <2> QED BY <1>2, <2>1, ExpectedIs
<1>5. PICK e : todo' = <<e>> /\ e.op = "node" /\ e.node = 1 /\ e.ctx = 1
  BY <1>1 DEF Call
<1>6. Len(todo') = 1 /\ todo'[1] = e /\ \A k \in 1 .. Len(todo') : k = 1
  BY <1>5
<1>7. CacheOK'
  <2>1. \A n \in Nodes : listsort_cache'[n] = <<>>
    BY <1>1
  <2> QED BY <1>3, <2>1 DEF CacheOK
<1>8. ItemsHashed' /\ EntriesOK'
  <2>1. \A k \in 1 .. Len(todo') : todo'[k].op = "node"
    BY <1>5, <1>6
  <2> QED BY <2>1 DEF ItemsHashed, EntriesOK, EntryOK, OfList, InItem
<1>9. (\E g : Chain(g))'
  <2>1. PICK x \in Texts : x = Expected[1]
    BY <1>4
  <2>2. PICK g \in [1 .. 2 -> Points] : g[1] = At(1, <<>>) /\ g[2] = At(1, x)
    <3> DEFINE f == [k \in 1 .. 2 |-> At(1, IF k = 1 THEN <<>> ELSE x)]
    <3>1. <<>> \in Texts
      BY DEF Texts
    <3>2. f \in [1 .. 2 -> Points] /\ f[1] = At(1, <<>>) /\ f[2] = At(1, x)
      BY <2>1, <3>1 DEF Points, At
    <3> QED BY <3>2
  <2>3. Len(contexts') = 1 /\ contexts'[1] = <<>>
    BY <1>1, <1>2
  <2>4. Leads(e, g[1], g[2], contexts, listsort_cache)'
    <3>1. g[1].ctx = 1 /\ g[1].hash = <<>> /\ g[2] = [ctx |-> 1, hash |-> x]
      BY <2>2 DEF At
    <3>2. <<>> \o Expected'[1] = x
      <4> HIDE DEF Texts
      <4> QED BY <1>3, <1>4, <2>1, Concat
    <3>3. e.ctx = g[1].ctx /\ e.op # "digest"
      BY <1>5, <3>1
    <3>4. g[2] = [ctx |-> g[1].ctx, hash |-> g[1].hash \o Expected'[1]]
      BY <3>1, <3>2
    <3> QED BY <1>5, <3>3, <3>4 DEF Leads, At, After
  <2>5. \A k \in 1 .. Len(todo') : Leads(todo[k], g[k], g[k + 1], contexts, listsort_cache)'
    <3> HIDE DEF Leads
    <3> QED BY <1>6, <2>4
  <2>6. g \in [1 .. Len(todo') + 1 -> Points]
    <3>1. Len(todo') + 1 = 2
      BY <1>6
    <3> HIDE DEF Points
    <3> QED BY <2>2, <3>1
  <2>7. g[1] = At(Len(contexts'), contexts'[Len(contexts')]) /\ g[Len(todo') + 1] = At(1, x)
    <3>1. Len(todo') + 1 = 2
      BY <1>6
    <3> QED BY <2>2, <2>3, <3>1
  <2>8. Chain(g)'
    <3> HIDE DEF Leads
    <3>1. g[Len(todo') + 1] = At(1, Expected'[1])
      BY <1>3, <2>1, <2>7
    <3> QED BY <2>5, <2>6, <2>7, <3>1 DEF Chain, At, Points
  <2> QED BY <2>8
<1>10. (\E r : IsRank(r) /\ Descends(r))'
  <2>1. PICK r : IsRank(r)
    BY <1>2 DEF RankedTree
  <2>2. IsRank(r)'
    BY <1>3, <2>1 DEF IsRank
  <2>3. Descends(r)'
    <3>1. \A k, l \in 1 .. Len(todo') : ~(k < l)
      BY <1>6
    <3> QED BY <3>1 DEF Descends
  <2> QED BY <2>2, <2>3
<1> QED BY <1>1, <1>2, <1>7, <1>8, <1>9, <1>10, WalkOn

\* The recursion of Ancestors ends, as parents come before their children.
LEMMA AncestorsType ==
  ASSUME TreeOK, ParentsOK
  PROVE  \A n \in Nodes : Ancestors[n] \subseteq Nodes
<1>1. /\ Len(kind) \in Nat /\ Len(kind) >= 1
      /\ \A n \in Nodes \ {1} : parent[n] \in 1 .. n - 1
  BY DEF TreeOK, ParentsOK
<1> DEFINE M == Len(kind)
<1> DEFINE Solves(f, k) ==
      /\ f = [n \in 1 .. k |-> f[n]]
      /\ \A n \in 1 .. k : f[n] = {n} \cup (IF n = 1 THEN {} ELSE f[parent[n]])
<1>2. \A k \in 0 .. M : \E f : Solves(f, k)
  <2> DEFINE T == {k \in 0 .. M : ~ \E f : Solves(f, k)}
  <2>1. SUFFICES ASSUME T # {} PROVE FALSE
    OBVIOUS
  <2>2. PICK k \in T : \A l \in T : k <= l
    <3>1. T \in SUBSET Nat
      OBVIOUS
    <3> HIDE DEF T
    <3> QED BY <2>1, <3>1, LeastNat
  <2>3. k # 0
    <3> DEFINE f == [n \in 1 .. 0 |-> {}]
    <3>1. Solves(f, 0)
      OBVIOUS
    <3> HIDE DEF Solves, f
    <3> QED BY <2>2, <3>1
  <2>4. k \in 0 .. M /\ k \in Nat /\ k - 1 \in 0 .. M /\ ~(k <= k - 1)
    BY <1>1, <2>2, <2>3
  <2>5. PICK f : Solves(f, k - 1)
    <3>1. k - 1 \notin T
      <4> HIDE DEF T
      <4> QED BY <2>2, <2>4
    <3> HIDE DEF Solves
    <3> QED BY <2>4, <3>1
  <2> DEFINE g == [n \in 1 .. k |-> IF n = k THEN {n} \cup (IF n = 1 THEN {} ELSE f[parent[n]])
                                    ELSE f[n]]
  <2>6. ASSUME NEW n \in 1 .. k
        PROVE  g[n] = {n} \cup (IF n = 1 THEN {} ELSE g[parent[n]])
    <3>1. n = 1 \/ (parent[n] \in 1 .. k /\ parent[n] \in 1 .. k - 1 /\ parent[n] # k)
      <4>1. n \in Nodes
        BY <1>1, <2>4 DEF Nodes
      <4>2. n # 1 => parent[n] \in 1 .. n - 1
        BY <1>1, <4>1
      <4> QED BY <2>4, <4>2
    <3>2. n = 1 \/ g[parent[n]] = f[parent[n]]
      BY <3>1
    <3>3. CASE n = k
      <4>1. g[n] = {n} \cup (IF n = 1 THEN {} ELSE f[parent[n]])
        BY <3>3
      <4> HIDE DEF g
      <4> QED BY <3>2, <4>1
    <3>4. CASE n # k
      <4>1. n \in 1 .. k - 1
        BY <2>4, <3>4
      <4>2. g[n] = f[n] /\ f[n] = {n} \cup (IF n = 1 THEN {} ELSE f[parent[n]])
        BY <2>5, <3>4, <4>1
      <4> HIDE DEF g
      <4> QED BY <3>2, <4>2
    <3> QED BY <3>3, <3>4
  <2>7. Solves(g, k)
    <3>1. g = [n \in 1 .. k |-> g[n]]
      OBVIOUS
    <3> HIDE DEF g
    <3> QED BY <2>6, <3>1
  <2> HIDE DEF Solves, g
  <2> QED BY <2>2, <2>7
<1>3. PICK f : Solves(f, M)
  <2>1. M \in 0 .. M
    BY <1>1
  <2> HIDE DEF Solves
  <2> QED BY <1>2, <2>1
<1>4. f = [n \in Nodes |-> {n} \cup (IF n = 1 THEN {} ELSE f[parent[n]])]
  <2>1. /\ f = [n \in Nodes |-> f[n]]
        /\ \A n \in Nodes : f[n] = {n} \cup (IF n = 1 THEN {} ELSE f[parent[n]])
    BY <1>3 DEF Nodes
  <2> QED BY <2>1
<1>5. Ancestors = [n \in Nodes |-> {n} \cup (IF n = 1 THEN {} ELSE Ancestors[parent[n]])]
  BY <1>4 DEF Ancestors
<1>6. \A n \in Nodes : Ancestors[n] = {n} \cup (IF n = 1 THEN {} ELSE Ancestors[parent[n]])
  BY <1>5
<1> DEFINE T == {n \in Nodes : ~(Ancestors[n] \subseteq Nodes)}
<1>7. T = {}
  <2>1. SUFFICES ASSUME T # {} PROVE FALSE
    OBVIOUS
  <2>2. PICK n \in T : \A m \in T : n <= m
    <3>1. T \in SUBSET Nat
      BY DEF Nodes
    <3> HIDE DEF T
    <3> QED BY <2>1, <3>1, LeastNat
  <2>3. n = 1 \/ (parent[n] \in Nodes /\ ~(n <= parent[n]))
    BY <1>1, <2>2 DEF Nodes
  <2>4. n = 1 \/ Ancestors[parent[n]] \subseteq Nodes
    BY <2>2, <2>3
  <2> QED BY <1>6, <2>2, <2>4
<1> QED BY <1>7

\* A node of kind k is added, as the last child of p, with the children c of another or none.
Adds(N, k, p, c) ==
  /\ p \in Nodes /\ FitsIn(k, p) /\ N = Len(kind) + 1
  /\ N \in Nat /\ N \notin Nodes /\ N # 1 /\ N # p
  /\ Nodes' = Nodes \cup {N} /\ \A n \in Nodes : n \in 1 .. N - 1 /\ n # N
  /\ Nodes' = 1 .. N /\ Len(kind') = N /\ 1 \in Nodes
  /\ kind'[N] = k /\ \A n \in Nodes : kind'[n] = kind[n]
  /\ parent' \in Seq(Nat) /\ Len(parent') = N /\ parent'[N] = p
  /\ \A n \in Nodes : parent'[n] = parent[n]
  /\ children'[N] = c /\ \A n \in Nodes : n # p => children'[n] = children[n]
  /\ \/ c = <<>>
     \/ /\ k = "again"
        /\ \E m \in Nodes : c = children[m] /\ kind[m] = "struct" /\ parent[m] = p
  /\ N \in Range(children'[p])
  /\ \A n \in Nodes : \A i \in DOMAIN children[n] :
       i \in DOMAIN children'[n] /\ children'[n][i] = children[n][i] /\ children[n][i] \in Nodes
  /\ \A n \in Nodes : \A i \in DOMAIN children'[n] :
       \/ i \in DOMAIN children[n] /\ children'[n][i] = children[n][i]
       \/ n = p /\ i = Len(children[p]) + 1 /\ children'[n][i] = N

LEMMA TreeGrows ==
  ASSUME IInv, EInv, ParseNode
  PROVE  \E N, k, p, c : Adds(N, k, p, c)
<1> DEFINE N == Len(kind) + 1
<1>1. phase = "parse" /\ phase' = "parse" /\ contexts' = contexts
  BY DEF ParseNode
<1>2. PICK k \in Kinds, p \in Ancestors[Len(kind)] :
        /\ FitsIn(k, p) /\ kind' = Append(kind, k) /\ parent' = Append(parent, p)
        /\ \E c \in IF k = "again" THEN Shared(p) ELSE {<<>>} :
             children' = Append([children EXCEPT ![p] = Append(@, Len(kind) + 1)], c)
  BY DEF ParseNode
<1>3. PICK c \in IF k = "again" THEN Shared(p) ELSE {<<>>} :
        children' = Append([children EXCEPT ![p] = Append(@, Len(kind) + 1)], c)
  BY <1>2
<1>4. /\ TreeOK /\ KindsOK /\ ParentsOK /\ contexts = <<<<>>>>
      /\ Len(kind) \in Nat /\ Len(kind) >= 1 /\ kind \in Seq(Kinds)
  BY <1>1 DEF IInv, EInv, RankedTree, TreeOK
<1>6. p \in Nodes
  <2>1. Len(kind) \in Nodes
    BY <1>4 DEF Nodes
  <2> QED BY <1>2, <1>4, <2>1, AncestorsType
<1> HIDE DEF N
<1>7. /\ N \in Nat /\ N \notin Nodes /\ N # 1 /\ N # p
      /\ Nodes' = Nodes \cup {N} /\ \A n \in Nodes : n \in 1 .. N - 1 /\ n # N
      /\ Nodes' = 1 .. N /\ Len(kind') = N /\ 1 \in Nodes
  <2>1. Len(kind') = N
    BY <1>2, <1>4 DEF N
  <2>2. N = Len(kind) + 1
    BY DEF N
  <2>3. p \in 1 .. Len(kind) /\ Nodes = 1 .. Len(kind) /\ Nodes' = 1 .. N
    BY <1>6, <2>1 DEF Nodes
  <2> QED BY <1>4, <2>1, <2>2, <2>3
<1>8. kind'[N] = k /\ \A n \in Nodes : kind'[n] = kind[n]
  <2>1. \A n \in 1 .. Len(kind) : kind'[n] = kind[n]
    BY <1>2, <1>4
  <2>2. kind'[Len(kind) + 1] = k
    BY <1>2, <1>4
  <2> QED BY <2>1, <2>2 DEF N, Nodes
<1>9. /\ parent' \in Seq(Nat) /\ Len(parent') = N /\ parent'[N] = p
      /\ \A n \in Nodes : parent'[n] = parent[n]
  <2>1. parent \in Seq(Nat) /\ Len(parent) = Len(kind) /\ p \in Nat
    BY <1>4, <1>6 DEF ParentsOK, Nodes
  <2>2. parent' \in Seq(Nat) /\ Len(parent') = Len(kind) + 1 /\ parent'[Len(kind) + 1] = p
    BY <1>2, <2>1
  <2>3. \A n \in 1 .. Len(kind) : parent'[n] = parent[n]
    BY <1>2, <2>1
  <2> QED BY <2>2, <2>3 DEF N, Nodes
<1>10. /\ \A n \in Nodes : children[n] \in Seq(Nodes)
       /\ children \in Seq(Seq(Nodes)) /\ Len(children) = Len(kind)
  BY <1>4 DEF TreeOK, Nodes
<1>11. /\ children'[N] = c /\ children'[p] = Append(children[p], N)
       /\ \A n \in Nodes : n # p => children'[n] = children[n]
  <2> DEFINE x == Append(children[p], Len(kind) + 1)
  <2> DEFINE ch == [children EXCEPT ![p] = x]
  <2>1. children' = Append(ch, c) /\ DOMAIN children = 1 .. Len(kind)
    BY <1>3, <1>10
  <2> HIDE DEF x
  <2>2. /\ DOMAIN ch = 1 .. Len(kind) /\ ch[p] = x
        /\ \A n \in 1 .. Len(kind) : n # p => ch[n] = children[n]
    BY <1>6, <2>1 DEF Nodes
  <2>3. Len(ch) = Len(kind)
    BY <1>4, <2>2
  <2> HIDE DEF ch
  <2>4. /\ children'[Len(kind) + 1] = c /\ \A n \in 1 .. Len(kind) : children'[n] = ch[n]
    <3> DEFINE T == {ch[i] : i \in 1 .. Len(kind)} \cup {c}
    <3>1. c \in T /\ \A i \in 1 .. Len(kind) : ch[i] \in T
      OBVIOUS
    <3>2. ch = [i \in 1 .. Len(kind) |-> ch[i]]
      BY <2>2 DEF ch
    <3> HIDE DEF T
    <3>3. ch \in Seq(T)
      BY <1>4, <3>1, <3>2
    <3> QED BY <2>1, <2>3, <3>1, <3>3
  <2> QED BY <1>6, <2>2, <2>4 DEF x, N, Nodes
\* The new node shares its children with a node in front of it, or has none.
<1>12. \/ c = <<>>
       \/ /\ k = "again"
          /\ \E m \in Nodes : c = children[m] /\ kind[m] = "struct" /\ parent[m] = p
  BY <1>3 DEF Shared
\* The children of the nodes there were, and the new one.
<1>14. /\ DOMAIN children'[p] = DOMAIN children[p] \cup {Len(children[p]) + 1}
       /\ children'[p][Len(children[p]) + 1] = N
       /\ \A i \in DOMAIN children[p] : children'[p][i] = children[p][i]
  <2>1. children[p] \in Seq(Nodes)
    BY <1>6, <1>10
  <2> HIDE DEF Nodes
  <2>2. Append(children[p], N) =
          [i \in 1 .. Len(children[p]) + 1 |->
             IF i = Len(children[p]) + 1 THEN N ELSE children[p][i]]
    BY DEF Append
  <2> DEFINE s == children[p]
  <2>3. DOMAIN s = 1 .. Len(s) /\ Len(s) \in Nat
    BY <2>1
  <2> HIDE DEF s
  <2>4. /\ 1 .. Len(s) + 1 = (1 .. Len(s)) \cup {Len(s) + 1}
        /\ \A i \in 1 .. Len(s) : i # Len(s) + 1 /\ i \in 1 .. Len(s) + 1
    BY <2>3
  <2> QED BY <1>11, <2>2, <2>3, <2>4 DEF s
<1>15. ASSUME NEW n \in Nodes, NEW i \in DOMAIN children'[n]
       PROVE  \/ i \in DOMAIN children[n] /\ children'[n][i] = children[n][i]
              \/ n = p /\ i = Len(children[p]) + 1 /\ children'[n][i] = N
  <2>1. CASE n = p
    BY <1>14, <1>15, <2>1
  <2>2. CASE n # p
    BY <1>11, <1>15, <2>2
  <2> QED BY <2>1, <2>2
<1>16. \A n \in Nodes : \A i \in DOMAIN children[n] : children[n][i] \in Nodes
  BY <1>10
<1>17. N \in Range(children'[p])
  BY <1>14 DEF Range
<1>18. ASSUME NEW n \in Nodes, NEW i \in DOMAIN children[n]
       PROVE  /\ i \in DOMAIN children'[n] /\ children'[n][i] = children[n][i]
              /\ children[n][i] \in Nodes
  <2>1. CASE n = p
    BY <1>14, <1>16, <1>18, <2>1
  <2>2. CASE n # p
    BY <1>11, <1>16, <1>18, <2>2
  <2> QED BY <2>1, <2>2
<1>19. Adds(N, k, p, c)
  BY <1>2, <1>6, <1>7, <1>8, <1>9, <1>11, <1>12, <1>15, <1>17, <1>18 DEF Adds, N
<1> QED BY <1>19

\* A node is added: the tree stays one whose nodes have a rank.
LEMMA ParseNodeEInv == IInv /\ EInv /\ ParseNode => EInv'
<1> SUFFICES ASSUME IInv, EInv, ParseNode PROVE EInv'
  OBVIOUS
<1>1. phase = "parse" /\ phase' = "parse" /\ contexts' = contexts
  BY DEF ParseNode
<1>2. PICK N, k, p, c : Adds(N, k, p, c)
  BY TreeGrows
<1>4. /\ TreeOK /\ KindsOK /\ ParentsOK /\ contexts = <<<<>>>>
      /\ Len(kind) \in Nat /\ Len(kind) >= 1 /\ kind \in Seq(Kinds)
  BY <1>1 DEF IInv, EInv, RankedTree, TreeOK
<1>5. PICK r : IsRank(r)
  BY DEF EInv, RankedTree
<1>6. p \in Nodes /\ FitsIn(k, p)
  BY <1>2 DEF Adds
<1>7. /\ N \in Nat /\ N \notin Nodes /\ N # 1 /\ N # p
      /\ Nodes' = Nodes \cup {N} /\ \A n \in Nodes : n \in 1 .. N - 1 /\ n # N
      /\ Nodes' = 1 .. N /\ Len(kind') = N /\ 1 \in Nodes /\ N = Len(kind) + 1
  BY <1>2 DEF Adds
<1>8. kind'[N] = k /\ \A n \in Nodes : kind'[n] = kind[n]
  BY <1>2 DEF Adds
<1>9. /\ parent' \in Seq(Nat) /\ Len(parent') = N /\ parent'[N] = p
      /\ \A n \in Nodes : parent'[n] = parent[n]
  BY <1>2 DEF Adds
<1>10. \A n \in Nodes : children[n] \in Seq(Nodes)
  BY <1>4, ChildrenType
<1>11. children'[N] = c /\ \A n \in Nodes : n # p => children'[n] = children[n]
  BY <1>2 DEF Adds
\* The new node shares its children with a node in front of it, or has none.
<1>12. \/ c = <<>>
       \/ /\ k = "again"
          /\ \E m \in Nodes : c = children[m] /\ kind[m] = "struct" /\ parent[m] = p
  BY <1>2 DEF Adds
<1>13. /\ c \in Seq(Nodes)
       /\ \A i \in DOMAIN c : kind[c[i]] # "null" /\ r[c[i]] = r[p] + 2
  <2>1. CASE c = <<>>
    BY <2>1
  <2>2. CASE c # <<>>
    <3>1. PICK m \in Nodes : c = children[m] /\ kind[m] = "struct" /\ parent[m] = p
      BY <1>12, <2>2
    <3>2. m # 1
      BY <1>4, <1>6, <3>1 DEF ParentsOK, Nodes
    <3>3. r[m] = r[p] + 1 /\ r[p] \in Nat
      BY <1>5, <1>6, <3>1, <3>2 DEF IsRank
    <3>4. \A i \in DOMAIN c : kind[c[i]] # "null" /\ r[c[i]] = r[m] + 1
      BY <1>4, <1>5, <3>1 DEF KindsOK, IsRank
    <3> QED BY <1>10, <3>1, <3>3, <3>4
  <2> QED BY <2>1, <2>2
<1>15. \A n \in Nodes : \A i \in DOMAIN children'[n] :
         \/ i \in DOMAIN children[n] /\ children'[n][i] = children[n][i]
         \/ n = p /\ children'[n][i] = N
  BY <1>2 DEF Adds
<1>16. \A n \in Nodes : \A i \in DOMAIN children[n] : children[n][i] \in Nodes
  BY <1>10
<1>17. \A i \in DOMAIN c : c[i] \in Nodes
  BY <1>13
<1>18. KindsOK'
  <2>1. ASSUME NEW n \in Nodes', children'[n] # <<>>
        PROVE  kind'[n] \in Lists \cup {"struct", "again"}
    <3>1. CASE n = N
      BY <1>8, <1>11, <1>12, <2>1, <3>1
    <3>2. CASE n = p
      BY <1>2, <1>6, <1>8, <3>2 DEF FitsIn
    <3>3. CASE n # N /\ n # p
      BY <1>4, <1>7, <1>8, <1>11, <2>1, <3>3 DEF KindsOK
    <3> QED BY <3>1, <3>2, <3>3
  <2>2. ASSUME NEW n \in Nodes', kind'[n] \in {"struct", "again"}, NEW i \in DOMAIN children'[n]
        PROVE  kind'[children'[n][i]] # "null"
    <3>1. CASE n = N
      BY <1>8, <1>11, <1>13, <1>17, <2>2, <3>1
    <3>2. CASE n # N
      <4>1. n \in Nodes /\ kind[n] \in {"struct", "again"}
        BY <1>7, <1>8, <2>2, <3>2
      <4>2. CASE i \in DOMAIN children[n] /\ children'[n][i] = children[n][i]
        BY <1>4, <1>8, <1>16, <4>1, <4>2 DEF KindsOK
      <4>3. CASE n = p /\ children'[n][i] = N
        BY <1>6, <1>8, <4>1, <4>3 DEF FitsIn, Lists
      <4> QED BY <1>15, <2>2, <4>1, <4>2, <4>3
    <3> QED BY <3>1, <3>2
  <2> QED BY <2>1, <2>2 DEF KindsOK, Lists
<1>19. ParentsOK'
  <2>1. parent'[1] = 0
    BY <1>4, <1>7, <1>9 DEF ParentsOK
  <2>2. ASSUME NEW n \in Nodes' \ {1} PROVE parent'[n] \in 1 .. n - 1
    <3>1. CASE n = N
      BY <1>6, <1>7, <1>9, <3>1
    <3>2. CASE n # N
      BY <1>4, <1>7, <1>9, <2>2, <3>2 DEF ParentsOK
    <3> QED BY <3>1, <3>2
  <2> QED BY <1>7, <1>9, <2>1, <2>2 DEF ParentsOK
<1>20. (\E q : IsRank(q))'
  <2>1. PICK q : q = [n \in Nodes' |-> IF n = N THEN r[p] + 1 ELSE r[n]]
    OBVIOUS
  <2>2. /\ q[N] = r[p] + 1 /\ \A n \in Nodes : q[n] = r[n]
    BY <1>7, <2>1
  <2>3. \A n \in Nodes : r[n] \in 0 .. Len(kind)
    BY <1>5 DEF IsRank
  <2>4. q \in [Nodes' -> 0 .. N]
    <3>1. \A n \in Nodes' : q[n] \in 0 .. N
      <4>1. N = Len(kind) + 1
        BY <1>7
      <4>2. q[N] \in 0 .. N
        BY <1>4, <1>6, <2>2, <2>3, <4>1
      <4>3. \A n \in Nodes : q[n] \in 0 .. N
        BY <1>4, <2>2, <2>3, <4>1
      <4> QED BY <1>7, <4>2, <4>3
    <3> QED BY <2>1, <3>1
  <2>5. ASSUME NEW n \in Nodes', NEW i \in DOMAIN children'[n]
        PROVE  q[children'[n][i]] = q[n] + 1
    <3>1. CASE n = N
      <4>1. children'[n] = c /\ i \in DOMAIN c
        BY <1>11, <2>5, <3>1
      <4>2. q[c[i]] = r[c[i]] /\ r[c[i]] = r[p] + 2
        BY <1>13, <1>17, <2>2, <4>1
      <4> QED BY <1>6, <2>2, <2>3, <3>1, <4>1, <4>2
    <3>2. CASE n # N
      <4>1. n \in Nodes
        BY <1>7, <3>2
      <4>2. CASE i \in DOMAIN children[n] /\ children'[n][i] = children[n][i]
        BY <1>5, <1>16, <2>2, <4>1, <4>2 DEF IsRank
      <4>3. CASE n = p /\ children'[n][i] = N
        BY <1>6, <2>2, <4>3
      <4> QED BY <1>15, <2>5, <4>1, <4>2, <4>3
    <3> QED BY <3>1, <3>2
  <2>6. ASSUME NEW n \in Nodes' \ {1} PROVE q[n] = q[parent'[n]] + 1
    <3>1. CASE n = N
      BY <1>6, <1>9, <2>2, <3>1
    <3>2. CASE n # N
      <4>1. n \in Nodes \ {1}
        BY <1>7, <3>2
      <4>2. parent[n] \in Nodes
        BY <1>4, <4>1 DEF ParentsOK, Nodes
      <4>3. r[n] = r[parent[n]] + 1
        BY <1>5, <4>1 DEF IsRank
      <4> QED BY <1>9, <2>2, <4>1, <4>2, <4>3
    <3> QED BY <3>1, <3>2
  <2>7. IsRank(q)'
    BY <1>7, <2>4, <2>5, <2>6 DEF IsRank
  <2> QED BY <2>7
<1> QED BY <1>1, <1>4, <1>18, <1>19, <1>20 DEF EInv, RankedTree

\* The tree of a single node.
LEMMA InitEInv == Init => EInv
<1> SUFFICES ASSUME Init PROVE EInv
  OBVIOUS
<1>1. /\ kind = <<"struct">> /\ parent = <<0>> /\ children = <<<<>>>> /\ phase = "parse"
      /\ contexts = <<<<>>>>
  BY DEF Init
<1>2. Len(kind) = 1 /\ kind[1] = "struct" /\ Nodes = {1} /\ children[1] = <<>>
  BY <1>1 DEF Nodes
<1>3. KindsOK
  BY <1>2 DEF KindsOK
<1>4. ParentsOK
  <2>1. parent \in Seq(Nat) /\ Len(parent) = 1 /\ parent[1] = 0
    BY <1>1
  <2> QED BY <1>2, <2>1 DEF ParentsOK
<1>5. \E r : IsRank(r)
  <2>1. PICK r : r = [n \in Nodes |-> 0]
    OBVIOUS
  <2>2. r \in [Nodes -> 0 .. Len(kind)]
    BY <1>2, <2>1
  <2>3. IsRank(r)
    BY <1>2, <2>2 DEF IsRank
  <2> QED BY <2>3
<1> QED BY <1>1, <1>3, <1>4, <1>5 DEF EInv, RankedTree

LEMMA StutterEInv == IInv /\ EInv /\ UNCHANGED vars => EInv'
<1> SUFFICES ASSUME IInv, EInv, UNCHANGED vars PROVE EInv'
  OBVIOUS
<1>1. /\ UNCHANGED tree /\ todo' = todo /\ contexts' = contexts /\ phase' = phase
      /\ listsort_items' = listsort_items /\ listsort_cache' = listsort_cache
  BY DEF vars
<1>2. /\ kind' = kind /\ children' = children /\ parent' = parent /\ Nodes' = Nodes
      /\ Depth' = Depth /\ Expected' = Expected
  BY <1>1, SameTree
<1>3. RankedTree'
  BY <1>2 DEF EInv, RankedTree, KindsOK, ParentsOK, IsRank
<1>4. ASSUME EWalk PROVE EWalk'
  <2>1. CacheOK'
    BY <1>1, <1>4, CacheKept DEF EWalk
  <2>2. ItemsHashed'
    BY <1>1, <1>2, <1>4 DEF EWalk, ItemsHashed, Covered, Child
  <2>3. EntriesOK'
    BY <1>1, <1>2, <1>4 DEF EWalk, EntriesOK, EntryOK, Deep
  <2>4. (\E g : Chain(g))'
    <3>1. PICK g : Chain(g)
      BY <1>4 DEF EWalk
    <3>2. \A k \in 1 .. Len(todo) : Leads(todo[k], g[k], g[k + 1], contexts, listsort_cache)
      BY <3>1 DEF Chain
    <3>3. \A k \in 1 .. Len(todo') : Leads(todo[k], g[k], g[k + 1], contexts, listsort_cache)'
      BY <1>1, <1>2, <3>2, ZenonT(40) DEF Leads, After, Child, Named, OnlyNull, At
    <3> HIDE DEF Leads
    <3>4. Chain(g)'
      BY <1>1, <1>2, <3>1, <3>3 DEF Chain, At, Points
    <3> QED BY <3>4
  <2>5. (\E r : IsRank(r) /\ Descends(r))'
    <3>1. PICK r : IsRank(r) /\ Descends(r)
      BY <1>4 DEF EWalk
    <3>2. IsRank(r)' /\ Descends(r)'
      BY <1>1, <1>2, <3>1 DEF IsRank, Descends, Level
    <3> QED BY <3>2
  <2> QED BY <2>1, <2>2, <2>3, <2>4, <2>5 DEF EWalk
<1> QED BY <1>1, <1>3, <1>4 DEF EInv

LEMMA NextEInv == IInv /\ EInv /\ [Next]_vars => EInv'
BY ParseNodeEInv, ParsedEInv, NothingEInv, ValueEInv, StructEInv, PlainListEInv, FieldEInv,
   EndedEInv, CachedListEInv, NewListEInv, InitContextEInv, FreeContextEInv, SortListEInv,
   NextItemEInv, DigestEInv, StutterEInv DEF Next

-----------------------------------------------------------------------------
\* The stack of calls, the contexts and the lists stay as described above, for trees of any
\* size, any depth limit and any way equal items are sorted.
THEOREM Invariant == Spec => []IInv
BY InitIInv, NextIInv, PTL DEF Spec

\* _fingerprintString and the code that takes a field name back keep the printed tokens and
\* the first context in step, whatever nested contexts do in between.
THEOREM TokensAgreeTheorem == Spec => []TokensAgree
<1>1. IInv => TokensAgree
  BY DEF IInv
<1> QED BY <1>1, Invariant, PTL

\* What is left to do leads to the expected hash, caches are right and nothing is written
\* before the items of a list are hashed and sorted, for all trees and depth limits.
THEOREM HashInvariant == Spec => [](IInv /\ EInv)
<1>1. Init => IInv /\ EInv
  BY InitIInv, InitEInv
<1>2. IInv /\ EInv /\ [Next]_vars => (IInv /\ EInv)'
  BY NextIInv, NextEInv
<1> QED BY <1>1, <1>2, PTL DEF Spec

\* The fingerprint of a tree is that of its definition, which takes the items of a sorted
\* list as a set: caches, contexts and names taken back make no difference.
THEOREM SameAsReferenceTheorem == Spec => []SameAsReference
<1>1. IInv /\ EInv => SameAsReference
  <2> SUFFICES ASSUME IInv, EInv, phase = "done" PROVE contexts = <<Expected[1]>>
    BY DEF SameAsReference
  <2>1. todo = <<>> /\ EWalk
    BY DEF EInv
  <2>2. PICK g : Chain(g)
    BY <2>1 DEF EWalk
  <2>3. Len(todo) = 0 /\ contexts \in Seq(Strings) /\ Len(contexts) >= 1
    BY <2>1 DEF IInv
  <2>4. At(Len(contexts), contexts[Len(contexts)]) = At(1, Expected[1])
    <3>1. Len(todo) + 1 = 1
      BY <2>3
    <3> HIDE DEF At
    <3> QED BY <2>2, <3>1 DEF Chain
  <2>5. Len(contexts) = 1 /\ contexts[1] = Expected[1]
    BY <2>4 DEF At
  <2> HIDE DEF Strings
  <2> QED BY <2>3, <2>5
<1> QED BY <1>1, HashInvariant, PTL

-----------------------------------------------------------------------------
(* How often nodes are visited. First what sums over sets are.               *)

Pick(s) == CHOOSE x \in s : TRUE
Total(g, S) == MapThenSumSet(LAMBDA p : g[p], S)

\* The sums over all subsets of S.
IsSum(g, S, f) ==
  /\ f \in [SUBSET S -> Nat] /\ f[{}] = 0
  /\ \A s \in SUBSET S : s # {} => f[s] = g[Pick(s)] + f[s \ {Pick(s)}]

\* One element less.
LEMMA Picked ==
  ASSUME NEW S, IsFiniteSet(S), NEW s \in SUBSET S
  PROVE  /\ IsFiniteSet(s) /\ Cardinality(s) \in Nat
         /\ s # {} => /\ Pick(s) \in s /\ s \ {Pick(s)} \in SUBSET S
                      /\ Cardinality(s \ {Pick(s)}) = Cardinality(s) - 1
<1>1. IsFiniteSet(s) /\ Cardinality(s) \in Nat
  BY FS_Subset, FS_CardinalityType
<1>2. ASSUME s # {} PROVE Pick(s) \in s
  BY <1>2 DEF Pick
<1>3. ASSUME s # {} PROVE Cardinality(s \ {Pick(s)}) = Cardinality(s) - 1
  BY <1>1, <1>2, <1>3, FS_RemoveElement
<1> QED BY <1>1, <1>2, <1>3

\* A set of sets has one that none of its sets is smaller than.
LEMMA Smallest ==
  ASSUME NEW S, IsFiniteSet(S), NEW B \in SUBSET (SUBSET S), B # {}
  PROVE  \E s \in B : \A t \in B : Cardinality(s) <= Cardinality(t)
<1> DEFINE T == {Cardinality(s) : s \in B}
<1>1. T \in SUBSET Nat /\ T # {}
  <2>1. ASSUME NEW s \in B PROVE Cardinality(s) \in Nat
    <3>1. s \in SUBSET S
      OBVIOUS
    <3> QED BY <3>1, Picked
  <2> QED BY <2>1
<1> HIDE DEF T
<1>2. PICK m \in T : \A n \in T : m <= n
  BY <1>1, LeastNat
<1> QED BY <1>2 DEF T

LEMMA SumExists ==
  ASSUME NEW S, IsFiniteSet(S), NEW g, \A p \in S : g[p] \in Nat
  PROVE  \E f : IsSum(g, S, f)
<1> DEFINE Small(k) == {s \in SUBSET S : Cardinality(s) <= k}
<1> DEFINE Solves(f, k) ==
      /\ f \in [Small(k) -> Nat] /\ f[{}] = 0
      /\ \A s \in Small(k) : s # {} => f[s] = g[Pick(s)] + f[s \ {Pick(s)}]
<1>1. \A k \in Nat : \E f : Solves(f, k)
  <2> DEFINE T == {k \in Nat : ~ \E f : Solves(f, k)}
  <2>1. SUFFICES ASSUME T # {} PROVE FALSE
    OBVIOUS
  <2>2. PICK k \in T : \A l \in T : k <= l
    <3>1. T \in SUBSET Nat
      OBVIOUS
    <3> HIDE DEF T
    <3> QED BY <2>1, <3>1, LeastNat
  <2>3. k # 0
    <3>1. \A s \in Small(0) : s = {}
      <4> TAKE s \in Small(0)
      <4>0. s \in SUBSET S /\ Cardinality(s) <= 0
        OBVIOUS
      <4>1. Cardinality(s) = 0 /\ IsFiniteSet(s)
        <5> HIDE DEF Small
        <5>1. Cardinality(s) \in Nat /\ IsFiniteSet(s)
          BY <4>0, Picked
        <5> QED BY <4>0, <5>1
      <4> QED BY <4>1, FS_EmptySet
    <3>2. {} \in Small(0)
      BY FS_EmptySet
    <3> DEFINE f == [s \in Small(0) |-> 0]
    <3> HIDE DEF Small
    <3>3. Solves(f, 0)
      BY <3>1, <3>2
    <3> HIDE DEF Solves, f
    <3> QED BY <2>2, <3>3
  <2>4. k \in Nat /\ k - 1 \in Nat /\ ~(k <= k - 1)
    BY <2>2, <2>3
  <2>5. PICK f : Solves(f, k - 1)
    <3>1. k - 1 \notin T
      <4> HIDE DEF T
      <4> QED BY <2>2, <2>4
    <3> HIDE DEF Solves
    <3> QED BY <2>4, <3>1
  <2> HIDE DEF T
  <2>6. ASSUME NEW s \in Small(k), s # {}
        PROVE  Pick(s) \in S /\ s \ {Pick(s)} \in Small(k - 1)
    <3>1. /\ Pick(s) \in s /\ s \ {Pick(s)} \in SUBSET S /\ Cardinality(s) \in Nat
          /\ Cardinality(s \ {Pick(s)}) = Cardinality(s) - 1 /\ Cardinality(s) <= k
      BY <2>6, Picked
    <3>2. Cardinality(s \ {Pick(s)}) <= k - 1
      BY <2>4, <3>1
    <3> QED BY <3>1, <3>2
  <2>7. {} \in Small(k) /\ {} \in Small(k - 1) /\ Small(k - 1) \subseteq Small(k)
    <3>1. ASSUME NEW s \in SUBSET S, Cardinality(s) <= k - 1 PROVE Cardinality(s) <= k
      <4>1. Cardinality(s) \in Nat
        BY Picked
      <4> QED BY <2>4, <3>1, <4>1
    <3>2. Cardinality({}) <= k - 1
      BY <2>4, FS_EmptySet
    <3> QED BY <3>1, <3>2
  <2> HIDE DEF Small
  <2> DEFINE h == [s \in Small(k) |-> IF s = {} THEN 0 ELSE g[Pick(s)] + f[s \ {Pick(s)}]]
  <2>8. h \in [Small(k) -> Nat]
    <3>1. ASSUME NEW s \in Small(k), s # {} PROVE g[Pick(s)] + f[s \ {Pick(s)}] \in Nat
      <4>1. g[Pick(s)] \in Nat /\ f[s \ {Pick(s)}] \in Nat
        BY <2>5, <2>6, <3>1
      <4> QED BY <4>1
    <3> QED BY <3>1
  <2>9. \A s \in Small(k - 1) : h[s] = f[s]
    BY <2>5, <2>7
  <2>10. Solves(h, k)
    <3>1. h[{}] = 0
      BY <2>7
    <3>2. ASSUME NEW s \in Small(k), s # {} PROVE h[s] = g[Pick(s)] + h[s \ {Pick(s)}]
      <4>1. h[s \ {Pick(s)}] = f[s \ {Pick(s)}]
        BY <2>6, <2>9, <3>2
      <4> QED BY <3>2, <4>1
    <3> HIDE DEF h
    <3> QED BY <2>8, <3>1, <3>2
  <2> HIDE DEF Solves
  <2> QED BY <2>2, <2>10 DEF T
<1>2. Cardinality(S) \in Nat
  BY FS_CardinalityType
<1>3. PICK f : Solves(f, Cardinality(S))
  <2> HIDE DEF Solves
  <2> QED BY <1>1, <1>2
<1>4. Small(Cardinality(S)) = SUBSET S
  BY FS_Subset
<1> QED BY <1>3, <1>4 DEF IsSum

\* MapThenSumSet is the last of these.
LEMMA TotalIs ==
  ASSUME NEW S, IsFiniteSet(S), NEW g, \A p \in S : g[p] \in Nat
  PROVE  \E f : IsSum(g, S, f) /\ f[S] = Total(g, S)
<1>1. PICK f : IsSum(g, S, f)
  BY SumExists
<1> DEFINE iter == CHOOSE h : h = [s \in SUBSET S |-> IF s = {} THEN 0 ELSE
                                     g[CHOOSE x \in s : TRUE] + h[s \ {CHOOSE x \in s : TRUE}]]
<1>2. Total(g, S) = iter[S]
  BY DEF Total, MapThenSumSet, MapThenFoldSet
<1>3. f = [s \in SUBSET S |-> IF s = {} THEN 0 ELSE g[Pick(s)] + f[s \ {Pick(s)}]]
  BY <1>1 DEF IsSum
<1>4. iter = [s \in SUBSET S |-> IF s = {} THEN 0 ELSE g[Pick(s)] + iter[s \ {Pick(s)}]]
  BY <1>3 DEF Pick
<1> HIDE DEF iter
<1> DEFINE B == {s \in SUBSET S : iter[s] # f[s]}
<1>5. B = {}
  <2>1. SUFFICES ASSUME B # {} PROVE FALSE
    OBVIOUS
  <2>2. PICK s \in B : \A t \in B : Cardinality(s) <= Cardinality(t)
    <3>1. B \in SUBSET (SUBSET S)
      OBVIOUS
    <3> HIDE DEF B
    <3> QED BY <2>1, <3>1, Smallest
  <2>3. s # {}
    BY <1>3, <1>4, <2>2
  <2>4. /\ s \ {Pick(s)} \in SUBSET S /\ Cardinality(s) \in Nat
        /\ Cardinality(s \ {Pick(s)}) = Cardinality(s) - 1
    BY <2>2, <2>3, Picked
  <2>5. ~(Cardinality(s) <= Cardinality(s \ {Pick(s)}))
    BY <2>4
  <2>6. iter[s \ {Pick(s)}] = f[s \ {Pick(s)}]
    BY <2>2, <2>4, <2>5
  <2> QED BY <1>3, <1>4, <2>2, <2>3, <2>6
<1>6. iter[S] = f[S]
  BY <1>5
<1> QED BY <1>1, <1>2, <1>6

\* A term that is one more makes the sum one more.
LEMMA TotalGrows ==
  ASSUME NEW S, IsFiniteSet(S), NEW g, \A p \in S : g[p] \in Nat, NEW q, NEW h,
         \A p \in S : h[p] = g[p] + (IF p = q THEN 1 ELSE 0)
  PROVE  /\ Total(g, S) \in Nat
         /\ Total(h, S) = Total(g, S) + (IF q \in S THEN 1 ELSE 0)
<1>1. PICK f : IsSum(g, S, f) /\ f[S] = Total(g, S)
  BY TotalIs
<1>2. \A p \in S : h[p] \in Nat
  OBVIOUS
<1>3. PICK k : IsSum(h, S, k) /\ k[S] = Total(h, S)
  BY <1>2, TotalIs
<1> DEFINE B == {s \in SUBSET S : k[s] # f[s] + (IF q \in s THEN 1 ELSE 0)}
<1>4. B = {}
  <2>1. SUFFICES ASSUME B # {} PROVE FALSE
    OBVIOUS
  <2>2. PICK s \in B : \A t \in B : Cardinality(s) <= Cardinality(t)
    <3>1. B \in SUBSET (SUBSET S)
      OBVIOUS
    <3> HIDE DEF B
    <3> QED BY <2>1, <3>1, Smallest
  <2>3. s # {}
    <3>1. f[{}] = 0 /\ k[{}] = 0 /\ q \notin {}
      BY <1>1, <1>3 DEF IsSum
    <3>2. k[{}] = f[{}] + (IF q \in {} THEN 1 ELSE 0)
      BY <3>1
    <3> QED BY <2>2, <3>2
  <2>4. /\ s \ {Pick(s)} \in SUBSET S /\ Cardinality(s) \in Nat /\ Pick(s) \in s
        /\ Cardinality(s \ {Pick(s)}) = Cardinality(s) - 1
    BY <2>2, <2>3, Picked
  <2>5. ~(Cardinality(s) <= Cardinality(s \ {Pick(s)}))
    BY <2>4
  <2> DEFINE t == s \ {Pick(s)}
  <2>6. t \in SUBSET S /\ k[t] = f[t] + (IF q \in t THEN 1 ELSE 0)
    BY <2>2, <2>4, <2>5
  <2>7. f[s] = g[Pick(s)] + f[t] /\ k[s] = h[Pick(s)] + k[t] /\ f[t] \in Nat
    BY <1>1, <1>3, <2>2, <2>3, <2>6 DEF IsSum
  <2>8. h[Pick(s)] = g[Pick(s)] + (IF Pick(s) = q THEN 1 ELSE 0) /\ g[Pick(s)] \in Nat
    BY <2>2, <2>4
  <2>9. q \in s <=> q \in t \/ Pick(s) = q
    BY <2>4
  <2>10. ~(q \in t /\ Pick(s) = q)
    OBVIOUS
  <2>11. k[s] # f[s] + (IF q \in s THEN 1 ELSE 0)
    BY <2>2
  <2> HIDE DEF t
  <2> QED BY <2>6, <2>7, <2>8, <2>9, <2>10, <2>11
<1>5. k[S] = f[S] + (IF q \in S THEN 1 ELSE 0)
  BY <1>4
<1>6. f[S] \in Nat
  BY <1>1 DEF IsSum
<1> QED BY <1>1, <1>3, <1>5, <1>6

\* Terms that are no less make a sum that is no less.
LEMMA TotalNoLess ==
  ASSUME NEW S, IsFiniteSet(S), NEW g, \A p \in S : g[p] \in Nat,
         NEW h, \A p \in S : h[p] \in Nat /\ g[p] <= h[p]
  PROVE  Total(g, S) \in Nat /\ Total(h, S) \in Nat /\ Total(g, S) <= Total(h, S)
<1>1. PICK f : IsSum(g, S, f) /\ f[S] = Total(g, S)
  BY TotalIs
<1>2. PICK k : IsSum(h, S, k) /\ k[S] = Total(h, S)
  BY TotalIs
<1> DEFINE B == {s \in SUBSET S : ~(f[s] <= k[s])}
<1>3. B = {}
  <2>1. SUFFICES ASSUME B # {} PROVE FALSE
    OBVIOUS
  <2>2. PICK s \in B : \A t \in B : Cardinality(s) <= Cardinality(t)
    <3>1. B \in SUBSET (SUBSET S)
      OBVIOUS
    <3> HIDE DEF B
    <3> QED BY <2>1, <3>1, Smallest
  <2>3. s # {}
    <3>1. f[{}] <= k[{}]
      BY <1>1, <1>2 DEF IsSum
    <3> QED BY <2>2, <3>1
  <2>4. /\ s \ {Pick(s)} \in SUBSET S /\ Cardinality(s) \in Nat /\ Pick(s) \in s
        /\ Cardinality(s \ {Pick(s)}) = Cardinality(s) - 1
    BY <2>2, <2>3, Picked
  <2>5. ~(Cardinality(s) <= Cardinality(s \ {Pick(s)}))
    BY <2>4
  <2> DEFINE t == s \ {Pick(s)}
  <2>6. t \in SUBSET S /\ f[t] <= k[t]
    BY <2>2, <2>4, <2>5
  <2>7. /\ f[s] = g[Pick(s)] + f[t] /\ k[s] = h[Pick(s)] + k[t]
        /\ f[t] \in Nat /\ k[t] \in Nat
    BY <1>1, <1>2, <2>2, <2>3, <2>6 DEF IsSum
  <2>8. g[Pick(s)] \in Nat /\ h[Pick(s)] \in Nat /\ g[Pick(s)] <= h[Pick(s)]
    BY <2>2, <2>4
  <2>9. ~(f[s] <= k[s])
    BY <2>2
  <2> HIDE DEF t
  <2> QED BY <2>6, <2>7, <2>8, <2>9
<1>4. f[S] <= k[S] /\ f[S] \in Nat /\ k[S] \in Nat
  BY <1>1, <1>2, <1>3 DEF IsSum
<1> QED BY <1>1, <1>2, <1>4

\* Only the terms of the sum matter.
LEMMA TotalSame ==
  ASSUME NEW S, IsFiniteSet(S), NEW g, NEW h, \A p \in S : g[p] \in Nat /\ h[p] = g[p]
  PROVE  Total(g, S) \in Nat /\ Total(h, S) = Total(g, S)
<1>1. \A p \in S : g[p] \in Nat /\ h[p] \in Nat /\ g[p] <= h[p] /\ h[p] <= g[p]
  OBVIOUS
<1>2. Total(g, S) \in Nat /\ Total(h, S) \in Nat /\ Total(g, S) <= Total(h, S)
  BY <1>1, TotalNoLess
<1>3. Total(h, S) <= Total(g, S)
  BY <1>1, TotalNoLess
<1> QED BY <1>2, <1>3

LEMMA ParentsFinite ==
  ASSUME TreeOK, NEW n
  PROVE  IsFiniteSet(Parents(n)) /\ Parents(n) \in SUBSET Nodes
<1>1. Nodes = 1 .. Len(kind) /\ Len(kind) \in Nat
  BY DEF TreeOK, Nodes
<1>2. IsFiniteSet(Nodes)
  BY <1>1, FS_Interval
<1>3. Parents(n) \in SUBSET Nodes
  BY DEF Parents
<1> QED BY <1>2, <1>3, FS_Subset

\* What a node costs, from what its parents do.
CostOf(n, cost) ==
  IF n = 1 THEN 1
  ELSE Total(cost, Parents(n)) + (IF kind[parent[n]] = "sorted" THEN 1 ELSE 0)

\* The recursion of Expense ends, as the parents of a node are of a lower rank.
LEMMA ExpenseIs ==
  ASSUME TreeOK, RankedTree
  PROVE  /\ Expense \in [Nodes -> Nat]
         /\ \A n \in Nodes : Expense[n] = CostOf(n, Expense)
<1>1. PICK r : IsRank(r)
  BY DEF RankedTree
<1>2. /\ Len(kind) \in Nat /\ \A n \in Nodes : children[n] \in Seq(Nodes)
      /\ r \in [Nodes -> 0 .. Len(kind)]
      /\ \A n \in Nodes : \A i \in DOMAIN children[n] : r[children[n][i]] = r[n] + 1
  BY <1>1 DEF TreeOK, IsRank, Nodes
<1>3. ASSUME NEW n \in Nodes, NEW p \in Parents(n)
      PROVE  p \in Nodes /\ r[n] = r[p] + 1 /\ r[p] \in Nat /\ r[n] \in Nat
  <2>1. p \in Nodes /\ n \in Range(children[p])
    BY DEF Parents
  <2>2. PICK i \in DOMAIN children[p] : children[p][i] = n
    BY <2>1 DEF Range
  <2> QED BY <1>2, <2>1, <2>2
<1> DEFINE Upto(k) == {n \in Nodes : r[n] < k}
<1> DEFINE Solves(f, k) ==
      f \in [Upto(k) -> Nat] /\ \A n \in Upto(k) : f[n] = CostOf(n, f)
<1> DEFINE M == Len(kind)
<1>4. \A k \in Nat : \E f : Solves(f, k)
  <2> DEFINE T == {k \in Nat : ~ \E f : Solves(f, k)}
  <2>1. SUFFICES ASSUME T # {} PROVE FALSE
    OBVIOUS
  <2>2. PICK k \in T : \A l \in T : k <= l
    <3>1. T \in SUBSET Nat
      OBVIOUS
    <3> HIDE DEF T
    <3> QED BY <2>1, <3>1, LeastNat
  <2>3. k # 0
    <3>1. Upto(0) = {}
      BY <1>2
    <3> DEFINE f == [n \in Upto(0) |-> 0]
    <3>2. Solves(f, 0)
      BY <3>1
    <3> HIDE DEF Solves, f
    <3> QED BY <2>2, <3>2
  <2>4. k \in Nat /\ k - 1 \in Nat /\ ~(k <= k - 1)
    BY <2>2, <2>3
  <2>5. PICK f : Solves(f, k - 1)
    <3>1. k - 1 \notin T
      <4> HIDE DEF T
      <4> QED BY <2>2, <2>4
    <3> HIDE DEF Solves
    <3> QED BY <2>4, <3>1
  <2>6. ~ \E g : Solves(g, k)
    BY <2>2
  <2> HIDE DEF T
  <2>7. ASSUME NEW n \in Upto(k), NEW p \in Parents(n) PROVE p \in Upto(k - 1)
    <3>1. n \in Nodes /\ r[n] < k
      OBVIOUS
    <3>2. p \in Nodes /\ r[n] = r[p] + 1 /\ r[p] \in Nat
      BY <1>3, <3>1
    <3>3. r[p] < k - 1
      BY <2>4, <3>1, <3>2
    <3> QED BY <3>2, <3>3
  <2>8. \A n \in Upto(k - 1) : n \in Upto(k)
    <3>1. \A n \in Nodes : r[n] < k - 1 => r[n] < k
      BY <1>2, <2>4
    <3> QED BY <3>1
  <2>9. Upto(k) \subseteq Nodes
    OBVIOUS
  <2> HIDE DEF Upto
  <2>10. ASSUME NEW n \in Upto(k) PROVE CostOf(n, f) \in Nat
    <3>1. \A p \in Parents(n) : f[p] \in Nat /\ f[p] = f[p]
      BY <2>5, <2>7
    <3>2. IsFiniteSet(Parents(n))
      BY ParentsFinite
    <3>3. Total(f, Parents(n)) \in Nat
      BY <3>1, <3>2, TotalSame
    <3> QED BY <3>3 DEF CostOf
  <2> DEFINE g == [n \in Upto(k) |-> CostOf(n, f)]
  <2>11. \A n \in Upto(k - 1) : g[n] = f[n]
    BY <2>5, <2>8
  <2>12. ASSUME NEW n \in Upto(k) PROVE g[n] = CostOf(n, g)
    <3>1. \A p \in Parents(n) : f[p] \in Nat /\ g[p] = f[p]
      BY <2>5, <2>7, <2>11
    <3>2. IsFiniteSet(Parents(n))
      BY ParentsFinite
    <3>3. g[n] = CostOf(n, f)
      OBVIOUS
    <3> HIDE DEF g
    <3>4. Total(g, Parents(n)) = Total(f, Parents(n))
      BY <3>1, <3>2, TotalSame
    <3> QED BY <3>3, <3>4 DEF CostOf
  <2>13. g \in [Upto(k) -> Nat]
    BY <2>10
  <2> HIDE DEF g
  <2> QED BY <2>6, <2>12, <2>13
<1>5. PICK f : Solves(f, M + 1)
  <2>1. M + 1 \in Nat
    BY <1>2
  <2> HIDE DEF Solves
  <2> QED BY <1>4, <2>1
<1>6. Upto(M + 1) = Nodes
  <2>1. \A n \in Nodes : r[n] < M + 1
    BY <1>2
  <2> QED BY <2>1
<1> HIDE DEF Upto
<1>7. f \in [Nodes -> Nat] /\ \A n \in Nodes : f[n] = CostOf(n, f)
  BY <1>5, <1>6
<1> HIDE DEF Solves
<1>8. f = [n \in Nodes |-> CostOf(n, f)]
  BY <1>7
<1>9. Expense = [n \in Nodes |-> CostOf(n, Expense)]
  BY <1>8 DEF Expense, CostOf, Total
<1> DEFINE B == {k \in 0 .. M : \E n \in Nodes : r[n] = k /\ Expense[n] # f[n]}
<1>10. B = {}
  <2>1. SUFFICES ASSUME B # {} PROVE FALSE
    OBVIOUS
  <2>2. PICK k \in B : \A l \in B : k <= l
    <3>1. B \in SUBSET Nat
      OBVIOUS
    <3> HIDE DEF B
    <3> QED BY <2>1, <3>1, LeastNat
  <2>3. PICK n \in Nodes : r[n] = k /\ Expense[n] # f[n]
    BY <2>2
  <2>4. ASSUME NEW p \in Parents(n) PROVE f[p] \in Nat /\ Expense[p] = f[p]
    <3>1. p \in Nodes /\ r[n] = r[p] + 1 /\ r[p] \in Nat
      BY <1>3
    <3>2. r[p] \in 0 .. M /\ ~(k <= r[p])
      BY <1>2, <2>3, <3>1
    <3>3. r[p] \notin B
      <4> HIDE DEF B
      <4> QED BY <2>2, <3>2
    <3> QED BY <1>7, <3>1, <3>2, <3>3
  <2>5. Total(Expense, Parents(n)) = Total(f, Parents(n))
    <3>1. IsFiniteSet(Parents(n))
      BY ParentsFinite
    <3> QED BY <2>4, <3>1, TotalSame
  <2>6. Expense[n] = CostOf(n, Expense) /\ f[n] = CostOf(n, f)
    BY <1>7, <1>9
  <2> QED BY <2>3, <2>5, <2>6 DEF CostOf
<1>11. ASSUME NEW n \in Nodes PROVE Expense[n] \in Nat
  <2>1. r[n] \in 0 .. M /\ r[n] \notin B
    BY <1>2, <1>10
  <2> QED BY <1>7, <2>1
<1>12. /\ DOMAIN Expense = Nodes /\ Expense = [n \in Nodes |-> Expense[n]]
       /\ \A n \in Nodes : Expense[n] = CostOf(n, Expense)
  BY <1>9
<1> QED BY <1>11, <1>12

-----------------------------------------------------------------------------
(* The calls for a node that are left to do.                                 *)

\* "sort" calls for each item once more, when the order is known.
CallsFor(e, n, cache) ==
  \/ e.op \in {"node", "field"} /\ e.node = n
  \/ e.op = "item" /\ children[e.node][e.i] = n
  \/ e.op = "next" /\ children[e.node][cache[e.node][e.i]] = n
  \/ e.op = "sort" /\ n \in Range(children[e.node])

Calling(n, entries, cache) == {k \in 1 .. Len(entries) : CallsFor(entries[k], n, cache)}
Pending(n, entries, cache) == Cardinality(Calling(n, entries, cache))
One(b) == IF b THEN 1 ELSE 0

LEMMA PendingType ==
  ASSUME NEW E, NEW s \in Seq(E), NEW n, NEW cache
  PROVE  /\ IsFiniteSet(Calling(n, s, cache)) /\ Pending(n, s, cache) \in Nat
<1>1. IsFiniteSet(1 .. Len(s))
  BY FS_Interval
<1>2. Calling(n, s, cache) \in SUBSET (1 .. Len(s))
  BY DEF Calling
<1> QED BY <1>1, <1>2, FS_Subset, FS_CardinalityType DEF Pending

LEMMA NonePending ==
  ASSUME NEW s, NEW n, NEW cache, \A k \in 1 .. Len(s) : ~CallsFor(s[k], n, cache)
  PROVE  Pending(n, s, cache) = 0
<1>1. Calling(n, s, cache) = {}
  BY DEF Calling
<1> QED BY <1>1, FS_EmptySet DEF Pending

LEMMA OnePending ==
  ASSUME NEW E, NEW s \in Seq(E), NEW n, NEW cache,
         \A k, l \in 1 .. Len(s) :
           CallsFor(s[k], n, cache) /\ CallsFor(s[l], n, cache) => k = l
  PROVE  Pending(n, s, cache) <= 1
<1>1. IsFiniteSet(Calling(n, s, cache))
  BY PendingType
<1>2. CASE Calling(n, s, cache) = {}
  BY <1>2, FS_EmptySet DEF Pending
<1>3. CASE Calling(n, s, cache) # {}
  <2>1. PICK k : k \in Calling(n, s, cache)
    BY <1>3
  <2>2. Calling(n, s, cache) = {k}
    BY <2>1 DEF Calling
  <2>3. Cardinality({k}) = 1
    BY FS_Singleton
  <2> QED BY <2>2, <2>3 DEF Pending
<1> QED BY <1>2, <1>3

LEMMA PendingAppend ==
  ASSUME NEW E, NEW s \in Seq(E), NEW e \in E, NEW n, NEW cache
  PROVE  Pending(n, Append(s, e), cache) = Pending(n, s, cache) + One(CallsFor(e, n, cache))
<1> DEFINE t == Append(s, e)
<1> DEFINE m == Len(s)
<1>1. /\ m \in Nat /\ Len(t) = m + 1 /\ t[m + 1] = e
      /\ \A k \in 1 .. m : t[k] = s[k]
  OBVIOUS
<1>2. \A k : k \in 1 .. Len(t) <=> k \in 1 .. m \/ k = m + 1
  BY <1>1
<1>3. m + 1 \notin Calling(n, s, cache)
  <2>1. m + 1 \notin 1 .. m
    BY <1>1
  <2> QED BY <2>1 DEF Calling
<1>4. IsFiniteSet(Calling(n, s, cache)) /\ Pending(n, s, cache) \in Nat
  BY PendingType
<1> HIDE DEF t
<1>5. CASE CallsFor(e, n, cache)
  <2>1. Calling(n, t, cache) = Calling(n, s, cache) \cup {m + 1}
    <3> HIDE DEF CallsFor, m
    <3>1. \A k \in 1 .. m : CallsFor(t[k], n, cache) <=> CallsFor(s[k], n, cache)
      BY <1>1
    <3> QED BY <1>1, <1>2, <1>5, <3>1 DEF Calling, m
  <2>2. Cardinality(Calling(n, t, cache)) = Cardinality(Calling(n, s, cache)) + 1
    BY <1>3, <1>4, <2>1, FS_AddElement
  <2> QED BY <1>5, <2>2 DEF Pending, One, t
<1>6. CASE ~CallsFor(e, n, cache)
  <2>1. Calling(n, t, cache) = Calling(n, s, cache)
    <3> HIDE DEF CallsFor, m
    <3>1. \A k \in 1 .. m : CallsFor(t[k], n, cache) <=> CallsFor(s[k], n, cache)
      BY <1>1
    <3> QED BY <1>1, <1>2, <1>6, <3>1 DEF Calling, m
  <2> QED BY <1>4, <1>6, <2>1 DEF Pending, One, t
<1> QED BY <1>5, <1>6

\* New calls take the place of the first entry.
LEMMA PendingReplaced ==
  ASSUME NEW E, NEW old \in Seq(E), old # <<>>, NEW new \in Seq(E), NEW n,
         NEW cache, NEW cached,
         \A k \in 2 .. Len(old) : CallsFor(old[k], n, cached) <=> CallsFor(old[k], n, cache)
  PROVE  Pending(n, new \o Tail(old), cached) + One(CallsFor(old[1], n, cache))
           = Pending(n, new, cached) + Pending(n, old, cache)
<1>0. PICK t : t = new \o Tail(old)
  OBVIOUS
<1>1. /\ t \in Seq(E) /\ Len(old) \in Nat /\ Len(old) >= 1 /\ Len(new) \in Nat
      /\ Len(t) = Len(new) + (Len(old) - 1)
      /\ \A k \in 1 .. Len(t) :
           \/ k <= Len(new) /\ k \in 1 .. Len(new) /\ t[k] = new[k]
           \/ /\ k > Len(new) /\ k - Len(new) + 1 \in 2 .. Len(old)
              /\ t[k] = old[k - Len(new) + 1]
  BY <1>0, Positions
<1> DEFINE m == Len(new)
<1> DEFINE A == Calling(n, new, cached)
<1> DEFINE B == Calling(n, old, cache) \ {1}
<1> DEFINE C == {k \in Calling(n, t, cached) : k > m}
<1>2. /\ IsFiniteSet(A) /\ Cardinality(A) \in Nat
      /\ IsFiniteSet(Calling(n, old, cache)) /\ Cardinality(Calling(n, old, cache)) \in Nat
      /\ IsFiniteSet(Calling(n, t, cached))
  <2> HIDE DEF Calling
  <2>1. IsFiniteSet(A) /\ Pending(n, new, cached) \in Nat
    BY PendingType
  <2>2. IsFiniteSet(Calling(n, old, cache)) /\ Pending(n, old, cache) \in Nat
    BY PendingType
  <2>3. IsFiniteSet(Calling(n, t, cached))
    BY <1>1, PendingType
  <2> QED BY <2>1, <2>2, <2>3 DEF Pending
<1> HIDE DEF CallsFor
<1>3. Calling(n, t, cached) = A \cup C
  <2>1. ASSUME NEW k \in A PROVE k \in Calling(n, t, cached)
    <3>1. k \in 1 .. m /\ CallsFor(new[k], n, cached)
      BY DEF Calling
    <3>2. k \in 1 .. Len(t) /\ ~(k > m)
      BY <1>1, <3>1
    <3>3. t[k] = new[k]
      BY <1>1, <3>2
    <3> QED BY <3>1, <3>2, <3>3 DEF Calling
  <2>2. ASSUME NEW k \in Calling(n, t, cached), ~(k > m) PROVE k \in A
    <3>1. k \in 1 .. Len(t) /\ CallsFor(t[k], n, cached)
      BY DEF Calling
    <3>2. k \in 1 .. m /\ t[k] = new[k]
      BY <1>1, <2>2, <3>1
    <3> QED BY <3>1, <3>2 DEF Calling
  <2> HIDE DEF A
  <2> QED BY <2>1, <2>2
<1>4. A \cap C = {}
  <2>1. \A k \in 1 .. m : ~(k > m)
    BY <1>1
  <2> QED BY <2>1 DEF Calling
<1>5. Cardinality(C) = Cardinality(B) /\ IsFiniteSet(B) /\ IsFiniteSet(C)
  <2> DEFINE f == [k \in C |-> k - m + 1]
  <2>1. ASSUME NEW k \in C PROVE f[k] \in B /\ k \in Int
    <3>1. k \in 1 .. Len(t) /\ CallsFor(t[k], n, cached) /\ k > m
      BY DEF Calling
    <3>2. k - m + 1 \in 2 .. Len(old) /\ t[k] = old[k - m + 1]
      <4>1. ~(k <= m) /\ k \in Int /\ m \in Int
        BY <1>1, <3>1
      <4> QED BY <1>1, <3>1, <4>1
    <3>3. CallsFor(old[k - m + 1], n, cache)
      BY <3>1, <3>2
    <3>4. k - m + 1 \in 1 .. Len(old) /\ k - m + 1 # 1
      BY <1>1, <3>2
    <3> QED BY <3>1, <3>3, <3>4 DEF Calling
  <2>2. ASSUME NEW j \in B PROVE \E k \in C : f[k] = j
    <3>1. j \in 2 .. Len(old) /\ CallsFor(old[j], n, cache)
      BY <1>1 DEF Calling
    <3>2. PICK k \in Int : k = j + m - 1
      <4>1. j \in Int /\ m \in Int
        BY <1>1, <3>1
      <4> HIDE DEF m
      <4>2. j + m - 1 \in Int
        BY <4>1
      <4> QED BY <4>2
    <3>3. k \in 1 .. Len(t) /\ k > m /\ ~(k <= m) /\ k - m + 1 = j
      BY <1>1, <3>1, <3>2
    <3>4. t[k] = old[j]
      BY <1>1, <3>3
    <3>5. CallsFor(t[k], n, cached)
      BY <3>1, <3>4
    <3>6. k \in C
      BY <3>3, <3>5 DEF Calling
    <3>7. f[k] = k - m + 1
      BY <3>6
    <3> HIDE DEF C, f
    <3> QED BY <3>3, <3>6, <3>7
  <2>3. f \in [C -> B]
    <3> HIDE DEF B
    <3> QED BY <2>1
  <2>4. \A j, k \in C : f[j] = f[k] => j = k
    <3> TAKE j \in C, k \in C
    <3>1. j \in Int /\ k \in Int /\ f[j] = j - m + 1 /\ f[k] = k - m + 1
      BY <2>1
    <3> HIDE DEF f
    <3> QED BY <1>1, <3>1
  <2> HIDE DEF f
  <2>5. f \in Bijection(C, B)
    <3> HIDE DEF B, C
    <3> QED BY <2>2, <2>3, <2>4 DEF Bijection, Injection, Surjection, IsInjective
  <2>6. IsFiniteSet(C)
    <3> HIDE DEF Calling
    <3>1. C \in SUBSET Calling(n, t, cached)
      OBVIOUS
    <3> QED BY <1>2, <3>1, FS_Subset
  <2> HIDE DEF B, C
  <2> QED BY <2>5, <2>6, FS_Bijection DEF ExistsBijection
<1>6. Cardinality(Calling(n, t, cached)) = Cardinality(A) + Cardinality(B)
  <2> HIDE DEF A, B, C
  <2>1. Cardinality(A \cup C) = Cardinality(A) + Cardinality(C) - Cardinality({})
    BY <1>2, <1>4, <1>5, FS_Union
  <2>2. Cardinality(C) \in Nat /\ Cardinality({}) = 0
    BY <1>5, FS_CardinalityType, FS_EmptySet
  <2>3. Cardinality(A \cup C) = Cardinality(A) + Cardinality(C)
    <3>1. Cardinality(A) \in Nat
      BY <1>2 DEF A
    <3> QED BY <2>1, <2>2, <3>1
  <2> QED BY <1>3, <1>5, <2>3
<1>7. Cardinality(B) + One(CallsFor(old[1], n, cache)) = Cardinality(Calling(n, old, cache))
  <2>1. 1 \in Calling(n, old, cache) <=> CallsFor(old[1], n, cache)
    BY <1>1 DEF Calling
  <2> HIDE DEF Calling
  <2>2. Cardinality(B) = IF 1 \in Calling(n, old, cache)
                         THEN Cardinality(Calling(n, old, cache)) - 1
                         ELSE Cardinality(Calling(n, old, cache))
    BY <1>2, FS_RemoveElement
  <2> HIDE DEF B
  <2> QED BY <1>2, <2>1, <2>2 DEF One
<1>8. Cardinality(B) \in Nat
  BY <1>5, FS_CardinalityType
<1>9. One(CallsFor(old[1], n, cache)) \in {0, 1}
  BY DEF One
<1> HIDE DEF A, B, C
<1>10. Pending(n, t, cached) + One(CallsFor(old[1], n, cache))
         = Pending(n, new, cached) + Pending(n, old, cache)
  BY <1>2, <1>6, <1>7, <1>8, <1>9 DEF Pending, A
<1> QED BY <1>0, <1>10

-----------------------------------------------------------------------------
(* A visit of a node calls for its children once. When a list is sorted, its *)
(* items are called for twice; that is done once per list, which is cached   *)
(* from then on, and not visited while it is being sorted.                   *)

\* A node is a child once, and of one sorted list at the most.
BranchesOK ==
  /\ \A p \in Nodes : \A i \in DOMAIN children[p] :
       /\ children[p][i] # 1
       /\ \A j \in DOMAIN children[p] : children[p][i] = children[p][j] => i = j
       /\ kind[p] = "sorted" => parent[children[p][i]] = p
  /\ \A n \in Nodes \ {1} : parent[n] \in Nodes /\ n \in Range(children[parent[n]])

Sorting(p, entries, cache) ==
  \/ cache[p] # <<>>
  \/ \E k \in 1 .. Len(entries) : entries[k].op = "sort" /\ entries[k].node = p
Twice(n, entries, cache) ==
  One(n # 1 /\ kind[parent[n]] = "sorted" /\ Sorting(parent[n], entries, cache))

\* The visits that a node may have had, or have been called for, given those of others.
Due(n, entries, cache, seen) ==
  IF n = 1 THEN 1 ELSE Total(seen, Parents(n)) + Twice(n, entries, cache)

\* What comes before the sorting of a list is further down in the tree.
SortsAbove(r, entries) ==
  \A k, l \in 1 .. Len(entries) :
    k < l /\ entries[l].op = "sort" => Level(r, entries[k]) > r[entries[l].node]
SortsNew(entries, cache) ==
  \A l \in 1 .. Len(entries) : entries[l].op = "sort" => cache[entries[l].node] = <<>>
CachedOnce(cache) ==
  \A n \in Nodes : \A i, j \in 1 .. Len(cache[n]) : cache[n][i] = cache[n][j] => i = j

VWalk ==
  /\ visits \in [Nodes -> Nat]
  /\ SortsNew(todo, listsort_cache) /\ CachedOnce(listsort_cache)
  /\ \E r : IsRank(r) /\ SortsAbove(r, todo)
  /\ \A n \in Nodes :
       visits[n] + Pending(n, todo, listsort_cache) <= Due(n, todo, listsort_cache, visits)

VInv == BranchesOK /\ (phase = "walk" => VWalk)

\* Entries further down come in front of those there were.
LEMMA SortsOnward ==
  ASSUME IInv, todo # <<>>, NEW new \in Seq(Entries), Then(new),
         NEW r, IsRank(r), SortsAbove(r, todo), SortsAbove(r, new),
         \A k \in 1 .. Len(new) : Level(r, new[k]) >= Level(r, todo[1])
  PROVE  SortsAbove(r, todo')
<1> DEFINE t == new \o Tail(todo)
<1>1. todo \in Seq(Entries) /\ todo' = t
  BY DEF IInv, Then
<1>2. /\ t \in Seq(Entries) /\ Len(todo) \in Nat /\ Len(todo) >= 1 /\ Len(new) \in Nat
      /\ \A k \in 1 .. Len(t) :
           \/ k <= Len(new) /\ k \in 1 .. Len(new) /\ t[k] = new[k]
           \/ /\ k > Len(new) /\ k - Len(new) + 1 \in 2 .. Len(todo)
              /\ t[k] = todo[k - Len(new) + 1]
  <2> HIDE DEF Entries, t
  <2>1. t = new \o Tail(todo)
    BY DEF t
  <2> QED BY <1>1, <2>1, Positions
<1> HIDE DEF t
<1>3. ASSUME NEW e \in Entries PROVE Level(r, e) \in Nat /\ r[e.node] \in Nat
  <2>1. r[e.node] \in Nat
    BY DEF Entries, IsRank
  <2> QED BY <2>1 DEF Level
<1>4. /\ \A k \in 1 .. Len(todo) : todo[k] \in Entries
      /\ \A k \in 1 .. Len(new) : new[k] \in Entries
  <2> HIDE DEF Entries
  <2> QED BY <1>1
<1> HIDE DEF Level
<1>5. ASSUME NEW k \in 1 .. Len(t), NEW l \in 1 .. Len(t), k < l, t[l].op = "sort"
      PROVE  Level(r, t[k]) > r[t[l].node]
  <2> DEFINE m == Len(new)
  <2>0. k \in Int /\ l \in Int /\ m \in Nat
    BY <1>2
  <2>1. CASE k <= m /\ l <= m
    <3>1. k \in 1 .. m /\ l \in 1 .. m /\ t[k] = new[k] /\ t[l] = new[l]
      BY <1>2, <2>0, <2>1
    <3> QED BY <1>5, <3>1 DEF SortsAbove
  <2>2. CASE k <= m /\ l > m
    <3>1. /\ k \in 1 .. m /\ t[k] = new[k]
          /\ l - m + 1 \in 2 .. Len(todo) /\ t[l] = todo[l - m + 1]
      BY <1>2, <2>0, <2>2
    <3>2. l - m + 1 \in 1 .. Len(todo) /\ 1 \in 1 .. Len(todo) /\ 1 < l - m + 1
      BY <1>2, <3>1
    <3>3. Level(r, todo[1]) > r[t[l].node] /\ Level(r, t[k]) >= Level(r, todo[1])
      BY <1>5, <3>1, <3>2 DEF SortsAbove
    <3>4. /\ r[t[l].node] \in Nat /\ Level(r, t[k]) \in Nat /\ Level(r, todo[1]) \in Nat
      BY <1>3, <1>4, <3>1, <3>2
    <3> QED BY <3>3, <3>4
  <2>3. CASE k > m /\ l > m
    <3>0. ~(k <= m) /\ ~(l <= m)
      BY <2>0, <2>3
    <3>1. /\ k - m + 1 \in 2 .. Len(todo) /\ t[k] = todo[k - m + 1]
          /\ l - m + 1 \in 2 .. Len(todo) /\ t[l] = todo[l - m + 1]
      BY <1>2, <3>0
    <3>2. k - m + 1 \in 1 .. Len(todo) /\ l - m + 1 \in 1 .. Len(todo)
      BY <1>2, <3>1
    <3>3. k - m + 1 < l - m + 1
      BY <1>5, <2>0
    <3> QED BY <1>5, <3>1, <3>2, <3>3 DEF SortsAbove
  <2>4. ~(k > m /\ l <= m)
    BY <1>5, <2>0
  <2> QED BY <2>0, <2>1, <2>2, <2>3, <2>4
<1> QED BY <1>1, <1>5 DEF SortsAbove

\* What is being sorted still is, or is cached.
LEMMA TwiceKept ==
  ASSUME IInv, BranchesOK, todo # <<>>, NEW new \in Seq(Entries), Then(new), NEW n \in Nodes,
         \A p \in Nodes : listsort_cache[p] # <<>> => listsort_cache'[p] # <<>>,
         todo[1].op = "sort" /\ children[todo[1].node] # <<>>
           => listsort_cache'[todo[1].node] # <<>>
  PROVE  /\ Twice(n, todo, listsort_cache) \in {0, 1}
         /\ Twice(n, todo', listsort_cache') \in {0, 1}
         /\ Twice(n, todo, listsort_cache) <= Twice(n, todo', listsort_cache')
<1>1. todo \in Seq(Entries) /\ Len(todo) \in Nat /\ Len(new) \in Nat
  BY DEF IInv
<1>2. /\ todo' = new \o Tail(todo) /\ Len(todo') = Len(new) + (Len(todo) - 1)
      /\ \A k \in 2 .. Len(todo) : todo'[Len(new) + k - 1] = todo[k]
  <2> HIDE DEF Entries
  <2>1. todo' = new \o Tail(todo)
    BY DEF Then
  <2>2. /\ Tail(todo) \in Seq(Entries) /\ Len(Tail(todo)) = Len(todo) - 1
        /\ \A k \in 2 .. Len(todo) : Tail(todo)[k - 1] = todo[k]
    BY <1>1
  <2>3. ASSUME NEW k \in 2 .. Len(todo)
        PROVE  (new \o Tail(todo))[Len(new) + k - 1] = Tail(todo)[k - 1]
    <3>1. PICK j \in Int : j = Len(new) + k - 1
      <4>1. PICK m \in Nat : m = Len(new)
        BY <1>1
      <4>2. k \in Int /\ m + k - 1 \in Int
        BY <4>1
      <4> QED BY <4>1, <4>2
    <3>2. /\ j \in Len(new) + 1 .. Len(new) + Len(Tail(todo)) /\ j - Len(new) = k - 1
      BY <1>1, <2>2, <3>1
    <3>3. (new \o Tail(todo))[j] = Tail(todo)[j - Len(new)]
      BY <1>1, <2>2, <3>2
    <3> QED BY <3>1, <3>2, <3>3
  <2>4. Len(new \o Tail(todo)) = Len(new) + Len(Tail(todo))
    BY <2>2
  <2> QED BY <2>1, <2>2, <2>3, <2>4
<1>3. ASSUME NEW p \in Nodes, children[p] # <<>>, Sorting(p, todo, listsort_cache)
      PROVE  Sorting(p, todo', listsort_cache')
  <2>1. CASE listsort_cache[p] # <<>>
    BY <1>3, <2>1 DEF Sorting
  <2>2. CASE listsort_cache[p] = <<>>
    <3>1. PICK k \in 1 .. Len(todo) : todo[k].op = "sort" /\ todo[k].node = p
      BY <1>3, <2>2 DEF Sorting
    <3>2. CASE k = 1
      BY <1>3, <3>1, <3>2 DEF Sorting
    <3>3. CASE k # 1
      <4>1. k \in 2 .. Len(todo) /\ Len(new) + k - 1 \in 1 .. Len(todo')
        BY <1>1, <1>2, <3>3
      <4>2. todo'[Len(new) + k - 1] = todo[k]
        BY <1>2, <4>1
      <4> QED BY <3>1, <4>1, <4>2 DEF Sorting
    <3> QED BY <3>2, <3>3
  <2> QED BY <2>1, <2>2
<1>4. n # 1 => parent[n] \in Nodes /\ children[parent[n]] # <<>>
  <2>1. n # 1 => parent[n] \in Nodes /\ n \in Range(children[parent[n]])
    BY DEF BranchesOK
  <2>2. n \notin Range(<<>>)
    BY DEF Range
  <2> QED BY <2>1, <2>2
<1>5. Twice(n, todo, listsort_cache) = 1 => Twice(n, todo', listsort_cache') = 1
  BY <1>3, <1>4 DEF Twice, One
<1> QED BY <1>5 DEF Twice, One

LEMMA Paid ==
  ASSUME NEW v \in Nat, NEW own \in Nat, NEW before \in Nat, NEW calls \in Nat,
         NEW after \in Nat, NEW x \in Nat, NEW y \in Nat, NEW k \in Nat, NEW o \in Nat,
         after + own = calls + before, v + before <= k + x, calls + x <= y + o
  PROVE  v + own + after <= k + o + y
OBVIOUS

\* What is behind the first entry calls for the same as before.
SameCalls(n, cache) ==
  \A k \in 2 .. Len(todo) :
    CallsFor(todo[k], n, cache) <=> CallsFor(todo[k], n, listsort_cache)

\* The new calls for a node are paid for by a visit of a parent, or by the call done.
Affordable(n, new, entries, cache, seen) ==
  LET calls == Pending(n, new, cache)
      before == Twice(n, todo, listsort_cache)
      after == Twice(n, entries, cache)
      call == One(CallsFor(todo[1], n, listsort_cache))
      visit == One(n \in Range(children[todo[1].node]))
  IN  /\ before \in {0, 1} /\ after \in {0, 1}
      /\ \/ /\ todo[1].op = "node" /\ seen = [visits EXCEPT ![todo[1].node] = @ + 1]
            /\ calls + before <= after + visit /\ (n = 1 => calls = 0)
         \/ /\ seen = visits
            /\ calls + before <= after + call /\ (n = 1 => calls <= call)

\* The account of a node is kept.
LEMMA Balanced ==
  ASSUME IInv, VWalk, todo # <<>>, NEW new \in Seq(Entries), Then(new), NEW n \in Nodes,
         SameCalls(n, listsort_cache'), Affordable(n, new, todo', listsort_cache', visits')
  PROVE  visits'[n] + Pending(n, todo', listsort_cache')
           <= Due(n, todo', listsort_cache', visits')
<1>1. PICK c, t, s, v : /\ c = listsort_cache' /\ t = todo' /\ s = visits' /\ v = visits
                        /\ Affordable(n, new, t, c, s) /\ SameCalls(n, c)
  <2> HIDE DEF Affordable, SameCalls
  <2> QED OBVIOUS
<1>2. /\ todo \in Seq(Entries) /\ Len(todo) \in Nat /\ Len(todo) >= 1 /\ TreeOK
      /\ todo[1] \in Entries /\ t = new \o Tail(todo)
  <2>1. todo \in Seq(Entries) /\ TreeOK /\ t = new \o Tail(todo)
    BY <1>1 DEF IInv, Then
  <2>2. Len(todo) \in Nat /\ Len(todo) >= 1 /\ todo[1] \in Entries
    <3> HIDE DEF Entries
    <3> QED BY <2>1
  <2> QED BY <2>1, <2>2
<1> DEFINE own == One(CallsFor(todo[1], n, listsort_cache))
<1> DEFINE before == Pending(n, todo, listsort_cache)
<1> DEFINE calls == Pending(n, new, c)
<1> DEFINE after == Pending(n, t, c)
<1> DEFINE x == Twice(n, todo, listsort_cache)
<1> DEFINE y == Twice(n, t, c)
<1>3. after + own = calls + before
  <2>1. \A k \in 2 .. Len(todo) :
          CallsFor(todo[k], n, c) <=> CallsFor(todo[k], n, listsort_cache)
    BY <1>1 DEF SameCalls
  <2>2. todo \in Seq(Entries) /\ todo # <<>> /\ new \in Seq(Entries) /\ t = new \o Tail(todo)
    BY <1>2
  <2>3. PICK E, old, cache : E = Entries /\ old = todo /\ cache = listsort_cache
    OBVIOUS
  <2>4. Pending(n, new \o Tail(old), c) + One(CallsFor(old[1], n, cache))
          = Pending(n, new, c) + Pending(n, old, cache)
    <3>1. old \in Seq(E) /\ old # <<>> /\ new \in Seq(E)
      BY <2>2, <2>3
    <3>2. \A k \in 2 .. Len(old) : CallsFor(old[k], n, c) <=> CallsFor(old[k], n, cache)
      BY <2>1, <2>3
    <3> QED BY <3>1, <3>2, PendingReplaced
  <2> QED BY <2>2, <2>3, <2>4
<1>4. before \in Nat /\ calls \in Nat /\ after \in Nat /\ own \in {0, 1}
  <2>1. t \in Seq(Entries)
    <3> HIDE DEF Entries
    <3> QED BY <1>2
  <2> HIDE DEF Entries
  <2> QED BY <1>2, <2>1, PendingType DEF One
<1>5. /\ v \in [Nodes -> Nat] /\ v[n] \in Nat
      /\ v[n] + before <= Due(n, todo, listsort_cache, v)
  BY <1>1 DEF VWalk
<1>6. x \in {0, 1} /\ y \in {0, 1}
  BY <1>1 DEF Affordable
<1>7. IsFiniteSet(Parents(n)) /\ Parents(n) \in SUBSET Nodes
  BY <1>2, ParentsFinite
<1>8. \A p \in Parents(n) : v[p] \in Nat
  BY <1>5, <1>7
<1>9. CASE /\ todo[1].op = "node" /\ s = [v EXCEPT ![todo[1].node] = @ + 1]
           /\ calls + x <= y + One(n \in Range(children[todo[1].node]))
           /\ n = 1 => calls = 0
  <2> DEFINE m == todo[1].node
  <2>1. m \in Nodes
    BY <1>2 DEF Entries
  <2>2. s[n] = v[n] + own
    <3>1. CallsFor(todo[1], n, listsort_cache) <=> m = n
      BY <1>9 DEF CallsFor
    <3>2. s[n] = v[n] + (IF m = n THEN 1 ELSE 0)
      BY <1>5, <1>9, <2>1
    <3> QED BY <3>1, <3>2 DEF One
  <2>3. CASE n = 1
    <3>1. Due(n, todo, listsort_cache, v) = 1 /\ Due(n, t, c, s) = 1 /\ calls = 0
      BY <1>9, <2>3 DEF Due
    <3> HIDE DEF own, before, calls, after
    <3>2. s[n] + after <= Due(n, t, c, s)
      BY <1>3, <1>4, <1>5, <2>2, <3>1
    <3> QED BY <1>1, <3>2 DEF after
  <2>4. CASE n # 1
    <3>1. \A p \in Parents(n) : s[p] = v[p] + (IF p = m THEN 1 ELSE 0)
      BY <1>5, <1>7, <1>9
    <3>2. /\ Total(v, Parents(n)) \in Nat
          /\ Total(s, Parents(n)) = Total(v, Parents(n)) + (IF m \in Parents(n) THEN 1 ELSE 0)
      <4> HIDE DEF m
      <4> QED BY <1>7, <1>8, <3>1, TotalGrows
    <3>3. m \in Parents(n) <=> n \in Range(children[m])
      BY <2>1 DEF Parents
    <3>4. /\ Due(n, todo, listsort_cache, v) = Total(v, Parents(n)) + x
          /\ Due(n, t, c, s) = Total(s, Parents(n)) + y
      BY <2>4 DEF Due
    <3>5. Total(s, Parents(n)) = Total(v, Parents(n)) + One(n \in Range(children[m]))
      BY <3>2, <3>3 DEF One
    <3>6. One(n \in Range(children[m])) \in {0, 1}
      BY DEF One
    <3>7. calls + x <= y + One(n \in Range(children[m]))
      BY <1>9
    <3> HIDE DEF own, before, calls, after, x, y, m
    <3>8. s[n] + after <= Due(n, t, c, s)
      <4>1. PICK k, o \in Nat : k = Total(v, Parents(n)) /\ o = One(n \in Range(children[m]))
        BY <3>2, <3>6
      <4>2. v[n] + before <= k + x /\ Due(n, t, c, s) = k + o + y
        BY <1>5, <1>6, <3>4, <3>5, <4>1
      <4>3. /\ own \in Nat /\ x \in Nat /\ y \in Nat /\ v[n] \in Nat
            /\ before \in Nat /\ calls \in Nat /\ after \in Nat
        BY <1>4, <1>5, <1>6
      <4>4. calls + x <= y + o
        BY <3>7, <4>1
      <4>5. v[n] + own + after <= k + o + y
        <5>1. after + own = calls + before
          BY <1>3
        <5>2. v[n] + before <= k + x
          BY <4>2
        <5>3. k \in Nat /\ o \in Nat
          BY <4>1
        <5> QED BY <4>3, <4>4, <5>1, <5>2, <5>3, Paid
      <4> QED BY <2>2, <4>2, <4>5
    <3> QED BY <1>1, <3>8 DEF after
  <2> QED BY <2>3, <2>4
<1>10. CASE s = v /\ calls + x <= y + own /\ (n = 1 => calls <= own)
  <2>1. CASE n = 1
    <3>1. Due(n, todo, listsort_cache, v) = 1 /\ Due(n, t, c, s) = 1 /\ calls <= own
      BY <1>10, <2>1 DEF Due
    <3> HIDE DEF own, before, calls, after
    <3>2. s[n] + after <= Due(n, t, c, s)
      BY <1>3, <1>4, <1>5, <1>10, <3>1
    <3> QED BY <1>1, <3>2 DEF after
  <2>2. CASE n # 1
    <3>1. /\ Due(n, todo, listsort_cache, v) = Total(v, Parents(n)) + x
          /\ Due(n, t, c, s) = Total(v, Parents(n)) + y
      BY <1>10, <2>2 DEF Due
    <3>2. Total(v, Parents(n)) \in Nat
      BY <1>7, <1>8, TotalSame
    <3>3. calls + x <= y + own /\ s[n] = v[n]
      BY <1>10
    <3> HIDE DEF own, before, calls, after, x, y
    <3>4. s[n] + after <= Due(n, t, c, s)
      BY <1>3, <1>4, <1>5, <1>6, <3>1, <3>2, <3>3
    <3> QED BY <1>1, <3>4 DEF after
  <2> QED BY <2>1, <2>2
<1>11. \/ /\ todo[1].op = "node" /\ s = [v EXCEPT ![todo[1].node] = @ + 1]
          /\ calls + x <= y + One(n \in Range(children[todo[1].node]))
          /\ n = 1 => calls = 0
       \/ s = v /\ calls + x <= y + own /\ (n = 1 => calls <= own)
  BY <1>1 DEF Affordable
<1> QED BY <1>9, <1>10, <1>11

\* What a step has to show.
LEMMA AccountsOn ==
  ASSUME VInv, UNCHANGED tree, phase' = "walk", visits' \in [Nodes -> Nat],
         SortsNew(todo', listsort_cache'), CachedOnce(listsort_cache'),
         \E r : IsRank(r) /\ SortsAbove(r, todo'),
         \A n \in Nodes : visits'[n] + Pending(n, todo', listsort_cache')
                            <= Due(n, todo', listsort_cache', visits')
  PROVE  VInv'
<1>1. /\ kind' = kind /\ children' = children /\ parent' = parent /\ Nodes' = Nodes
  BY SameTree
<1>2. BranchesOK'
  BY <1>1 DEF VInv, BranchesOK
<1>3. SortsNew(todo, listsort_cache)'
  BY DEF SortsNew
<1>4. CachedOnce(listsort_cache)'
  BY <1>1 DEF CachedOnce
<1>5. (\E r : IsRank(r) /\ SortsAbove(r, todo))'
  <2>1. PICK r : IsRank(r) /\ SortsAbove(r, todo')
    OBVIOUS
  <2>2. IsRank(r)'
    BY <1>1, <2>1 DEF IsRank
  <2>3. SortsAbove(r, todo)'
    BY <2>1 DEF SortsAbove, Level
  <2> QED BY <2>2, <2>3
<1>6. ASSUME NEW n \in Nodes'
      PROVE  (visits[n] + Pending(n, todo, listsort_cache)
                <= Due(n, todo, listsort_cache, visits))'
  <2>1. n \in Nodes
    BY <1>1
  <2>2. Pending(n, todo, listsort_cache)' = Pending(n, todo', listsort_cache')
    BY <1>1 DEF Pending, Calling, CallsFor
  <2>3. Due(n, todo, listsort_cache, visits)' = Due(n, todo', listsort_cache', visits')
    <3>1. Parents(n)' = Parents(n)
      BY <1>1 DEF Parents
    <3>2. Twice(n, todo, listsort_cache)' = Twice(n, todo', listsort_cache')
      BY <1>1 DEF Twice, Sorting
    <3>3. Total(visits, Parents(n))' = Total(visits', Parents(n))
      BY <3>1 DEF Total, MapThenSumSet, MapThenFoldSet
    <3> QED BY <3>2, <3>3 DEF Due
  <2> QED BY <2>1, <2>2, <2>3
<1> QED BY <1>1, <1>2, <1>3, <1>4, <1>5, <1>6 DEF VInv, VWalk

\* New calls, none of them to sort, that are paid for.
Spends(new, seen) ==
  \/ /\ seen = visits
     /\ \A n \in Nodes : Pending(n, new, listsort_cache)
                           <= One(CallsFor(todo[1], n, listsort_cache))
  \/ /\ todo[1].op = "node" /\ seen = [visits EXCEPT ![todo[1].node] = @ + 1]
     /\ \A n \in Nodes : Pending(n, new, listsort_cache)
                           <= One(n \in Range(children[todo[1].node]))

LEMMA CallsOn ==
  ASSUME IInv, VInv, phase = "walk", phase' = "walk", todo # <<>>,
         UNCHANGED <<tree, listsort_cache>>, todo[1].op # "sort",
         NEW new \in Seq(Entries), Then(new), Spends(new, visits'),
         \A k \in 1 .. Len(new) : new[k].op # "sort",
         \A r : IsRank(r) =>
           \A k \in 1 .. Len(new) : Level(r, new[k]) >= Level(r, todo[1])
  PROVE  VInv'
<1>1. /\ VWalk /\ BranchesOK /\ UNCHANGED tree /\ listsort_cache' = listsort_cache
      /\ todo' = new \o Tail(todo) /\ visits \in [Nodes -> Nat]
  BY DEF VInv, VWalk, Then
<1>2. todo \in Seq(Entries) /\ Len(todo) \in Nat /\ Len(todo) >= 1 /\ todo[1].node \in Nodes
  <2>1. todo \in Seq(Entries)
    BY DEF IInv
  <2>2. Len(todo) \in Nat /\ Len(todo) >= 1 /\ todo[1] \in Entries
    <3> HIDE DEF Entries
    <3> QED BY <2>1
  <2> QED BY <2>1, <2>2 DEF Entries
<1>3. visits' \in [Nodes -> Nat]
  BY <1>1, <1>2 DEF Spends
<1>4. SortsNew(todo', listsort_cache')
  <2>1. \A k \in 1 .. Len(todo') :
          \/ k <= Len(new) /\ k \in 1 .. Len(new) /\ todo'[k] = new[k]
          \/ /\ k > Len(new) /\ k - Len(new) + 1 \in 2 .. Len(todo)
             /\ todo'[k] = todo[k - Len(new) + 1]
    <3> HIDE DEF Entries
    <3>1. PICK t, old : t = new \o Tail(old) /\ old = todo /\ t = todo'
      BY <1>1
    <3>2. old \in Seq(Entries) /\ old # <<>>
      BY <1>2, <3>1
    <3>3. \A k \in 1 .. Len(t) :
            \/ k <= Len(new) /\ k \in 1 .. Len(new) /\ t[k] = new[k]
            \/ /\ k > Len(new) /\ k - Len(new) + 1 \in 2 .. Len(old)
               /\ t[k] = old[k - Len(new) + 1]
      BY <3>1, <3>2, Positions
    <3> QED BY <3>1, <3>3
  <2>2. ASSUME NEW k \in 1 .. Len(todo'), todo'[k].op = "sort"
        PROVE  listsort_cache[todo'[k].node] = <<>>
    <3>1. /\ k - Len(new) + 1 \in 2 .. Len(todo) /\ todo'[k] = todo[k - Len(new) + 1]
      BY <2>1, <2>2
    <3>2. k - Len(new) + 1 \in 1 .. Len(todo)
      BY <1>2, <3>1
    <3> QED BY <1>1, <2>2, <3>1, <3>2 DEF VWalk, SortsNew
  <2> QED BY <1>1, <2>2 DEF SortsNew
<1>5. CachedOnce(listsort_cache')
  BY <1>1 DEF VWalk
<1>6. \E r : IsRank(r) /\ SortsAbove(r, todo')
  <2>1. PICK r : IsRank(r) /\ SortsAbove(r, todo)
    BY <1>1 DEF VWalk
  <2>2. SortsAbove(r, new)
    BY DEF SortsAbove
  <2> HIDE DEF Entries
  <2> QED BY <2>1, <2>2, SortsOnward
<1>7. ASSUME NEW n \in Nodes
      PROVE  visits'[n] + Pending(n, todo', listsort_cache')
               <= Due(n, todo', listsort_cache', visits')
  <2>1. SameCalls(n, listsort_cache')
    BY <1>1 DEF SameCalls
  <2>2. PICK c, t, s, x, y :
          /\ c = listsort_cache' /\ t = todo' /\ s = visits'
          /\ x = Twice(n, todo, listsort_cache) /\ y = Twice(n, t, c)
    OBVIOUS
  <2>3. x \in {0, 1} /\ y \in {0, 1} /\ x <= y
    <3>1. \A p \in Nodes : listsort_cache[p] # <<>> => listsort_cache'[p] # <<>>
      BY <1>1
    <3> HIDE DEF Entries
    <3> QED BY <1>1, <2>2, <3>1, TwiceKept
  <2>4. PICK calls \in Nat : calls = Pending(n, new, c)
    <3> HIDE DEF Entries
    <3> QED BY PendingType
  <2>5. c = listsort_cache /\ Spends(new, s)
    BY <1>1, <2>2
  <2>6. Affordable(n, new, t, c, s)
    <3>1. CASE s = visits /\ calls <= One(CallsFor(todo[1], n, listsort_cache))
      <4>1. PICK call \in {0, 1} : call = One(CallsFor(todo[1], n, listsort_cache))
        BY DEF One
      <4>2. calls + x <= y + call
        BY <2>3, <2>4, <3>1, <4>1
      <4> QED BY <2>2, <2>3, <2>4, <3>1, <4>1, <4>2 DEF Affordable
    <3>2. CASE /\ todo[1].op = "node" /\ s = [visits EXCEPT ![todo[1].node] = @ + 1]
               /\ calls <= One(n \in Range(children[todo[1].node]))
      <4>1. PICK visit \in {0, 1} : visit = One(n \in Range(children[todo[1].node]))
        BY DEF One
      <4>2. calls + x <= y + visit
        BY <2>3, <2>4, <3>2, <4>1
      <4>3. n = 1 => calls = 0
        <5>1. 1 \notin Range(children[todo[1].node])
          BY <1>1, <1>2 DEF BranchesOK, Range
        <5> QED BY <2>4, <3>2, <5>1 DEF One
      <4> QED BY <2>2, <2>3, <2>4, <3>2, <4>1, <4>2, <4>3 DEF Affordable
    <3> QED BY <2>4, <2>5, <3>1, <3>2 DEF Spends
  <2> HIDE DEF Entries
  <2> QED BY <1>1, <2>1, <2>2, <2>6, Balanced
<1> QED BY <1>1, <1>3, <1>4, <1>5, <1>6, <1>7, AccountsOn

LEMMA HeadIs ==
  ASSUME IInv, todo # <<>>
  PROVE  /\ Head(todo) = todo[1] /\ todo[1] \in Entries /\ todo[1].node = node
         /\ node \in Nodes /\ ctx \in Nat /\ Hash \in Strings
         /\ EntryIn(todo[1], contexts, listsort_items, listsort_cache)
         /\ children[node] \in Seq(Nodes)
<1>1. todo \in Seq(Entries) /\ TreeOK /\ contexts \in Seq(Strings)
  BY DEF IInv
<1>2. Head(todo) = todo[1]
  <2> HIDE DEF Entries
  <2> QED BY <1>1
<1>3. /\ Head(todo) \in Entries /\ EntryIn(Head(todo), contexts, listsort_items, listsort_cache)
  BY HeadOK
<1>4. node \in Nodes /\ ctx \in Nat /\ ctx >= 1 /\ ctx <= Len(contexts)
  BY <1>3 DEF node, ctx, Entries, EntryIn
<1>5. Hash \in Strings
  <2> HIDE DEF Strings
  <2> QED BY <1>1, <1>4 DEF Hash
<1> QED BY <1>1, <1>2, <1>3, <1>4, <1>5, ChildrenType DEF node

LEMMA CallIs ==
  ASSUME NEW op \in {"node", "field", "ended", "item", "digest", "sort", "next"},
         NEW n \in Nodes, NEW i \in Nat, ctx \in Nat
  PROVE  /\ Call(op, n, i, ctx) \in Entries /\ Call(op, n, i, ctx).op = op
         /\ Call(op, n, i, ctx).node = n /\ Call(op, n, i, ctx).i = i
BY DEF Call, Entries, Strings

\* Children are a rank further down.
LEMMA ChildLevel ==
  ASSUME NEW r, IsRank(r), NEW p \in Nodes, NEW i \in DOMAIN children[p]
  PROVE  r[children[p][i]] = r[p] + 1 /\ r[p] \in Nat
BY DEF IsRank

\* Calls of which one at the most is for a node, and that only where b holds.
LEMMA Once ==
  ASSUME NEW E, NEW s \in Seq(E), NEW n, NEW cache, NEW b,
         \A k, l \in 1 .. Len(s) :
           CallsFor(s[k], n, cache) /\ CallsFor(s[l], n, cache) => k = l,
         \A k \in 1 .. Len(s) : CallsFor(s[k], n, cache) => b
  PROVE  Pending(n, s, cache) <= One(b)
<1>1. CASE b
  <2>1. One(b) = 1
    BY <1>1 DEF One
  <2> HIDE DEF CallsFor
  <2>2. Pending(n, s, cache) <= 1
    BY OnePending
  <2> QED BY <2>1, <2>2
<1>2. CASE ~b
  <2>1. Pending(n, s, cache) = 0
    BY <1>2, NonePending
  <2> QED BY <1>2, <2>1 DEF One
<1> QED BY <1>1, <1>2

\* Nothing is called.
LEMMA NoCallsOn ==
  ASSUME IInv, VInv, phase = "walk", phase' = "walk", todo # <<>>,
         UNCHANGED <<tree, listsort_cache>>, todo[1].op # "sort", Then(<<>>),
         \/ visits' = visits
         \/ todo[1].op = "node" /\ visits' = [visits EXCEPT ![todo[1].node] = @ + 1]
  PROVE  VInv'
<1>1. PICK s : /\ s = visits'
               /\ \/ s = visits
                  \/ todo[1].op = "node" /\ s = [visits EXCEPT ![todo[1].node] = @ + 1]
  OBVIOUS
<1>2. <<>> \in Seq(Entries) /\ Len(<<>>) = 0 /\ 1 .. 0 = {}
  OBVIOUS
<1>3. \A n \in Nodes : /\ Pending(n, <<>>, listsort_cache) = 0
                       /\ One(CallsFor(todo[1], n, listsort_cache)) \in {0, 1}
                       /\ One(n \in Range(children[todo[1].node])) \in {0, 1}
  BY <1>2, NonePending DEF One
<1>4. Spends(<<>>, s)
  <2>1. \A n \in Nodes :
          /\ Pending(n, <<>>, listsort_cache) <= One(CallsFor(todo[1], n, listsort_cache))
          /\ Pending(n, <<>>, listsort_cache) <= One(n \in Range(children[todo[1].node]))
    <3> TAKE n \in Nodes
    <3>2. PICK x, y \in {0, 1} : /\ x = One(CallsFor(todo[1], n, listsort_cache))
                                 /\ y = One(n \in Range(children[todo[1].node]))
      BY <1>3
    <3>3. 0 <= x /\ 0 <= y
      BY <3>2
    <3> QED BY <1>3, <3>2, <3>3
  <2> QED BY <1>1, <2>1 DEF Spends
<1>5. Spends(<<>>, visits')
  BY <1>1, <1>4
<1> HIDE DEF Entries
<1> QED BY <1>2, <1>5, CallsOn

\* No call for a child, a string or nothing at all, and the end of a field or of an item.
LEMMA EndsV ==
  ASSUME IInv, VInv, \/ FingerprintNothing \/ FingerprintValue
                     \/ FieldKept \/ FieldTakenBack \/ FreeContext
  PROVE  VInv'
<1>1. phase = "walk" /\ todo # <<>> /\ Then(<<>>) /\ UNCHANGED <<tree, phase, listsort_cache>>
  BY DEF FingerprintNothing, FingerprintValue, FieldKept, FieldTakenBack, FreeContext, Visit,
     Does
<1>2. \/ Head(todo).op = "node" /\ visits' = [visits EXCEPT ![node] = @ + 1]
      \/ Head(todo).op \in {"ended", "digest"} /\ visits' = visits
  BY DEF FingerprintNothing, FingerprintValue, FieldKept, FieldTakenBack, FreeContext, Visit,
     Does
<1>3. Head(todo) = todo[1] /\ todo[1].node = node
  BY <1>1, HeadIs
<1>4. /\ phase' = "walk" /\ todo[1].op # "sort"
      /\ \/ visits' = visits
         \/ todo[1].op = "node" /\ visits' = [visits EXCEPT ![todo[1].node] = @ + 1]
  BY <1>1, <1>2, <1>3
<1> QED BY <1>1, <1>4, NoCallsOn

\* Calls for the children of a node in some order, each once.
LEMMA ChildrenCalled ==
  ASSUME BranchesOK, NEW m \in Nodes, NEW E, NEW new \in Seq(E), NEW cache, NEW n, NEW f,
         \A k \in 1 .. Len(new) :
           f[k] \in DOMAIN children[m] /\ (CallsFor(new[k], n, cache) => children[m][f[k]] = n),
         \A k, l \in 1 .. Len(new) : f[k] = f[l] => k = l
  PROVE  Pending(n, new, cache) <= One(n \in Range(children[m]))
<1>1. \A k \in 1 .. Len(new) : CallsFor(new[k], n, cache) => n \in Range(children[m])
  BY DEF Range
<1>2. ASSUME NEW k \in 1 .. Len(new), NEW l \in 1 .. Len(new),
             CallsFor(new[k], n, cache), CallsFor(new[l], n, cache)
      PROVE  k = l
  <2>1. /\ f[k] \in DOMAIN children[m] /\ children[m][f[k]] = n
        /\ f[l] \in DOMAIN children[m] /\ children[m][f[l]] = n
    BY <1>2
  <2>2. f[k] = f[l]
    BY <2>1 DEF BranchesOK
  <2> QED BY <2>2
<1> HIDE DEF CallsFor
<1> QED BY <1>1, <1>2, Once

\* A struct or a plain list calls for each child.
LEMMA EachChildV ==
  ASSUME IInv, VInv, FingerprintStruct \/ FingerprintPlainList
  PROVE  VInv'
<1>1. PICK op \in {"node", "field"} :
        /\ phase = "walk" /\ todo # <<>> /\ Then(Calls(op, children[node]))
        /\ UNCHANGED <<tree, phase, listsort_cache>>
        /\ Head(todo).op = "node" /\ visits' = [visits EXCEPT ![node] = @ + 1]
  BY DEF FingerprintStruct, FingerprintPlainList, Visit, Does
<1>2. /\ Head(todo) = todo[1] /\ todo[1].node = node /\ node \in Nodes /\ ctx \in Nat
      /\ children[node] \in Seq(Nodes)
  BY <1>1, HeadIs
<1>3. PICK new, len : new = Calls(op, children[node]) /\ len = Len(children[node])
  OBVIOUS
<1>4. /\ DOMAIN children[node] = 1 .. len /\ len \in Nat
      /\ \A k \in 1 .. len : children[node][k] \in Nodes
  BY <1>2, <1>3
<1>5. /\ new \in Seq(Entries) /\ Len(new) = len
      /\ \A k \in 1 .. len : new[k].op = op /\ new[k].node = children[node][k]
  <2>1. new = [k \in 1 .. len |-> Call(op, children[node][k], 0, ctx)]
    BY <1>3 DEF Calls
  <2>2. \A k \in 1 .. len : /\ Call(op, children[node][k], 0, ctx) \in Entries
                            /\ Call(op, children[node][k], 0, ctx).op = op
                            /\ Call(op, children[node][k], 0, ctx).node = children[node][k]
    BY <1>2, <1>4, CallIs
  <2> HIDE DEF Entries, Call
  <2> QED BY <1>4, <2>1, <2>2
<1>6. ASSUME NEW n \in Nodes
      PROVE  Pending(n, new, listsort_cache) <= One(n \in Range(children[node]))
  <2> DEFINE f == [k \in 1 .. len |-> k]
  <2>1. \A k \in 1 .. Len(new) : /\ f[k] \in DOMAIN children[node]
                                 /\ CallsFor(new[k], n, listsort_cache)
                                      => children[node][f[k]] = n
    BY <1>4, <1>5 DEF CallsFor
  <2>2. \A k, l \in 1 .. Len(new) : f[k] = f[l] => k = l
    BY <1>5
  <2>3. BranchesOK
    BY DEF VInv
  <2> HIDE DEF f, Entries
  <2> QED BY <1>2, <1>5, <2>1, <2>2, <2>3, ChildrenCalled
<1>7. Spends(new, visits')
  BY <1>1, <1>2, <1>6 DEF Spends
<1>8. ASSUME NEW r, IsRank(r), NEW k \in 1 .. Len(new)
      PROVE  Level(r, new[k]) >= Level(r, todo[1])
  <2>1. r[children[node][k]] = r[node] + 1 /\ r[node] \in Nat
    BY <1>2, <1>4, <1>5, <1>8, ChildLevel
  <2>2. new[k].op \notin InItem /\ todo[1].op \notin InItem
    BY <1>1, <1>2, <1>5 DEF InItem
  <2> QED BY <1>2, <1>5, <2>1, <2>2 DEF Level
<1>9. phase' = "walk" /\ todo[1].op # "sort" /\ \A k \in 1 .. Len(new) : new[k].op # "sort"
  BY <1>1, <1>2, <1>5
<1> HIDE DEF Entries
<1> QED BY <1>1, <1>3, <1>5, <1>7, <1>8, <1>9, CallsOn

\* A list whose order is known calls for its items in that order.
LEMMA CachedListV ==
  ASSUME IInv, VInv, FingerprintCachedList
  PROVE  VInv'
<1>1. /\ phase = "walk" /\ todo # <<>> /\ Then(ItemCalls("next", listsort_cache[node]))
      /\ UNCHANGED <<tree, phase, listsort_cache>>
      /\ Head(todo).op = "node" /\ visits' = [visits EXCEPT ![node] = @ + 1]
  BY DEF FingerprintCachedList, Visit, Does
<1>2. /\ Head(todo) = todo[1] /\ todo[1].node = node /\ node \in Nodes /\ ctx \in Nat
      /\ children[node] \in Seq(Nodes)
  BY <1>1, HeadIs
<1>3. PICK new, order, len : /\ new = ItemCalls("next", order)
                             /\ order = listsort_cache[node] /\ len = Len(order)
  OBVIOUS
<1>4. /\ len \in Nat /\ \A k \in 1 .. len : order[k] \in DOMAIN children[node]
      /\ \A k, l \in 1 .. len : order[k] = order[l] => k = l
  <2>1. ListsOK /\ CachedOnce(listsort_cache)
    BY <1>1 DEF IInv, VInv, VWalk
  <2>2. /\ order \in Seq(Nat) /\ \A k \in 1 .. len : order[k] \in 1 .. Len(children[node])
    BY <1>2, <1>3, <2>1 DEF ListsOK
  <2> QED BY <1>2, <1>3, <2>1, <2>2 DEF CachedOnce
<1>5. /\ new \in Seq(Entries) /\ Len(new) = len
      /\ \A k \in 1 .. len : new[k].op = "next" /\ new[k].node = node /\ new[k].i = k
  <2>1. new = [k \in 1 .. len |-> Call("next", node, k, ctx)]
    BY <1>3 DEF ItemCalls
  <2>2. \A k \in 1 .. len : /\ Call("next", node, k, ctx) \in Entries
                            /\ Call("next", node, k, ctx).op = "next"
                            /\ Call("next", node, k, ctx).node = node
                            /\ Call("next", node, k, ctx).i = k
    BY <1>2, <1>4, CallIs
  <2> HIDE DEF Entries, Call
  <2> QED BY <1>4, <2>1, <2>2
<1>6. ASSUME NEW n \in Nodes
      PROVE  Pending(n, new, listsort_cache) <= One(n \in Range(children[node]))
  <2>1. \A k \in 1 .. Len(new) : /\ order[k] \in DOMAIN children[node]
                                 /\ CallsFor(new[k], n, listsort_cache)
                                      => children[node][order[k]] = n
    BY <1>3, <1>4, <1>5 DEF CallsFor
  <2>2. \A k, l \in 1 .. Len(new) : order[k] = order[l] => k = l
    BY <1>4, <1>5
  <2>3. BranchesOK
    BY DEF VInv
  <2>4. new \in Seq(Entries) /\ node \in Nodes
    BY <1>2, <1>5
  <2> HIDE DEF Entries, CallsFor
  <2> QED BY <2>1, <2>2, <2>3, <2>4, ChildrenCalled
<1>7. Spends(new, visits')
  BY <1>1, <1>2, <1>6 DEF Spends
<1>8. ASSUME NEW r, IsRank(r), NEW k \in 1 .. Len(new)
      PROVE  Level(r, new[k]) >= Level(r, todo[1])
  <2>1. r[node] \in Nat
    BY <1>2, <1>8 DEF IsRank
  <2>2. new[k].op \in InItem /\ todo[1].op \notin InItem
    BY <1>1, <1>2, <1>5 DEF InItem
  <2> QED BY <1>2, <1>5, <2>1, <2>2 DEF Level
<1>9. phase' = "walk" /\ todo[1].op # "sort" /\ \A k \in 1 .. Len(new) : new[k].op # "sort"
  BY <1>1, <1>2, <1>5
<1> HIDE DEF Entries
<1> QED BY <1>1, <1>3, <1>5, <1>7, <1>8, <1>9, CallsOn

\* One call for a node in the place of another, perhaps with an entry that calls for nothing.
LEMMA PassedOn ==
  ASSUME IInv, VInv, phase = "walk", phase' = "walk", todo # <<>>,
         UNCHANGED <<tree, listsort_cache, visits>>, todo[1].op \notin {"node", "sort"},
         NEW new \in Seq(Entries), Then(new), Len(new) \in {1, 2}, new[1].op = "node",
         CallsFor(todo[1], new[1].node, listsort_cache),
         Len(new) = 2 => new[2].op \in {"ended", "digest"},
         \A r : IsRank(r) => \A k \in 1 .. Len(new) : Level(r, new[k]) >= Level(r, todo[1])
  PROVE  VInv'
<1>1. \A k \in 1 .. Len(new) : k = 1 \/ (k = 2 /\ Len(new) = 2)
  <2> HIDE DEF Entries
  <2>1. PICK m \in {1, 2} : m = Len(new)
    OBVIOUS
  <2>2. \A k \in 1 .. m : k = 1 \/ (k = 2 /\ m = 2)
    OBVIOUS
  <2> QED BY <2>1, <2>2
<1>2. ASSUME NEW n \in Nodes
      PROVE  Pending(n, new, listsort_cache) <= One(CallsFor(todo[1], n, listsort_cache))
  <2>1. \A k \in 1 .. Len(new) :
          CallsFor(new[k], n, listsort_cache) => k = 1 /\ new[1].node = n
    BY <1>1 DEF CallsFor
  <2> HIDE DEF Entries, CallsFor
  <2>2. \A k, l \in 1 .. Len(new) :
          CallsFor(new[k], n, listsort_cache) /\ CallsFor(new[l], n, listsort_cache) => k = l
    BY <2>1
  <2>3. \A k \in 1 .. Len(new) :
          CallsFor(new[k], n, listsort_cache) => CallsFor(todo[1], n, listsort_cache)
    BY <2>1
  <2> QED BY <2>2, <2>3, Once
<1>3. Spends(new, visits')
  BY <1>2 DEF Spends
<1>4. \A k \in 1 .. Len(new) : new[k].op # "sort"
  BY <1>1
<1> HIDE DEF Entries
<1> QED BY <1>3, <1>4, CallsOn

\* A field calls for what it holds.
LEMMA FieldV ==
  ASSUME IInv, VInv, Field
  PROVE  VInv'
<1>1. PICK e : /\ phase = "walk" /\ todo # <<>> /\ Head(todo).op = "field"
               /\ UNCHANGED <<tree, phase, listsort_cache, visits>>
               /\ e = [Call("ended", node, 0, ctx) EXCEPT !.prev = Hash]
               /\ Then(<<Call("node", node, 0, ctx), e>>)
  BY DEF Field, Does
<1>2. /\ Head(todo) = todo[1] /\ todo[1].node = node /\ node \in Nodes /\ ctx \in Nat
      /\ Hash \in Strings
  BY <1>1, HeadIs
<1>3. e \in Entries /\ e.op = "ended" /\ e.node = node
  BY <1>1, <1>2 DEF Call, Entries
<1>4. PICK d \in Entries : d = Call("node", node, 0, ctx) /\ d.op = "node" /\ d.node = node
  BY <1>2, CallIs
<1>5. PICK new : new = <<d, e>>
  OBVIOUS
<1>6. new \in Seq(Entries) /\ Len(new) = 2 /\ new[1] = d /\ new[2] = e /\ Then(new)
  <2> HIDE DEF Entries
  <2> QED BY <1>1, <1>3, <1>4, <1>5
<1>7. CallsFor(todo[1], new[1].node, listsort_cache)
  BY <1>1, <1>2, <1>4, <1>6 DEF CallsFor
<1>8. ASSUME NEW r, IsRank(r), NEW k \in 1 .. Len(new)
      PROVE  Level(r, new[k]) >= Level(r, todo[1])
  <2>1. r[node] \in Nat
    BY <1>2, <1>8 DEF IsRank
  <2>2. k = 1 \/ k = 2
    BY <1>6
  <2>3. /\ new[k].op \notin InItem /\ todo[1].op \notin InItem
        /\ new[k].node = node /\ todo[1].node = node
    BY <1>1, <1>2, <1>3, <1>4, <1>6, <2>2 DEF InItem
  <2> QED BY <2>1, <2>3 DEF Level
<1>9. /\ phase' = "walk" /\ todo[1].op \notin {"node", "sort"} /\ Len(new) \in {1, 2}
      /\ new[1].op = "node" /\ new[2].op \in {"ended", "digest"}
  BY <1>1, <1>2, <1>3, <1>4, <1>6
<1> HIDE DEF Entries
<1> QED BY <1>1, <1>6, <1>7, <1>8, <1>9, PassedOn

\* An item is hashed in a context of its own.
LEMMA InitContextV ==
  ASSUME IInv, VInv, InitContext
  PROVE  VInv'
<1>1. PICK i, c : /\ phase = "walk" /\ todo # <<>> /\ Head(todo).op = "item"
                  /\ UNCHANGED <<tree, phase, listsort_cache, visits>>
                  /\ i = Head(todo).i /\ c = Len(contexts) + 1
                  /\ Then(<<Call("node", children[node][i], 0, c), Call("digest", node, i, c)>>)
  BY DEF InitContext, Does
<1>2. /\ Head(todo) = todo[1] /\ todo[1].node = node /\ node \in Nodes /\ todo[1] \in Entries
      /\ EntryIn(todo[1], contexts, listsort_items, listsort_cache)
      /\ children[node] \in Seq(Nodes)
  BY <1>1, HeadIs
<1>3. /\ i \in Nat /\ i \in DOMAIN children[node] /\ children[node][i] \in Nodes /\ c \in Nat
      /\ todo[1].i = i
  <2>1. i \in 1 .. Len(children[node])
    BY <1>1, <1>2 DEF EntryIn
  <2>2. i \in Nat
    BY <1>1, <1>2 DEF Entries
  <2>3. contexts \in Seq(Strings)
    BY DEF IInv
  <2>4. c \in Nat
    <3> HIDE DEF Strings
    <3> QED BY <1>1, <2>3
  <2> QED BY <1>1, <1>2, <2>1, <2>2, <2>4
<1>4. PICK d, e \in Entries :
        /\ d = Call("node", children[node][i], 0, c) /\ e = Call("digest", node, i, c)
        /\ d.op = "node" /\ d.node = children[node][i] /\ e.op = "digest" /\ e.node = node
  <2>1. PICK x, y : x = Call("node", children[node][i], 0, c) /\ y = Call("digest", node, i, c)
    OBVIOUS
  <2>2. x \in Entries /\ x.op = "node" /\ x.node = children[node][i]
    BY <1>2, <1>3, <2>1 DEF Call, Entries, Strings
  <2>3. y \in Entries /\ y.op = "digest" /\ y.node = node
    BY <1>2, <1>3, <2>1 DEF Call, Entries, Strings
  <2> QED BY <2>1, <2>2, <2>3
<1>5. PICK new : new = <<d, e>>
  OBVIOUS
<1>6. new \in Seq(Entries) /\ Len(new) = 2 /\ new[1] = d /\ new[2] = e /\ Then(new)
  <2> HIDE DEF Entries
  <2> QED BY <1>1, <1>4, <1>5
<1>7. CallsFor(todo[1], new[1].node, listsort_cache)
  BY <1>1, <1>2, <1>3, <1>4, <1>6 DEF CallsFor
<1>8. ASSUME NEW r, IsRank(r), NEW k \in 1 .. Len(new)
      PROVE  Level(r, new[k]) >= Level(r, todo[1])
  <2>1. r[node] \in Nat /\ r[children[node][i]] = r[node] + 1
    BY <1>2, <1>3, <1>8, ChildLevel
  <2>2. todo[1].op \in InItem /\ "digest" \in InItem /\ "node" \notin InItem
    BY <1>1, <1>2 DEF InItem
  <2>3. Level(r, todo[1]) = r[node] + 1
    BY <1>2, <2>2 DEF Level
  <2>4. CASE k = 1
    <3>1. Level(r, new[k]) = r[node] + 1 + 0
      BY <1>4, <1>6, <2>1, <2>2, <2>4 DEF Level
    <3> QED BY <2>1, <2>3, <3>1
  <2>5. CASE k = 2
    <3>1. Level(r, new[k]) = r[node] + 1
      BY <1>4, <1>6, <2>1, <2>2, <2>5 DEF Level
    <3> QED BY <2>1, <2>3, <3>1
  <2>6. k = 1 \/ k = 2
    BY <1>6
  <2> QED BY <2>4, <2>5, <2>6
<1>9. /\ phase' = "walk" /\ todo[1].op \notin {"node", "sort"} /\ Len(new) \in {1, 2}
      /\ new[1].op = "node" /\ new[2].op \in {"ended", "digest"}
  BY <1>1, <1>2, <1>4, <1>6
<1> HIDE DEF Entries
<1> QED BY <1>1, <1>6, <1>7, <1>8, <1>9, PassedOn

\* The next item in order, unless it repeats the one before.
LEMMA NextItemV ==
  ASSUME IInv, VInv, NextItem
  PROVE  VInv'
<1>1. PICK i, j : /\ phase = "walk" /\ todo # <<>> /\ Head(todo).op = "next"
                  /\ UNCHANGED <<tree, phase, listsort_cache, visits>>
                  /\ i = Head(todo).i /\ j = listsort_cache[node][i]
                  /\ \/ Then(<<>>)
                     \/ Then(<<Call("node", children[node][j], 0, ctx)>>)
  BY DEF NextItem, Does
<1>2. /\ Head(todo) = todo[1] /\ todo[1].node = node /\ node \in Nodes /\ todo[1] \in Entries
      /\ EntryIn(todo[1], contexts, listsort_items, listsort_cache)
      /\ children[node] \in Seq(Nodes) /\ ctx \in Nat
  BY <1>1, HeadIs
<1>3. CASE Then(<<>>)
  <2>1. phase' = "walk" /\ todo[1].op # "sort" /\ visits' = visits
    BY <1>1, <1>2
  <2> QED BY <1>1, <1>3, <2>1, NoCallsOn
<1>4. CASE Then(<<Call("node", children[node][j], 0, ctx)>>)
  <2>1. j \in DOMAIN children[node] /\ children[node][j] \in Nodes /\ todo[1].i = i
    <3>1. i \in 1 .. Len(listsort_cache[node])
      BY <1>1, <1>2 DEF EntryIn
    <3>2. j \in 1 .. Len(children[node])
      BY <1>1, <1>2, <3>1 DEF IInv, ListsOK
    <3> QED BY <1>1, <1>2, <3>2
  <2>2. PICK d \in Entries : /\ d = Call("node", children[node][j], 0, ctx)
                             /\ d.op = "node" /\ d.node = children[node][j]
    BY <1>2, <2>1, CallIs
  <2>3. PICK new : new = <<d>>
    OBVIOUS
  <2>4. new \in Seq(Entries) /\ Len(new) = 1 /\ new[1] = d /\ Then(new)
    <3> HIDE DEF Entries
    <3> QED BY <1>4, <2>2, <2>3
  <2>5. CallsFor(todo[1], new[1].node, listsort_cache)
    BY <1>1, <1>2, <2>1, <2>2, <2>4 DEF CallsFor
  <2>6. ASSUME NEW r, IsRank(r), NEW k \in 1 .. Len(new)
        PROVE  Level(r, new[k]) >= Level(r, todo[1])
    <3>1. r[node] \in Nat /\ r[children[node][j]] = r[node] + 1
      BY <1>2, <2>1, <2>6, ChildLevel
    <3>2. todo[1].op \in InItem /\ "node" \notin InItem
      BY <1>1, <1>2 DEF InItem
    <3>3. Level(r, todo[1]) = r[node] + 1
      BY <1>2, <3>2 DEF Level
    <3>4. k = 1
      BY <2>4
    <3>5. Level(r, new[k]) = r[node] + 1 + 0
      BY <2>2, <2>4, <3>1, <3>2, <3>4 DEF Level
    <3> QED BY <3>1, <3>3, <3>5
  <2>7. phase' = "walk" /\ todo[1].op = "next"
    BY <1>1, <1>2
  <2>8. Len(new) \in {1, 2} /\ new[1].op = "node" /\ Len(new) # 2
    BY <2>2, <2>4
  <2> HIDE DEF Entries
  <2> QED BY <1>1, <2>4, <2>5, <2>6, <2>7, <2>8, PassedOn
<1> QED BY <1>1, <1>3, <1>4

\* Lists that are to be sorted are not cached yet.
LEMMA SortsNewOn ==
  ASSUME IInv, todo # <<>>, NEW new \in Seq(Entries), Then(new), NEW cache,
         SortsNew(new, cache),
         \A l \in 2 .. Len(todo) : todo[l].op = "sort" => cache[todo[l].node] = <<>>
  PROVE  SortsNew(todo', cache)
<1>1. todo \in Seq(Entries) /\ todo' = new \o Tail(todo)
  BY DEF IInv, Then
<1>2. \A k \in 1 .. Len(todo') :
        \/ k <= Len(new) /\ k \in 1 .. Len(new) /\ todo'[k] = new[k]
        \/ /\ k > Len(new) /\ k - Len(new) + 1 \in 2 .. Len(todo)
           /\ todo'[k] = todo[k - Len(new) + 1]
  <2> HIDE DEF Entries
  <2>1. PICK t, old : t = new \o Tail(old) /\ old = todo /\ t = todo'
    BY <1>1
  <2>2. old \in Seq(Entries) /\ old # <<>>
    BY <1>1, <2>1
  <2>3. \A k \in 1 .. Len(t) :
          \/ k <= Len(new) /\ k \in 1 .. Len(new) /\ t[k] = new[k]
          \/ /\ k > Len(new) /\ k - Len(new) + 1 \in 2 .. Len(old)
             /\ t[k] = old[k - Len(new) + 1]
    BY <2>1, <2>2, Positions
  <2> QED BY <2>1, <2>3
<1> QED BY <1>2 DEF SortsNew

\* A list that is not cached calls for each item, and for each once more when it is sorted.
LEMMA NewListV ==
  ASSUME IInv, VInv, FingerprintNewList
  PROVE  VInv'
<1>1. /\ phase = "walk" /\ todo # <<>> /\ Head(todo).op = "node"
      /\ Then(Append(ItemCalls("item", children[node]), Call("sort", node, 0, ctx)))
      /\ UNCHANGED <<tree, phase, listsort_cache>>
      /\ visits' = [visits EXCEPT ![node] = @ + 1]
      /\ kind[node] = "sorted" /\ listsort_cache[node] = <<>>
  BY DEF FingerprintNewList, Visit, Does, Cached
<1>2. /\ Head(todo) = todo[1] /\ todo[1].node = node /\ node \in Nodes /\ ctx \in Nat
      /\ children[node] \in Seq(Nodes) /\ VWalk /\ BranchesOK /\ todo[1] \in Entries
  BY <1>1, HeadIs DEF VInv
<1>3. PICK items, sort, new, len :
        /\ items = ItemCalls("item", children[node]) /\ sort = Call("sort", node, 0, ctx)
        /\ new = Append(items, sort) /\ len = Len(children[node])
  OBVIOUS
<1>4. /\ DOMAIN children[node] = 1 .. len /\ len \in Nat
      /\ \A k \in 1 .. len : children[node][k] \in Nodes
  BY <1>2, <1>3
<1>5. /\ items \in Seq(Entries) /\ Len(items) = len
      /\ \A k \in 1 .. len : items[k].op = "item" /\ items[k].node = node /\ items[k].i = k
  <2>1. items = [k \in 1 .. len |-> Call("item", node, k, ctx)]
    BY <1>3 DEF ItemCalls
  <2>2. \A k \in 1 .. len : /\ Call("item", node, k, ctx) \in Entries
                            /\ Call("item", node, k, ctx).op = "item"
                            /\ Call("item", node, k, ctx).node = node
                            /\ Call("item", node, k, ctx).i = k
    BY <1>2, <1>4, CallIs
  <2> HIDE DEF Entries, Call
  <2> QED BY <1>4, <2>1, <2>2
<1>6. sort \in Entries /\ sort.op = "sort" /\ sort.node = node
  BY <1>2, <1>3, CallIs
<1>7. /\ new \in Seq(Entries) /\ Len(new) = len + 1 /\ new[len + 1] = sort
      /\ \A k \in 1 .. len : new[k] = items[k]
      /\ \A k \in 1 .. Len(new) : k = len + 1 \/ k \in 1 .. len
  <2> HIDE DEF Entries
  <2>1. new \in Seq(Entries) /\ Len(new) = len + 1 /\ new[len + 1] = sort
    BY <1>3, <1>5, <1>6
  <2>2. \A k \in 1 .. len : new[k] = items[k]
    BY <1>3, <1>5, <1>6
  <2>3. \A k \in 1 .. len + 1 : k = len + 1 \/ k \in 1 .. len
    BY <1>4
  <2> QED BY <2>1, <2>2, <2>3
<1>8. \A k \in 1 .. Len(new) :
        /\ new[k].node = node /\ new[k].op \in {"item", "sort"}
        /\ new[k].op = "sort" <=> k = len + 1
  <2> TAKE k \in 1 .. Len(new)
  <2>1. CASE k = len + 1
    BY <1>6, <1>7, <2>1
  <2>2. CASE k \in 1 .. len
    <3>1. k # len + 1
      BY <1>4, <2>2
    <3> QED BY <1>5, <1>7, <2>2, <3>1
  <2> QED BY <1>7, <2>1, <2>2
<1>9. ASSUME NEW r, IsRank(r), NEW k \in 1 .. Len(new)
      PROVE  /\ Level(r, new[k]) >= Level(r, todo[1]) /\ r[node] \in Nat
             /\ Level(r, todo[1]) = r[node]
             /\ k # len + 1 => Level(r, new[k]) > r[node]
  <2>1. r[node] \in Nat
    BY <1>2, <1>9 DEF IsRank
  <2>2. Level(r, todo[1]) = r[node] + 0
    BY <1>1, <1>2 DEF Level, InItem
  <2>3. CASE k = len + 1
    <3>1. Level(r, new[k]) = r[node] + 0
      BY <1>8, <2>3 DEF Level, InItem
    <3> QED BY <2>1, <2>2, <2>3, <3>1
  <2>4. CASE k # len + 1
    <3>1. Level(r, new[k]) = r[node] + 1
      BY <1>8, <2>4 DEF Level, InItem
    <3> QED BY <2>1, <2>2, <2>4, <3>1
  <2> QED BY <2>3, <2>4
<1>10. PICK r : IsRank(r) /\ SortsAbove(r, todo)
  BY <1>2 DEF VWalk
\* The list is not being sorted.
<1>11. \A k \in 1 .. Len(todo) : ~(todo[k].op = "sort" /\ todo[k].node = node)
  <2> SUFFICES ASSUME NEW k \in 1 .. Len(todo), todo[k].op = "sort", todo[k].node = node
               PROVE  FALSE
    OBVIOUS
  <2>1. k # 1
    BY <1>1, <1>2
  <2>2. 1 < k /\ 1 \in 1 .. Len(todo)
    BY <2>1
  <2>3. Level(r, todo[1]) > r[node]
    BY <1>10, <2>2 DEF SortsAbove
  <2>4. 1 \in 1 .. Len(new)
    BY <1>4, <1>7
  <2>5. r[node] \in Nat /\ Level(r, todo[1]) = r[node]
    BY <1>9, <1>10, <2>4
  <2> QED BY <2>3, <2>5
<1>12. /\ todo' = new \o Tail(todo) /\ todo \in Seq(Entries) /\ Then(new)
       /\ listsort_cache' = listsort_cache
  BY <1>1, <1>3 DEF Then, IInv
\* Now it is.
<1>13. \E k \in 1 .. Len(todo') : todo'[k].op = "sort" /\ todo'[k].node = node
  <2> HIDE DEF Entries
  <2>1. PICK t, tail : t = todo' /\ tail = Tail(todo)
    OBVIOUS
  <2>2. t = new \o tail /\ tail \in Seq(Entries) /\ Len(tail) \in Nat
    BY <1>1, <1>12, <2>1
  <2>3. len + 1 \in 1 .. Len(new) /\ len + 1 \in 1 .. Len(new) + Len(tail)
    BY <1>4, <1>7, <2>2
  <2>4. Len(t) = Len(new) + Len(tail) /\ t[len + 1] = new[len + 1]
    <3>1. new \in Seq(Entries)
      BY <1>7
    <3>2. Len(new \o tail) = Len(new) + Len(tail)
      BY <2>2, <3>1
    <3>3. PICK j : j = len + 1
      OBVIOUS
    <3>4. (new \o tail)[j] = new[j]
      BY <2>2, <2>3, <3>1, <3>3
    <3> QED BY <2>2, <3>2, <3>3, <3>4
  <2> QED BY <1>6, <1>7, <2>1, <2>3, <2>4
<1>14. SortsNew(todo', listsort_cache')
  <2>1. SortsNew(new, listsort_cache)
    BY <1>1, <1>8 DEF SortsNew
  <2>2. \A l \in 2 .. Len(todo) : todo[l].op = "sort" => listsort_cache[todo[l].node] = <<>>
    BY <1>2 DEF VWalk, SortsNew
  <2>3. SortsNew(todo', listsort_cache)
    <3> HIDE DEF Entries
    <3> QED BY <1>1, <1>7, <1>12, <2>1, <2>2, SortsNewOn
  <2> QED BY <1>12, <2>3
<1>15. SortsAbove(r, todo')
  <2>1. SortsAbove(r, new)
    <3> SUFFICES ASSUME NEW k \in 1 .. Len(new), NEW l \in 1 .. Len(new), k < l,
                        new[l].op = "sort"
                 PROVE  Level(r, new[k]) > r[new[l].node]
      BY DEF SortsAbove
    <3>1. l = len + 1 /\ k # l
      BY <1>8
    <3> QED BY <1>8, <1>9, <1>10, <3>1
  <2>2. \A k \in 1 .. Len(new) : Level(r, new[k]) >= Level(r, todo[1])
    BY <1>9, <1>10
  <2> HIDE DEF Entries
  <2> QED BY <1>1, <1>7, <1>10, <1>12, <2>1, <2>2, SortsOnward
<1>16. ASSUME NEW n \in Nodes
       PROVE  visits'[n] + Pending(n, todo', listsort_cache')
                <= Due(n, todo', listsort_cache', visits')
  <2>1. SameCalls(n, listsort_cache')
    BY <1>12 DEF SameCalls
  <2>2. PICK c, t, s, x, y :
          /\ c = listsort_cache' /\ t = todo' /\ s = visits'
          /\ x = Twice(n, todo, listsort_cache) /\ y = Twice(n, t, c)
    OBVIOUS
  <2>3. x \in {0, 1} /\ y \in {0, 1} /\ x <= y
    <3>1. \A p \in Nodes : listsort_cache[p] # <<>> => listsort_cache'[p] # <<>>
      BY <1>12
    <3>2. todo[1].op # "sort"
      BY <1>1, <1>2
    <3> HIDE DEF Entries
    <3> QED BY <1>1, <1>2, <1>7, <1>12, <2>2, <3>1, <3>2, TwiceKept
  <2>4. Pending(n, items, c) <= One(n \in Range(children[node])) /\ Pending(n, items, c) \in Nat
    <3> DEFINE f == [k \in 1 .. len |-> k]
    <3>1. \A k \in 1 .. Len(items) : /\ f[k] \in DOMAIN children[node]
                                     /\ CallsFor(items[k], n, c) => children[node][f[k]] = n
      BY <1>4, <1>5 DEF CallsFor
    <3>2. \A k, l \in 1 .. Len(items) : f[k] = f[l] => k = l
      BY <1>5
    <3> HIDE DEF f, Entries, CallsFor
    <3>3. Pending(n, items, c) <= One(n \in Range(children[node]))
      <4>1. PICK m \in Nodes : m = node
        BY <1>2
      <4>2. \A k \in 1 .. Len(items) : /\ f[k] \in DOMAIN children[m]
                                       /\ CallsFor(items[k], n, c) => children[m][f[k]] = n
        BY <3>1, <4>1
      <4>3. BranchesOK /\ items \in Seq(Entries)
        BY <1>2, <1>5
      <4>4. Pending(n, items, c) <= One(n \in Range(children[m]))
        BY <3>2, <4>2, <4>3, ChildrenCalled
      <4> QED BY <4>1, <4>4
    <3>4. Pending(n, items, c) \in Nat
      BY <1>5, PendingType
    <3> QED BY <3>3, <3>4
  <2>5. PICK visit \in {0, 1} : visit = One(n \in Range(children[node]))
    BY DEF One
  <2>6. Pending(n, new, c) = Pending(n, items, c) + visit
    <3>1. Pending(n, new, c) = Pending(n, items, c) + One(CallsFor(sort, n, c))
      <4> HIDE DEF Entries
      <4> QED BY <1>3, <1>5, <1>6, PendingAppend
    <3>2. CallsFor(sort, n, c) <=> n \in Range(children[node])
      BY <1>6 DEF CallsFor
    <3> QED BY <2>5, <3>1, <3>2 DEF One
  <2>7. PICK calls \in Nat : calls = Pending(n, new, c) /\ calls <= visit + visit
    BY <2>4, <2>5, <2>6
  <2>8. visit = 1 => x = 0 /\ y = 1
    <3> SUFFICES ASSUME visit = 1 PROVE x = 0 /\ y = 1
      OBVIOUS
    <3>1. n \in Range(children[node])
      BY <2>5 DEF One
    <3>2. parent[n] = node /\ n # 1
      BY <1>1, <1>2, <3>1 DEF BranchesOK, Range
    <3>3. ~Sorting(node, todo, listsort_cache)
      BY <1>1, <1>11 DEF Sorting
    <3>4. Sorting(node, t, c)
      BY <1>13, <2>2 DEF Sorting
    <3> QED BY <1>1, <2>2, <3>2, <3>3, <3>4 DEF Twice, One
  <2>9. calls + x <= y + visit
    BY <2>3, <2>5, <2>7, <2>8
  <2>10. n = 1 => calls = 0
    <3>1. 1 \notin Range(children[node])
      BY <1>2 DEF BranchesOK, Range
    <3> QED BY <2>5, <2>7, <3>1 DEF One
  <2>11. Affordable(n, new, t, c, s)
    <3>1. todo[1].op = "node" /\ s = [visits EXCEPT ![todo[1].node] = @ + 1]
      BY <1>1, <1>2, <2>2
    <3>2. visit = One(n \in Range(children[todo[1].node]))
      BY <1>2, <2>5
    <3> QED BY <2>2, <2>3, <2>7, <2>9, <2>10, <3>1, <3>2 DEF Affordable
  <2> HIDE DEF Entries
  <2> QED BY <1>1, <1>2, <1>7, <1>12, <2>1, <2>2, <2>11, Balanced
<1>17. /\ visits' \in [Nodes -> Nat] /\ CachedOnce(listsort_cache') /\ phase' = "walk"
       /\ UNCHANGED tree
  BY <1>1, <1>2, <1>12 DEF VWalk
<1> QED BY <1>10, <1>14, <1>15, <1>16, <1>17, AccountsOn

\* A list is sorted: its items are called for in the order found.
LEMMA SortListV ==
  ASSUME IInv, VInv, SortList
  PROVE  VInv'
<1>1. PICK order \in Orders(node) :
        /\ phase = "walk" /\ todo # <<>> /\ Head(todo).op = "sort"
        /\ UNCHANGED <<tree, phase, visits>>
        /\ listsort_cache' = [listsort_cache EXCEPT ![node] = order]
        /\ Then(ItemCalls("next", order))
  BY DEF SortList, Does
<1>2. /\ Head(todo) = todo[1] /\ todo[1].node = node /\ node \in Nodes /\ ctx \in Nat
      /\ children[node] \in Seq(Nodes) /\ VWalk /\ BranchesOK
      /\ EntryIn(todo[1], contexts, listsort_items, listsort_cache) /\ ListsOK
  BY <1>1, HeadIs DEF VInv, IInv
<1>3. PICK new, len, c : /\ new = ItemCalls("next", order) /\ len = Len(children[node])
                         /\ c = listsort_cache' /\ c = [listsort_cache EXCEPT ![node] = order]
  BY <1>1
<1>4. /\ len \in Nat /\ DOMAIN children[node] = 1 .. len
      /\ order \in Seq(Nat) /\ Len(order) = len /\ \A k \in 1 .. len : order[k] \in 1 .. len
      /\ \A k, l \in 1 .. len : order[k] = order[l] => k = l
  <2>1. len \in Nat /\ DOMAIN children[node] = 1 .. len /\ Len(listsort_items[node]) = len
    BY <1>1, <1>2, <1>3 DEF EntryIn
  <2>2. /\ order \in Seq(Nat) /\ Len(order) = len
        /\ \A k \in 1 .. len : order[k] \in 1 .. len
    BY <1>1, <2>1, OrdersType
  <2>3. order \in SetToSeqs(1 .. len) /\ Cardinality(1 .. len) = len
    BY <1>1, <2>1, FS_Interval DEF Orders
  <2>4. \A k, l \in 1 .. len : k # l => order[k] # order[l]
    BY <2>3 DEF SetToSeqs
  <2> QED BY <2>1, <2>2, <2>4
<1>5. /\ listsort_cache \in [Nodes -> Seq(Nat)] /\ listsort_cache[node] = <<>>
      /\ c[node] = order /\ \A p \in Nodes : p # node => c[p] = listsort_cache[p]
  <2>1. todo \in Seq(Entries)
    BY DEF IInv
  <2>2. 1 \in 1 .. Len(todo)
    <3> HIDE DEF Entries
    <3> QED BY <1>1, <2>1
  <2>3. listsort_cache[node] = <<>>
    BY <1>1, <1>2, <2>2 DEF VWalk, SortsNew
  <2> QED BY <1>2, <1>3, <2>3 DEF ListsOK
<1>6. /\ new \in Seq(Entries) /\ Len(new) = len /\ Then(new)
      /\ \A k \in 1 .. len : new[k].op = "next" /\ new[k].node = node /\ new[k].i = k
  <2>1. new = [k \in 1 .. len |-> Call("next", node, k, ctx)]
    BY <1>3, <1>4 DEF ItemCalls
  <2>2. \A k \in 1 .. len : /\ Call("next", node, k, ctx) \in Entries
                            /\ Call("next", node, k, ctx).op = "next"
                            /\ Call("next", node, k, ctx).node = node
                            /\ Call("next", node, k, ctx).i = k
    BY <1>2, <1>4, CallIs
  <2>3. Then(new)
    BY <1>1, <1>3
  <2> HIDE DEF Entries, Call
  <2>4. /\ new \in Seq(Entries) /\ Len(new) = len
        /\ \A k \in 1 .. len : new[k] = Call("next", node, k, ctx)
    BY <1>4, <2>1, <2>2
  <2> QED BY <2>2, <2>3, <2>4
<1>7. PICK r : IsRank(r) /\ SortsAbove(r, todo)
  BY <1>2 DEF VWalk
<1>8. /\ r[node] \in Nat /\ Level(r, todo[1]) = r[node] + 0
      /\ \A k \in 1 .. Len(new) : Level(r, new[k]) = r[node] + 1
  <2>1. r[node] \in Nat
    BY <1>2, <1>7 DEF IsRank
  <2>2. \A k \in 1 .. Len(new) : Level(r, new[k]) = r[node] + 1
    BY <1>6 DEF Level, InItem
  <2> QED BY <1>1, <1>2, <2>1, <2>2 DEF Level, InItem
\* What is behind is of other lists.
<1>9. \A l \in 2 .. Len(todo) :
        /\ todo[l].node \in Nodes
        /\ todo[l].op \in {"sort", "next"} => todo[l].node # node
  <2> TAKE l \in 2 .. Len(todo)
  <2>1. /\ todo[l] \in Entries
        /\ EntryIn(todo[l], contexts, listsort_items, listsort_cache)
    BY <1>1, HeadOK
  <2>2. todo[l].op = "sort" => todo[l].node # node
    <3>1. 1 \in 1 .. Len(todo) /\ l \in 1 .. Len(todo) /\ 1 < l
      OBVIOUS
    <3>2. todo[l].op = "sort" => Level(r, todo[1]) > r[todo[l].node]
      BY <1>7, <3>1 DEF SortsAbove
    <3> QED BY <1>8, <3>2
  <2>3. todo[l].op = "next" => todo[l].node # node
    <3>1. todo[l].op = "next" => todo[l].i \in 1 .. Len(listsort_cache[todo[l].node])
      BY <2>1 DEF EntryIn
    <3>2. Len(<<>>) = 0 /\ 1 .. 0 = {}
      OBVIOUS
    <3> QED BY <1>5, <3>1, <3>2
  <2>4. todo[l].node \in Nodes
    BY <2>1 DEF Entries
  <2> QED BY <2>2, <2>3, <2>4
<1>10. SortsNew(todo', c)
  <2>1. SortsNew(new, c)
    BY <1>6 DEF SortsNew
  <2>2. \A l \in 2 .. Len(todo) : todo[l].op = "sort" => c[todo[l].node] = <<>>
    <3>1. \A l \in 2 .. Len(todo) : l \in 1 .. Len(todo)
      OBVIOUS
    <3> QED BY <1>2, <1>5, <1>9, <3>1 DEF VWalk, SortsNew
  <2> HIDE DEF Entries
  <2> QED BY <1>1, <1>6, <2>1, <2>2, SortsNewOn
<1>11. CachedOnce(c)
  <2>1. ASSUME NEW n \in Nodes, NEW i \in 1 .. Len(c[n]), NEW j \in 1 .. Len(c[n]),
               c[n][i] = c[n][j]
        PROVE  i = j
    <3>1. CASE n = node
      BY <1>4, <1>5, <2>1, <3>1
    <3>2. CASE n # node
      BY <1>2, <1>5, <2>1, <3>2 DEF VWalk, CachedOnce
    <3> QED BY <3>1, <3>2
  <2> QED BY <2>1 DEF CachedOnce
<1>12. SortsAbove(r, todo')
  <2>1. SortsAbove(r, new)
    BY <1>6 DEF SortsAbove
  <2>2. \A k \in 1 .. Len(new) : Level(r, new[k]) >= Level(r, todo[1])
    BY <1>8
  <2> HIDE DEF Entries
  <2> QED BY <1>1, <1>6, <1>7, <2>1, <2>2, SortsOnward
<1>13. ASSUME NEW n \in Nodes
       PROVE  visits'[n] + Pending(n, todo', listsort_cache')
                <= Due(n, todo', listsort_cache', visits')
  <2>1. SameCalls(n, listsort_cache')
    <3>1. \A k \in 2 .. Len(todo) :
            CallsFor(todo[k], n, c) <=> CallsFor(todo[k], n, listsort_cache)
      BY <1>5, <1>9 DEF CallsFor
    <3> QED BY <1>3, <3>1 DEF SameCalls
  <2>2. PICK t, s, x, y : /\ t = todo' /\ s = visits' /\ s = visits
                          /\ x = Twice(n, todo, listsort_cache) /\ y = Twice(n, t, c)
    BY <1>1
  <2>3. x \in {0, 1} /\ y \in {0, 1} /\ x <= y
    <3>1. \A p \in Nodes : listsort_cache[p] # <<>> => listsort_cache'[p] # <<>>
      BY <1>3, <1>5
    <3>2. children[todo[1].node] # <<>> => listsort_cache'[todo[1].node] # <<>>
      <4>1. children[node] # <<>> => len # 0
        BY <1>2, <1>3
      <4>2. order = <<>> => len = 0
        BY <1>4
      <4> QED BY <1>2, <1>3, <1>5, <4>1, <4>2
    <3> HIDE DEF Entries
    <3> QED BY <1>1, <1>2, <1>3, <1>6, <2>2, <3>1, <3>2, TwiceKept
  <2>4. PICK call \in {0, 1} :
          /\ call = One(n \in Range(children[node]))
          /\ call = One(CallsFor(todo[1], n, listsort_cache))
    <3>1. CallsFor(todo[1], n, listsort_cache) <=> n \in Range(children[node])
      BY <1>1, <1>2 DEF CallsFor
    <3> QED BY <3>1 DEF One
  <2>5. PICK calls \in Nat : calls = Pending(n, new, c) /\ calls <= call
    <3>1. PICK m \in Nodes : m = node
      BY <1>2
    <3>2. \A k \in 1 .. Len(new) : /\ order[k] \in DOMAIN children[m]
                                   /\ CallsFor(new[k], n, c) => children[m][order[k]] = n
      BY <1>4, <1>5, <1>6, <3>1 DEF CallsFor
    <3>3. \A k, l \in 1 .. Len(new) : order[k] = order[l] => k = l
      BY <1>4, <1>6
    <3>4. BranchesOK /\ new \in Seq(Entries)
      BY <1>2, <1>6
    <3> HIDE DEF Entries, CallsFor
    <3>5. Pending(n, new, c) <= One(n \in Range(children[m]))
      BY <3>2, <3>3, <3>4, ChildrenCalled
    <3>6. Pending(n, new, c) \in Nat
      BY <3>4, PendingType
    <3> QED BY <2>4, <3>1, <3>5, <3>6
  <2>6. calls + x <= y + call
    BY <2>3, <2>4, <2>5
  <2>7. Affordable(n, new, t, c, s)
    BY <2>2, <2>3, <2>4, <2>5, <2>6 DEF Affordable
  <2> HIDE DEF Entries
  <2> QED BY <1>1, <1>2, <1>3, <1>6, <2>1, <2>2, <2>7, Balanced
<1>14. /\ visits' \in [Nodes -> Nat] /\ phase' = "walk" /\ UNCHANGED tree
  BY <1>1, <1>2 DEF VWalk
<1> QED BY <1>3, <1>7, <1>10, <1>11, <1>12, <1>13, <1>14, AccountsOn

-----------------------------------------------------------------------------
(* The tree, and the beginning and the end of the walk.                      *)

\* A node that is added is a child of its parent, once.
LEMMA ParseNodeV ==
  ASSUME IInv, EInv, VInv, ParseNode
  PROVE  VInv'
<1>1. PICK N, k, p, c : Adds(N, k, p, c)
  BY TreeGrows
<1>2. BranchesOK /\ phase' = "parse"
  BY DEF VInv, ParseNode
<1>3. /\ N \notin Nodes /\ N # 1 /\ p \in Nodes /\ 1 \in Nodes /\ Nodes' = Nodes \cup {N}
      /\ kind'[N] = k /\ \A n \in Nodes : kind'[n] = kind[n]
      /\ parent'[N] = p /\ \A n \in Nodes : parent'[n] = parent[n]
      /\ children'[N] = c /\ N \in Range(children'[p])
  BY <1>1 DEF Adds
<1>4. \A n \in Nodes : \A i \in DOMAIN children[n] :
        i \in DOMAIN children'[n] /\ children'[n][i] = children[n][i] /\ children[n][i] \in Nodes
  BY <1>1 DEF Adds
<1>5. \A n \in Nodes : \A i \in DOMAIN children'[n] :
        \/ i \in DOMAIN children[n] /\ children'[n][i] = children[n][i]
        \/ n = p /\ i = Len(children[p]) + 1 /\ children'[n][i] = N
  BY <1>1 DEF Adds
<1>6. c = <<>> \/ (k = "again" /\ \E m \in Nodes : c = children[m])
  BY <1>1 DEF Adds
<1>7. ASSUME NEW q \in Nodes', NEW i \in DOMAIN children'[q]
      PROVE  /\ children'[q][i] # 1
             /\ \A j \in DOMAIN children'[q] : children'[q][i] = children'[q][j] => i = j
             /\ kind'[q] = "sorted" => parent'[children'[q][i]] = q
  <2>1. CASE q = N
    <3>1. c # <<>>
      BY <1>3, <1>7, <2>1
    <3>2. PICK m \in Nodes : c = children[m] /\ k = "again"
      BY <1>6, <3>1
    <3> QED BY <1>2, <1>3, <1>7, <2>1, <3>2 DEF BranchesOK
  <2>2. CASE q # N
    <3>1. q \in Nodes
      BY <1>3, <2>2
    <3>2. CASE i \in DOMAIN children[q] /\ children'[q][i] = children[q][i]
      <4>1. children[q][i] # 1 /\ children[q][i] \in Nodes
        BY <1>2, <1>4, <3>1, <3>2 DEF BranchesOK
      <4>2. ASSUME NEW j \in DOMAIN children'[q], children'[q][i] = children'[q][j]
            PROVE  i = j
        <5>1. j \in DOMAIN children[q] /\ children'[q][j] = children[q][j]
          BY <1>3, <1>5, <3>1, <3>2, <4>1, <4>2
        <5> QED BY <1>2, <3>1, <3>2, <4>2, <5>1 DEF BranchesOK
      <4>3. kind'[q] = "sorted" => parent'[children'[q][i]] = q
        BY <1>2, <1>3, <3>1, <3>2, <4>1 DEF BranchesOK
      <4> QED BY <3>2, <4>1, <4>2, <4>3
    <3>3. CASE q = p /\ i = Len(children[p]) + 1 /\ children'[q][i] = N
      <4>1. ASSUME NEW j \in DOMAIN children'[q], children'[q][i] = children'[q][j]
            PROVE  i = j
        BY <1>3, <1>4, <1>5, <3>1, <3>3, <4>1
      <4> QED BY <1>3, <3>3, <4>1
    <3> QED BY <1>5, <1>7, <3>1, <3>2, <3>3
  <2> QED BY <2>1, <2>2
<1>8. ASSUME NEW n \in Nodes' \ {1}
      PROVE  parent'[n] \in Nodes' /\ n \in Range(children'[parent'[n]])
  <2>1. CASE n = N
    BY <1>3, <2>1
  <2>2. CASE n # N
    <3>1. n \in Nodes /\ parent[n] \in Nodes /\ n \in Range(children[parent[n]])
      BY <1>2, <1>3, <1>8, <2>2 DEF BranchesOK
    <3>2. PICK i \in DOMAIN children[parent[n]] : children[parent[n]][i] = n
      BY <3>1 DEF Range
    <3>3. i \in DOMAIN children'[parent[n]] /\ children'[parent[n]][i] = n
      BY <1>4, <3>1, <3>2
    <3>4. n \in Range(children'[parent[n]])
      BY <3>3 DEF Range
    <3> QED BY <1>3, <3>1, <3>4
  <2> QED BY <2>1, <2>2
<1>9. BranchesOK'
  BY <1>7, <1>8 DEF BranchesOK
<1> QED BY <1>2, <1>9 DEF VInv

LEMMA InitV == Init => VInv
<1> SUFFICES ASSUME Init PROVE VInv
  OBVIOUS
<1>1. kind = <<"struct">> /\ children = <<<<>>>> /\ phase = "parse"
  BY DEF Init
<1>2. Nodes = {1} /\ children[1] = <<>>
  BY <1>1 DEF Nodes
<1>3. BranchesOK
  BY <1>2 DEF BranchesOK
<1> QED BY <1>1, <1>3 DEF VInv

\* The walk begins with a call for the root.
LEMMA ParsedV ==
  ASSUME IInv, EInv, VInv, Parsed
  PROVE  VInv'
<1>1. /\ phase' = "walk" /\ UNCHANGED tree /\ todo' = <<Call("node", 1, 0, 1)>>
      /\ listsort_cache' = [n \in Nodes |-> <<>>] /\ visits' = [n \in Nodes |-> 0]
  BY DEF Parsed
<1>2. PICK e, t, c, s : /\ e = Call("node", 1, 0, 1) /\ t = todo' /\ c = listsort_cache'
                        /\ s = visits' /\ t = <<e>> /\ c = [n \in Nodes |-> <<>>]
                        /\ s = [n \in Nodes |-> 0]
  BY <1>1
<1>3. e.op = "node" /\ e.node = 1 /\ Len(t) = 1 /\ t[1] = e /\ t \in Seq({e})
  BY <1>2 DEF Call
<1>4. SortsNew(t, c) /\ CachedOnce(c) /\ \A r : SortsAbove(r, t)
  <2>1. \A k \in 1 .. Len(t) : t[k].op = "node"
    BY <1>3
  <2>2. Len(<<>>) = 0 /\ 1 .. 0 = {}
    OBVIOUS
  <2>3. CachedOnce(c)
    BY <1>2, <2>2 DEF CachedOnce
  <2> QED BY <2>1, <2>3 DEF SortsNew, SortsAbove
<1>5. \E r : IsRank(r) /\ SortsAbove(r, t)
  BY <1>4 DEF EInv, RankedTree
<1>6. ASSUME NEW n \in Nodes PROVE s[n] + Pending(n, t, c) <= Due(n, t, c, s)
  <2>1. s[n] = 0
    BY <1>2
  <2>2. CASE n = 1
    <3>1. \A k, l \in 1 .. Len(t) : k = l
      BY <1>3
    <3>2. Pending(n, t, c) <= 1 /\ Pending(n, t, c) \in Nat
      <4> HIDE DEF CallsFor
      <4> QED BY <1>3, <3>1, OnePending, PendingType
    <3> QED BY <2>1, <2>2, <3>2 DEF Due
  <2>3. CASE n # 1
    <3>1. \A k \in 1 .. Len(t) : ~CallsFor(t[k], n, c)
      BY <1>3, <2>3 DEF CallsFor
    <3>2. Pending(n, t, c) = 0
      <4> HIDE DEF CallsFor
      <4> QED BY <3>1, NonePending
    <3>3. IsFiniteSet(Parents(n)) /\ Parents(n) \in SUBSET Nodes
      BY ParentsFinite DEF IInv
    <3>4. \A p \in Parents(n) : s[p] \in Nat
      BY <1>2, <3>3
    <3>5. Total(s, Parents(n)) \in Nat
      BY <3>3, <3>4, TotalSame
    <3>6. Twice(n, t, c) \in {0, 1}
      BY DEF Twice, One
    <3>7. Due(n, t, c, s) = Total(s, Parents(n)) + Twice(n, t, c)
      BY <2>3 DEF Due
    <3> QED BY <2>1, <3>2, <3>5, <3>6, <3>7
  <2> QED BY <2>2, <2>3
<1>7. visits' \in [Nodes -> Nat]
  BY <1>1
<1> QED BY <1>1, <1>2, <1>4, <1>5, <1>6, <1>7, AccountsOn

LEMMA DigestV ==
  ASSUME VInv, Digest
  PROVE  VInv'
<1>1. phase' = "done" /\ UNCHANGED tree
  BY DEF Digest
<1>2. kind' = kind /\ children' = children /\ parent' = parent /\ Nodes' = Nodes
  BY <1>1, SameTree
<1>3. BranchesOK'
  BY <1>2 DEF VInv, BranchesOK
<1> QED BY <1>1, <1>3 DEF VInv

LEMMA StutterV ==
  ASSUME VInv, UNCHANGED vars
  PROVE  VInv'
<1>1. /\ UNCHANGED tree /\ todo' = todo /\ phase' = phase
      /\ listsort_cache' = listsort_cache /\ visits' = visits
  BY DEF vars
<1>2. kind' = kind /\ children' = children /\ parent' = parent /\ Nodes' = Nodes
  BY <1>1, SameTree
<1>3. CASE phase = "walk"
  <2>1. VWalk
    BY <1>3 DEF VInv
  <2>2. /\ SortsNew(todo', listsort_cache') /\ CachedOnce(listsort_cache')
        /\ visits' \in [Nodes -> Nat] /\ \E r : IsRank(r) /\ SortsAbove(r, todo')
    BY <1>1, <2>1 DEF VWalk
  <2>3. \A n \in Nodes : visits'[n] + Pending(n, todo', listsort_cache')
                           <= Due(n, todo', listsort_cache', visits')
    BY <1>1, <2>1 DEF VWalk
  <2> QED BY <1>1, <1>3, <2>2, <2>3, AccountsOn
<1>4. CASE phase # "walk"
  <2>1. BranchesOK'
    BY <1>2 DEF VInv, BranchesOK
  <2> QED BY <1>1, <1>4, <2>1 DEF VInv
<1> QED BY <1>3, <1>4

LEMMA NextV == IInv /\ EInv /\ VInv /\ [Next]_vars => VInv'
BY ParseNodeV, ParsedV, EndsV, EachChildV, FieldV, CachedListV, NewListV, InitContextV,
   SortListV, NextItemV, DigestV, StutterV DEF Next

\* Visits and the calls for a node that are left to do are paid for by the visits of its
\* parents and the sorting of its list.
THEOREM VisitsInvariance == Spec => [](IInv /\ EInv /\ VInv)
<1>1. Init => VInv
  BY InitV
<1>2. IInv /\ EInv /\ VInv /\ [Next]_vars => VInv'
  BY NextV
<1> QED BY <1>1, <1>2, HashInvariant, PTL DEF Spec

\* A node is visited once for each visit of a parent, and once more if its list is sorted.
\* The sum over the ways up to the root is Expense.
LEMMA Affords ==
  ASSUME IInv, EInv, VInv, phase = "walk"
  PROVE  \A n \in Nodes : visits[n] <= Expense[n]
<1>1. /\ TreeOK /\ RankedTree /\ VWalk /\ BranchesOK /\ visits \in [Nodes -> Nat]
      /\ todo \in Seq(Entries)
  BY DEF IInv, EInv, VInv, VWalk
<1>2. /\ Expense \in [Nodes -> Nat] /\ \A n \in Nodes : Expense[n] = CostOf(n, Expense)
  BY <1>1, ExpenseIs
<1>3. PICK r : IsRank(r)
  BY <1>1 DEF VWalk
<1>4. r \in [Nodes -> Nat]
  BY <1>1, <1>3 DEF IsRank, TreeOK
<1> DEFINE T == {n \in Nodes : ~(visits[n] <= Expense[n])}
<1>5. T = {}
  <2>1. SUFFICES ASSUME T # {} PROVE FALSE
    OBVIOUS
  <2>2. PICK n \in T : \A m \in T : r[n] <= r[m]
    <3> DEFINE R == {r[m] : m \in T}
    <3>1. R \in SUBSET Nat /\ R # {}
      BY <1>4, <2>1
    <3>2. PICK x \in R : \A y \in R : x <= y
      <4> HIDE DEF R
      <4> QED BY <3>1, LeastNat
    <3> QED BY <3>2
  <2>3. n \in Nodes /\ visits[n] \in Nat /\ Expense[n] \in Nat /\ ~(visits[n] <= Expense[n])
    BY <1>1, <1>2, <2>2
  <2>4. visits[n] <= Due(n, todo, listsort_cache, visits)
    <3>1. visits[n] + Pending(n, todo, listsort_cache) <= Due(n, todo, listsort_cache, visits)
      BY <1>1, <2>3 DEF VWalk
    <3>2. Pending(n, todo, listsort_cache) \in Nat
      <4> HIDE DEF Entries
      <4> QED BY <1>1, PendingType
    <3>3. IsFiniteSet(Parents(n)) /\ Parents(n) \in SUBSET Nodes
      BY <1>1, ParentsFinite
    <3>4. \A p \in Parents(n) : visits[p] \in Nat
      BY <1>1, <3>3
    <3>5. Total(visits, Parents(n)) \in Nat
      BY <3>3, <3>4, TotalSame
    <3>6. Due(n, todo, listsort_cache, visits) \in Nat
      BY <3>5 DEF Due, Twice, One
    <3> QED BY <2>3, <3>1, <3>2, <3>6
  <2>5. CASE n = 1
    <3>1. Due(n, todo, listsort_cache, visits) = 1 /\ Expense[n] = 1
      BY <1>2, <2>3, <2>5 DEF Due, CostOf
    <3> QED BY <2>3, <2>4, <3>1
  <2>6. CASE n # 1
    <3>1. IsFiniteSet(Parents(n)) /\ Parents(n) \in SUBSET Nodes
      BY <1>1, ParentsFinite
    <3>2. ASSUME NEW p \in Parents(n)
          PROVE  visits[p] \in Nat /\ Expense[p] \in Nat /\ visits[p] <= Expense[p]
      <4>1. p \in Nodes
        BY <3>1
      <4>2. PICK i \in DOMAIN children[p] : children[p][i] = n
        BY <3>2 DEF Parents, Range
      <4>3. r[n] = r[p] + 1 /\ r[p] \in Nat
        BY <1>3, <4>1, <4>2, ChildLevel
      <4>4. p \notin T
        BY <2>2, <4>3
      <4> QED BY <1>1, <1>2, <4>1, <4>4
    <3>3. /\ Total(visits, Parents(n)) \in Nat /\ Total(Expense, Parents(n)) \in Nat
          /\ Total(visits, Parents(n)) <= Total(Expense, Parents(n))
      BY <3>1, <3>2, TotalNoLess
    <3>4. PICK x, y \in {0, 1} : /\ x = Twice(n, todo, listsort_cache)
                                 /\ y = (IF kind[parent[n]] = "sorted" THEN 1 ELSE 0)
                                 /\ x <= y
      BY DEF Twice, One
    <3>5. Due(n, todo, listsort_cache, visits) = Total(visits, Parents(n)) + x
      BY <2>6, <3>4 DEF Due
    <3>6. Expense[n] = Total(Expense, Parents(n)) + y
      BY <1>2, <2>3, <2>6, <3>4 DEF CostOf
    <3> QED BY <2>3, <2>4, <3>3, <3>4, <3>5, <3>6
  <2> QED BY <2>5, <2>6
<1> QED BY <1>5

\* _fingerprintNode is called for a node no more often than for the parents together, and
\* once more if it is in a sorted list: the cache of sorted lists works for trees of any
\* size, however deep lists nest.
THEOREM VisitsBoundedTheorem == Spec => []VisitsBounded
<1>1. IInv /\ EInv /\ VInv => VisitsBounded
  BY Affords DEF VisitsBounded
<1> QED BY <1>1, VisitsInvariance, PTL
=============================================================================
