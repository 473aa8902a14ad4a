----------------------------- MODULE Fingerprint -----------------------------
(***************************************************************************)
(* pg_query_fingerprint_with_opts with printTokens: one hash over a parse    *)
(* tree, in which the items of some lists count as a set. To sort such a    *)
(* list each item is hashed in a context of its own; the sorted items are   *)
(* cached by list. A hash is the sequence of the strings fed into it, so    *)
(* that hashes are equal only for equal input, and hashes are ordered as    *)
(* these sequences. A field is named after what it holds: "sorted" stands   *)
(* for fromClause, targetList, cols, rexpr, valuesLists and args.           *)
(***************************************************************************)
EXTENDS Integers, SequencesExt

CONSTANTS
  MaxNodes,  \* bound: nodes of the tree
  MaxDepth   \* nodes this deep are cut off: 100 in the code

ASSUME FingerprintAssumption == MaxNodes \in Nat \ {0} /\ MaxDepth \in Nat \ {0}

VARIABLES
  kind, parent, children,  \* the tree, its nodes in the order of the text
  phase,                   \* "parse", "walk" or "done"
  todo,                    \* what is left to do: the call stack, unrolled
  contexts,                \* hash of each context; the first one is that of the result
  tokens,                  \* of the first context
  listsort_items,          \* list -> hashes of its items
  listsort_cache,          \* list -> positions of its items in the order of their hashes
  visits                   \* history: calls of _fingerprintNode, by node

tree == <<kind, parent, children>>
vars == <<tree, phase, todo, contexts, tokens, listsort_items, listsort_cache, visits>>

Lists == {"sorted", "plain"}
\* "const" is not fingerprinted, "again" a MultiAssignRef that shares its source with the
\* one before it, "null" an item that is a NULL pointer.
Kinds == Lists \cup {"struct", "again", "const", "null", "a", "b"}

-----------------------------------------------------------------------------
(* The tree.                                                                 *)

Nodes == 1 .. Len(kind)

Depth[n \in Nodes] == IF n = 1 THEN 0 ELSE Depth[parent[n]] + 1
Ancestors[n \in Nodes] == {n} \cup (IF n = 1 THEN {} ELSE Ancestors[parent[n]])

Init ==
  /\ kind = <<"struct">> /\ parent = <<0>> /\ children = <<<<>>>> /\ phase = "parse"
  /\ todo = <<>> /\ contexts = <<<<>>>> /\ tokens = <<>>
  /\ listsort_items = <<>> /\ listsort_cache = <<>> /\ visits = <<>>

\* A list in a list has the field name of the outer one.
FitsIn(k, p) ==
  /\ kind[p] \in Lists \cup {"struct"}
  /\ k \in Lists => kind[p] \in {k, "struct"}
  /\ k = "null" => kind[p] \in Lists
  /\ k = "again" => kind[p] \in Lists

\* What a MultiAssignRef shares with the struct in front of it in its list.
Shared(p) ==
  {children[m] : m \in {n \in Nodes : /\ parent[n] = p /\ kind[n] = "struct"
                                      /\ \A o \in n + 1 .. Len(kind) : parent[o] # p}}

ParseNode ==
  /\ phase = "parse" /\ Len(kind) < MaxNodes
  /\ \E k \in Kinds, p \in Ancestors[Len(kind)] :
       /\ FitsIn(k, p)
       /\ \E c \in IF k = "again" THEN Shared(p) ELSE {<<>>} :
            children' = Append([children EXCEPT ![p] = Append(@, Len(kind) + 1)], c)
       /\ kind' = Append(kind, k) /\ parent' = Append(parent, p)
  /\ UNCHANGED <<phase, todo, contexts, tokens, listsort_items, listsort_cache, visits>>

\* What is to be done for a node, or the i-th item of a list, in a context.
Call(op, n, i, c) == [op |-> op, node |-> n, i |-> i, ctx |-> c, prev |-> <<>>]

\* The grammar makes no empty lists.
Parsed ==
  /\ phase = "parse"
  /\ \A n \in Nodes : kind[n] \in Lists => children[n] # <<>>
  /\ phase' = "walk" /\ todo' = <<Call("node", 1, 0, 1)>>
  /\ listsort_items' = [n \in Nodes |-> <<>>] /\ listsort_cache' = [n \in Nodes |-> <<>>]
  /\ visits' = [n \in Nodes |-> 0]
  /\ UNCHANGED <<tree, contexts, tokens>>

-----------------------------------------------------------------------------
(* The walk, and the hash of the context it is in.                           *)

\* A step of the walk takes the first thing to do and puts what it calls in its place.
Does(op) == phase = "walk" /\ todo # <<>> /\ Head(todo).op = op
node == Head(todo).node
ctx == Head(todo).ctx
Then(calls) == todo' = calls \o Tail(todo)
Calls(op, ns) == [i \in 1 .. Len(ns) |-> Call(op, ns[i], 0, ctx)]
ItemCalls(op, is) == [i \in 1 .. Len(is) |-> Call(op, node, i, ctx)]

Hash == contexts[ctx]
write_tokens == ctx = 1
SetHash(h) == contexts' = [contexts EXCEPT ![ctx] = h]

FingerprintString(str) ==
  /\ SetHash(Append(Hash, str))
  /\ tokens' = IF write_tokens THEN Append(tokens, str) ELSE tokens

Code == [struct |-> 1, sorted |-> 2, a |-> 3, plain |-> 4, again |-> 5, const |-> 6, b |-> 7]
Less(g, h) ==
  \E k \in 1 .. Len(h) :
    /\ k <= Len(g) + 1 /\ \A j \in 1 .. k - 1 : g[j] = h[j]
    /\ k <= Len(g) => Code[g[k]] < Code[h[k]]

-----------------------------------------------------------------------------
(* _fingerprintNode, by the kind of node.                                    *)

Visit == Does("node") /\ visits' = [visits EXCEPT ![node] = @ + 1]

Ignored == Depth[node] >= MaxDepth \/ kind[node] \in {"const", "null"}

FingerprintNothing ==
  /\ Visit /\ Ignored /\ Then(<<>>)
  /\ UNCHANGED <<tree, phase, contexts, tokens, listsort_items, listsort_cache>>

\* A String, and the like.
FingerprintValue ==
  /\ Visit /\ ~Ignored /\ kind[node] \in {"a", "b"}
  /\ FingerprintString(kind[node]) /\ Then(<<>>)
  /\ UNCHANGED <<tree, phase, listsort_items, listsort_cache>>

FingerprintStruct ==
  /\ Visit /\ ~Ignored /\ kind[node] \in {"struct", "again"}
  /\ FingerprintString(kind[node])
  /\ Then(Calls("field", children[node]))
  /\ UNCHANGED <<tree, phase, listsort_items, listsort_cache>>

FingerprintPlainList ==
  /\ Visit /\ ~Ignored /\ kind[node] = "plain"
  /\ Then(Calls("node", children[node]))
  /\ UNCHANGED <<tree, phase, contexts, tokens, listsort_items, listsort_cache>>

-----------------------------------------------------------------------------
(* A field: its name is taken back if nothing follows it.                    *)

Field ==
  /\ Does("field")
  /\ FingerprintString(kind[node])
  /\ Then(<<Call("node", node, 0, ctx), [Call("ended", node, 0, ctx) EXCEPT !.prev = Hash]>>)
  /\ UNCHANGED <<tree, phase, listsort_items, listsort_cache, visits>>

\* DISTINCT without expressions, for one, is a list of one NULL.
OnlyNull(n) == kind[n] \in Lists /\ Len(children[n]) = 1 /\ kind[children[n][1]] = "null"

Empty == Len(Hash) = Len(Head(todo).prev) + 1 /\ ~OnlyNull(node)

FieldKept ==
  /\ Does("ended") /\ ~Empty /\ Then(<<>>)
  /\ UNCHANGED <<tree, phase, contexts, tokens, listsort_items, listsort_cache, visits>>


\* Mutant: the token is deleted in every context.
TailDeleted == Front(tokens)

TokensBack == IF write_tokens THEN Front(tokens) ELSE tokens

FieldTakenBack ==
  /\ Does("ended") /\ Empty /\ Then(<<>>)
  /\ SetHash(Head(todo).prev) /\ tokens' = TokensBack
  /\ UNCHANGED <<tree, phase, listsort_items, listsort_cache, visits>>

-----------------------------------------------------------------------------
(* _fingerprintList, for the fields whose items are sorted.                  *)


\* Mutant: nested contexts do not share the cache with the outer one.
CachedOutside(n) == listsort_cache[n] # <<>> /\ write_tokens

Cached(n) == listsort_cache[n] # <<>>

FingerprintCachedList ==
  /\ Visit /\ ~Ignored /\ kind[node] = "sorted" /\ Cached(node)
  /\ Then(ItemCalls("next", listsort_cache[node]))
  /\ UNCHANGED <<tree, phase, contexts, tokens, listsort_items, listsort_cache>>

FingerprintNewList ==
  /\ Visit /\ ~Ignored /\ kind[node] = "sorted" /\ ~Cached(node)
  /\ listsort_items' = [listsort_items EXCEPT ![node] = [i \in 1 .. Len(children[node]) |-> <<>>]]
  /\ Then(Append(ItemCalls("item", children[node]), Call("sort", node, 0, ctx)))
  /\ UNCHANGED <<tree, phase, contexts, tokens, listsort_cache>>

InitContext ==
  /\ Does("item")
  /\ contexts' = Append(contexts, <<>>)
  /\ LET i == Head(todo).i
         fctx == Len(contexts) + 1
     IN  Then(<<Call("node", children[node][i], 0, fctx), Call("digest", node, i, fctx)>>)
  /\ UNCHANGED <<tree, phase, tokens, listsort_items, listsort_cache, visits>>

FreeContext ==
  /\ Does("digest")
  /\ listsort_items' = [listsort_items EXCEPT ![node][Head(todo).i] = Hash]
  /\ contexts' = SubSeq(contexts, 1, ctx - 1)
  /\ Then(<<>>)
  /\ UNCHANGED <<tree, phase, tokens, listsort_cache, visits>>


\* Mutant: the items stay in the order of the list.
AsListed(n) == {[i \in DOMAIN listsort_items[n] |-> i]}

\* pg_qsort is not stable: items with equal hashes may come in any order.
Orders(n) ==
  LET hashes == listsort_items[n]
  IN  {order \in SetToSeqs(1 .. Len(hashes)) :
         \A i, j \in DOMAIN order : i < j => ~Less(hashes[order[j]], hashes[order[i]])}

SortList ==
  /\ Does("sort")
  /\ \E order \in Orders(node) :
       /\ listsort_cache' = [listsort_cache EXCEPT ![node] = order]
       /\ Then(ItemCalls("next", order))
  /\ UNCHANGED <<tree, phase, contexts, tokens, listsort_items, visits>>

\* "Ignore duplicates"
Repeats(n, i) ==
  LET order == listsort_cache[n]
  IN  i > 1 /\ listsort_items[n][order[i - 1]] = listsort_items[n][order[i]]

NextItem ==
  /\ Does("next")
  /\ LET i == Head(todo).i
     IN  IF Repeats(node, i) THEN Then(<<>>)
         ELSE Then(<<Call("node", children[node][listsort_cache[node][i]], 0, ctx)>>)
  /\ UNCHANGED <<tree, phase, contexts, tokens, listsort_items, listsort_cache, visits>>

Digest ==
  /\ phase = "walk" /\ todo = <<>>
  /\ phase' = "done"
  /\ UNCHANGED <<tree, todo, contexts, tokens, listsort_items, listsort_cache, visits>>

Next ==
  \/ ParseNode \/ Parsed
  \/ FingerprintNothing \/ FingerprintValue \/ FingerprintStruct \/ FingerprintPlainList
  \/ Field \/ FieldKept \/ FieldTakenBack
  \/ FingerprintCachedList \/ FingerprintNewList \/ InitContext \/ FreeContext
  \/ SortList \/ NextItem \/ Digest

Spec == Init /\ [][Next]_vars

-----------------------------------------------------------------------------
(* Correctness.                                                              *)

\* A set of hashes in order.
Sorted(set) ==
  CHOOSE hashes \in [1 .. Cardinality(set) -> set] :
    \A i, j \in DOMAIN hashes : i < j => Less(hashes[i], hashes[j])

\* A field with this inside, if anything.
Named(n, strings) ==
  IF strings = <<>> /\ ~OnlyNull(n) THEN <<>> ELSE <<kind[n]>> \o strings

\* The strings that should be hashed for a node, given those of its items.
ExpectedOf(n, items) ==
  IF Depth[n] >= MaxDepth \/ kind[n] \in {"const", "null"} THEN <<>>
  ELSE CASE kind[n] \in {"a", "b"} -> <<kind[n]>>
         [] kind[n] \in {"struct", "again"} ->
              <<kind[n]>> \o FlattenSeq([i \in DOMAIN items |-> Named(children[n][i], items[i])])
         [] kind[n] = "plain" -> FlattenSeq(items)
         [] kind[n] = "sorted" -> FlattenSeq(Sorted(Range(items)))

\* Without cache and contexts: the items of a sorted list are the set of their strings.
Expected[n \in Nodes] ==
  ExpectedOf(n, [i \in DOMAIN children[n] |-> Expected[children[n][i]]])

\* The fingerprint is that of the definition above: the same in whatever order and how
\* often the items of sorted lists come, with the cache and the depth limit in place.
SameAsReference == phase = "done" => contexts = <<Expected[1]>>

\* The tokens printed are those the hash has seen, with field names taken back in some
\* context or other.
TokensAgree == tokens = contexts[1]

Parents(n) == {p \in Nodes : n \in Range(children[p])}
Expense[n \in Nodes] ==
  IF n = 1 THEN 1
  ELSE MapThenSumSet(LAMBDA p : Expense[p], Parents(n))
         + (IF kind[parent[n]] = "sorted" THEN 1 ELSE 0)

\* "this cache is important so we avoid exponential runtime behavior": in a tree a node is
\* visited once, and once more for each sorted list it is in, however deep they nest.
VisitsBounded == phase = "walk" => \A n \in Nodes : visits[n] <= Expense[n]
=============================================================================
