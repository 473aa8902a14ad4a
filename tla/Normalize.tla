----------------------------- MODULE Normalize -----------------------------
(***************************************************************************)
(* How pg_query_normalize numbers the constants it replaces by $n: the walk  *)
(* of const_record_walker over a parse tree and the numbers that             *)
(* generate_normalized_query writes. The tree is not given: every step of    *)
(* the walk chooses what it meets next. A constant is its place in           *)
(* clocations; the text between the constants is left out.                   *)
(***************************************************************************)
EXTENDS Integers, Sequences, FiniteSets

CONSTANTS
  Params,     \* numbers of the $n in the input
  Fps,        \* fingerprints of expressions
  SelectFps,  \* those that tell of a SELECT with a target list inside
  MaxDepth,   \* bound: nested SELECTs
  MaxWalk,    \* bound: steps into leaves and sub-SELECTs
  MaxTargets, \* bound: target list elements
  Unwalked,   \* TRUE: there may be $n in the parts the walker does not enter
  Folding,    \* TRUE: expressions of one fingerprint may differ in more than which of its
              \* places hold a constant and which a $n
  DeepTrees   \* TRUE: expressions may be deeper than the fingerprint looks

ASSUME NormalizeAssumption ==
  /\ Params \subseteq Nat \ {0} /\ SelectFps \subseteq Fps /\ Fps # {}
  /\ MaxDepth \in Nat /\ MaxWalk \in Nat /\ MaxTargets \in Nat
  /\ Unwalked \in BOOLEAN /\ Folding \in BOOLEAN /\ DeepTrees \in BOOLEAN

VARIABLES
  ids,       \* clocations[].param_id: negative for a number of our own
  highest,   \* highest_normalize_param_id
  extern,    \* highest_extern_param_id
  refs,      \* param_refs[0 .. param_refs_count - 1]
  bufSize,   \* param_refs_buf_size, 0 while param_refs is NULL
  depth,     \* SELECTs the walk is in
  phase,     \* per SELECT: the clause being walked
  own,       \* per SELECT: its target list elements, as indices of fps and lists
  fps,       \* fingerprints of the target list elements
  lists,     \* and their FpAndParamRefs.param_refs
  used,      \* elements deleted from their fp_and_param_refs_list
  match,     \* per SELECT: fppr of the GROUP BY item being walked, 0 for NULL
  first,     \* per SELECT: clocations_count when its present element began
  sub,       \* the SELECTs whose present element has a SELECT with a target list inside
  itemFp,    \* per SELECT: fingerprint of the GROUP BY item being walked
  stage,     \* "walk", then "done" once the normalized query is written
  params,    \* history: numbers of the $n walked or passed over
  walked,    \* history: the leaves and sub-SELECTs walked
  walkFrom,  \* history, per SELECT: Len(walked) when its present element began
  bound,     \* history, per SELECT: fingerprints of its elements and items that hold a $n
  walks,     \* history, per target list element: its part of walked
  offsets,   \* history, per target list element: its first in ids
  copied     \* history: the constants that took over the number of another

counters == <<ids, highest>>
buffer   == <<refs, bufSize>>
elements == <<fps, lists, walks, offsets>>
element  == <<match, first, sub, itemFp, walkFrom, bound>>
vars == <<counters, extern, buffer, depth, phase, own, elements, used, element, stage,
          params, walked, copied>>

Levels == 1 .. MaxDepth
Phases == {"head", "target", "targets", "from", "group", "item", "rest"}

\* Marks of a history: a constant, the begin and the end of a SELECT; a positive
\* number is a ParamRef.
CONST == 0
OPEN == -1
CLOSE == -2

TypeOK ==
  /\ ids \in Seq(Int) /\ highest \in Int /\ extern \in Nat
  /\ refs \in Seq(Int) /\ bufSize \in Nat
  /\ depth \in 0 .. MaxDepth
  /\ phase \in [Levels -> Phases]
  /\ own \in [Levels -> SUBSET Nat]
  /\ fps \in Seq(Fps) /\ lists \in Seq(Seq(Int)) /\ used \in SUBSET Nat
  /\ match \in [Levels -> Nat] /\ first \in [Levels -> Nat]
  /\ sub \in SUBSET Levels /\ itemFp \in [Levels -> Fps]
  /\ stage \in {"walk", "done"} /\ params \in SUBSET Params
  /\ walked \in Seq(Params \cup {CONST, OPEN, CLOSE})
  /\ walkFrom \in [Levels -> Nat] /\ bound \in [Levels -> SUBSET Fps]
  /\ walks \in Seq(Seq(Params \cup {CONST, OPEN, CLOSE})) /\ offsets \in Seq(Nat)
  /\ copied \subseteq DOMAIN ids

Init ==
  /\ ids = <<>> /\ highest = 1 /\ extern = 0
  /\ refs = <<>> /\ bufSize = 0
  /\ depth = 0 /\ phase = [d \in Levels |-> "head"]
  /\ own = [d \in Levels |-> {}] /\ fps = <<>> /\ lists = <<>> /\ used = {}
  /\ match = [d \in Levels |-> 0] /\ first = [d \in Levels |-> 0]
  /\ sub = {}
  /\ itemFp = [d \in Levels |-> CHOOSE fp \in Fps : TRUE]
  /\ stage = "walk" /\ params = {}
  /\ walked = <<>> /\ walkFrom = [d \in Levels |-> 0]
  /\ bound = [d \in Levels |-> {}]
  /\ walks = <<>> /\ offsets = <<>> /\ copied = {}

\* The walker is among expressions: outside all SELECTs or in one of their clauses.
Walking ==
  /\ stage = "walk" /\ Len(walked) < MaxWalk
  /\ depth > 0 => phase[depth] \in {"head", "target", "from", "item", "rest"}

\* param_refs is not NULL
Recording == bufSize > 0

In(d, p) == stage = "walk" /\ depth = d /\ phase[d] = p

-----------------------------------------------------------------------------
(* Leaves.                                                                   *)


\* Mutant: the buffer grows one entry too late.
RecordRefLate(id) ==
  IF Recording
  THEN /\ refs' = Append(refs, id)
       /\ bufSize' = IF Len(refs) >= bufSize THEN 2 * bufSize ELSE bufSize
  ELSE UNCHANGED buffer

\* Remember a param ref of the present target list element.
RecordRef(id) ==
  IF Recording
  THEN /\ refs' = Append(refs, id)
       /\ bufSize' = IF Len(refs) + 1 >= bufSize THEN 2 * bufSize ELSE bufSize
  ELSE UNCHANGED buffer

\* RecordConstLocation, for an A_Const, a DefElem with a string argument, ...
RecordConstLocation ==
  /\ Walking
  /\ ids' = Append(ids, -highest)
  /\ highest' = highest + 1
  /\ RecordRef(-highest)
  /\ walked' = Append(walked, CONST)
  /\ UNCHANGED <<extern, depth, phase, own, elements, used, element, stage, params, copied>>


\* Mutant: the highest number is only tracked in target lists.
ParamRefInTargets(n) ==
  /\ Walking
  /\ extern' = IF Recording /\ n > extern THEN n ELSE extern
  /\ RecordRef(n)
  /\ params' = params \cup {n}
  /\ walked' = Append(walked, n)
  /\ UNCHANGED <<counters, depth, phase, own, elements, used, element, stage, copied>>

ParamRef(n) ==
  /\ Walking
  /\ extern' = IF n > extern THEN n ELSE extern
  /\ RecordRef(n)
  /\ params' = params \cup {n}
  /\ walked' = Append(walked, n)
  /\ UNCHANGED <<counters, depth, phase, own, elements, used, element, stage, copied>>

\* A $n in a part that is not walked: type modifiers, a node type the tree walker
\* raises an error for, the body of CREATE FUNCTION, and every SELECT when only
\* utility statements are normalized.
PassOver(n) ==
  /\ Unwalked /\ Walking
  /\ params' = params \cup {n}
  /\ UNCHANGED <<counters, extern, buffer, depth, phase, own, elements, used, element,
                 stage, walked, copied>>

-----------------------------------------------------------------------------
(* The T_SelectStmt case.                                                    *)

BeginSelect ==
  /\ Walking /\ depth < MaxDepth
  /\ depth' = depth + 1
  /\ phase' = [phase EXCEPT ![depth + 1] = "head"]
  /\ own' = [own EXCEPT ![depth + 1] = {}]
  /\ bound' = [bound EXCEPT ![depth + 1] = {}]
  /\ walked' = Append(walked, OPEN)
  /\ UNCHANGED <<counters, extern, buffer, elements, used, match, first, sub, itemFp, walkFrom,
                 stage, params, copied>>

\* A fingerprint looks 100 levels deep; what the item it was taken of has in these
\* levels has to agree with what it tells.
Visible == \A d \in Levels : d < depth /\ phase[d] = "item" => itemFp[d] \in SelectFps

BeginTarget(d) ==
  /\ (In(d, "head") \/ In(d, "targets"))
  /\ Len(fps) < MaxTargets
  /\ ~DeepTrees => Visible
  /\ phase' = [phase EXCEPT ![d] = "target"]
  /\ refs' = <<>> /\ bufSize' = 1
  /\ first' = [first EXCEPT ![d] = Len(ids)]
  /\ walkFrom' = [walkFrom EXCEPT ![d] = Len(walked)]
  /\ sub' = (sub \cup 1 .. d) \ {d}
  /\ UNCHANGED <<counters, extern, depth, own, elements, used, match, itemFp, bound, stage,
                 params, walked, copied>>

\* The walk of the present element of the SELECT at level d.
Part(d) == SubSeq(walked, walkFrom[d] + 1, Len(walked))

\* What a fingerprint tells of a walk: an A_Const and a ParamRef leave the same in it.
Shape(w) == [i \in DOMAIN w |-> IF w[i] > 0 THEN CONST ELSE w[i]]

\* The present element or item of the SELECT at level d can have this fingerprint.
Fits(d, fp) ==
  ~Folding => \A e \in own[d] : fps[e] = fp => Shape(walks[e]) = Shape(Part(d))

HoldsParam(w) == \E i \in DOMAIN w : w[i] \in Params

\* bound once the present element or item of the SELECT at level d has ended.
Bind(d, fp) == [bound EXCEPT ![d] = IF HoldsParam(Part(d)) THEN @ \cup {fp} ELSE @]

EndTarget(d) ==
  /\ In(d, "target")
  /\ \E fp \in Fps :
       /\ IF d \in sub THEN fp \in SelectFps \/ DeepTrees ELSE fp \notin SelectFps
       /\ Fits(d, fp)
       /\ fps' = Append(fps, fp)
       /\ bound' = Bind(d, fp)
  /\ lists' = Append(lists, refs)
  /\ walks' = Append(walks, Part(d))
  /\ offsets' = Append(offsets, first[d])
  /\ own' = [own EXCEPT ![d] = @ \cup {Len(fps) + 1}]
  /\ refs' = <<>> /\ bufSize' = 0
  /\ phase' = [phase EXCEPT ![d] = "targets"]
  /\ UNCHANGED <<counters, extern, depth, used, match, first, sub, itemFp, walkFrom, stage,
                 params, walked, copied>>

EndTargetList(d) ==
  /\ (In(d, "head") \/ In(d, "targets"))
  /\ phase' = [phase EXCEPT ![d] = "from"]
  /\ UNCHANGED <<counters, extern, buffer, depth, own, elements, used, element, stage,
                 params, walked, copied>>

\* fppr: the first element left in fp_and_param_refs_list with this fingerprint, or 0.
Lookup(d, fp) ==
  LET left == {e \in own[d] \ used : fps[e] = fp}
  IN  IF left = {} THEN {0} ELSE {e \in left : \A f \in left : e <= f}

\* An item that is a plain integer is not walked and changes nothing.
BeginGroupItem(d) ==
  /\ (In(d, "from") \/ In(d, "group"))
  /\ Len(walked) < MaxWalk
  /\ \E fp \in Fps : \E m \in Lookup(d, fp) :
       /\ match' = [match EXCEPT ![d] = m]
       /\ used' = used \cup ({m} \ {0})
       /\ itemFp' = [itemFp EXCEPT ![d] = fp]
  /\ first' = [first EXCEPT ![d] = Len(ids)]
  /\ walkFrom' = [walkFrom EXCEPT ![d] = Len(walked)]
  /\ sub' = sub \ {d}
  /\ phase' = [phase EXCEPT ![d] = "item"]
  /\ UNCHANGED <<counters, extern, buffer, depth, own, elements, bound, stage, params, walked,
                 copied>>


\* Mutant: the reused numbers are not given back.
AssignParamsKeepingHighest(d) ==
  LET list == lists[match[d]]
  IN  IF match[d] > 0 /\ Len(list) = Len(ids) - first[d]
      THEN /\ ids' = [i \in DOMAIN ids |-> IF i > first[d] THEN list[i - first[d]] ELSE ids[i]]
           /\ highest' = highest
           /\ copied' = copied \cup (first[d] + 1 .. Len(ids))
      ELSE UNCHANGED <<counters, copied>>

\* Mutant: the numbers of the element are taken without comparing the counts.
AssignParamsUncounted(d) ==
  LET list == lists[match[d]]
  IN  IF match[d] > 0
      THEN /\ ids' = [i \in DOMAIN ids |->
                        IF i > first[d] /\ i - first[d] \in DOMAIN list
                        THEN list[i - first[d]] ELSE ids[i]]
           /\ highest' = highest - Len(list)
           /\ copied' = copied \cup (first[d] + 1 .. Len(ids))
      ELSE UNCHANGED <<counters, copied>>

\* Mutant: the lookup result is not used.
AssignParamsNever(d) == UNCHANGED <<counters, copied>>

\* Give the constants of the item the numbers of the element it was matched with.
AssignParams(d) ==
  LET list == lists[match[d]]
  IN  IF match[d] > 0 /\ Len(list) = Len(ids) - first[d]
      THEN /\ ids' = [i \in DOMAIN ids |-> IF i > first[d] THEN list[i - first[d]] ELSE ids[i]]
           /\ highest' = highest - Len(list)
           /\ copied' = copied \cup (first[d] + 1 .. Len(ids))
      ELSE UNCHANGED <<counters, copied>>

EndGroupItem(d) ==
  /\ In(d, "item")
  /\ ~DeepTrees => (itemFp[d] \in SelectFps <=> d \in sub)
  /\ Fits(d, itemFp[d])
  /\ AssignParams(d)
  /\ bound' = Bind(d, itemFp[d])
  /\ phase' = [phase EXCEPT ![d] = "group"]
  /\ UNCHANGED <<extern, buffer, depth, own, elements, used, match, first, sub, itemFp,
                 walkFrom, stage, params, walked>>

EndGroupClause(d) ==
  /\ (In(d, "from") \/ In(d, "group"))
  /\ phase' = [phase EXCEPT ![d] = "rest"]
  /\ UNCHANGED <<counters, extern, buffer, depth, own, elements, used, element, stage,
                 params, walked, copied>>

EndSelect(d) ==
  /\ In(d, "rest")
  /\ depth' = d - 1
  /\ walked' = Append(walked, CLOSE)
  /\ UNCHANGED <<counters, extern, buffer, phase, own, elements, used, element, stage, params,
                 copied>>

-----------------------------------------------------------------------------

\* generate_normalized_query: the number written for a constant.
Number(i) == IF ids[i] < 0 THEN extern - ids[i] ELSE ids[i]

Generate ==
  /\ stage = "walk" /\ depth = 0
  /\ stage' = "done"
  /\ UNCHANGED <<counters, extern, buffer, depth, phase, own, elements, used, element,
                 params, walked, copied>>

Next ==
  \/ RecordConstLocation \/ BeginSelect \/ Generate
  \/ \E n \in Params : ParamRef(n) \/ PassOver(n)
  \/ \E d \in Levels : \/ BeginTarget(d) \/ EndTarget(d) \/ EndTargetList(d)
                       \/ BeginGroupItem(d) \/ EndGroupItem(d) \/ EndGroupClause(d)
                       \/ EndSelect(d)

Spec == Init /\ [][Next]_vars

-----------------------------------------------------------------------------
(* Correctness.                                                              *)

\* param_refs has room for the next entry whenever it is written to.
RefsInBounds == Recording => Len(refs) < bufSize

\* highest_normalize_param_id is what its comment says: the numbers in use are
\* exactly those below it, whatever GROUP BY items gave numbers back.
HighestIsNext ==
  {-ids[i] : i \in {j \in DOMAIN ids : ids[j] < 0}} = 1 .. highest - 1

\* Two constants share a number only if one of them is in a GROUP BY item that took
\* it over from a target list element.
NumbersDistinct ==
  \A i, j \in DOMAIN ids \ copied : i # j => ids[i] # ids[j]

\* A constant has the number of a $n only in a GROUP BY item that took over the numbers of
\* a target list element with this $n inside; all other constants can be bound
\* independently of the $n, wherever in the query the walk has met these.
NoCollision ==
  stage = "done" =>
    \A i \in DOMAIN ids, n \in Params : Number(i) = n /\ (\E j \in DOMAIN walked : walked[j] = n)
      => i \in copied /\ \E e \in DOMAIN walks : \E j \in DOMAIN walks[e] : walks[e][j] = n

\* The stricter statement that highest_extern_param_id is kept for: all constants are
\* numbered after the highest $n.
NumbersAfterParams ==
  stage = "done" => \A i \in DOMAIN ids : Number(i) > extern

\* The GROUP BY item that ends at level d and element e are the same expression, up to the
\* values of their constants: neither a fingerprint nor a walk tells 'a' from 'b'.
SameExpression(e, d) == fps[e] = itemFp[d] /\ walks[e] = Part(d)
Constants(e) == Cardinality({i \in DOMAIN walks[e] : walks[e][i] = CONST})
TakenOver(e) == Constants(e) > 0 /\ \E i \in copied : ids[i] = ids[offsets[e] + 1]

Shares(e, d) ==
  \E f \in own[d] : /\ SameExpression(f, d)
                    /\ \A j \in 1 .. Constants(f) : ids'[first[d] + j] = ids'[offsets[f] + j]

\* A GROUP BY item that repeats an element of the target list gets its numbers (those
\* of one of them, if there are several), so that the normalized query stays valid.
GroupItemsShare ==
  [][\A d \in Levels : phase[d] = "item" /\ phase'[d] = "group" =>
       \A e \in own[d] : SameExpression(e, d) /\ ~TakenOver(e) => Shares(e, d)]_vars

\* The same for elements that hold neither a $n nor a SELECT, as long as no other element
\* or earlier item of this SELECT has their fingerprint and holds a $n: it would be matched
\* in their place, or have used them up. $n anywhere else in the query do no harm.
PlainGroupItemsShare ==
  [][\A d \in Levels : phase[d] = "item" /\ phase'[d] = "group" /\ itemFp[d] \notin bound[d] =>
       \A e \in own[d] :
         SameExpression(e, d) /\ ~TakenOver(e) /\ (\A i \in DOMAIN walks[e] : walks[e][i] = CONST)
           => Shares(e, d)]_vars
=============================================================================
