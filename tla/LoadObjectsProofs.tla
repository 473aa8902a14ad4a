------------------------- MODULE LoadObjectsProofs -------------------------
(***************************************************************************)
(* Proofs about LoadObjects for inputs of any size: the loop leaves nothing *)
(* behind, and whatever the order of the lists, a reference is looked at    *)
(* with enough known of the names it may stand for.                         *)
(***************************************************************************)
EXTENDS LoadObjects, TLAPS

\* The places that items on a list may have when the names in known have been recorded
\* and those in twice more than once: what is visible is known, a name is visible where it
\* was recorded as its own table only if it was redefined there, and bodies are recorded
\* but for names that are used again.
Sound(known, twice) ==
  {p \in Places : /\ p.visible \subseteq known
                  /\ p.visible \cap p.recorded \subseteq p.redefined
                  /\ p.inside \subseteq p.recorded \cup twice}

Items(known, twice) == [place : Sound(known, twice), type : Types]

\* The lists hold such items only, whatever order they were put there in.
ListsInv ==
  /\ statements \in Seq(Sound(cte_names, again))
  /\ subselect_items \in Seq(Sound(cte_names, again))
  /\ call_items \in Seq(Sound(cte_names, again))
  /\ from_clause_items \in Seq(Items(cte_names, again))

\* A round takes at most one statement, and so at most one CALL, which is gone before
\* the round ends.
CallsInv ==
  /\ pc \in {"statement", "from", "done"} => call_items = <<>>
  /\ Len(call_items) <= 1
  /\ pc = "done" => statements = <<>> /\ subselect_items = <<>> /\ from_clause_items = <<>>

\* What was known when the reference of this step was looked at.
RefInv ==
  \/ ref = NoRef
  \/ /\ ref.place \in Sound(cte_names, again) /\ ref.name \in Names
     /\ ref.cte = CteReference(ref)

IInv ==
  /\ cte_names \subseteq Names /\ again \subseteq cte_names
  /\ pc \in {"statement", "subselect", "call", "from", "done"}
  /\ ListsInv /\ CallsInv /\ RefInv

-----------------------------------------------------------------------------
\* Knowing more names keeps an item sound.
LEMMA SoundGrows ==
  ASSUME NEW c, NEW d, NEW a, NEW b, c \subseteq d, a \subseteq b
  PROVE  Sound(c, a) \subseteq Sound(d, b) /\ Items(c, a) \subseteq Items(d, b)
<1>1. Sound(c, a) \subseteq Sound(d, b)
  BY DEF Sound
<1> QED BY <1>1 DEF Items

\* A list of items stays one when more is known.
LEMMA SeqGrows ==
  ASSUME NEW S, NEW T, S \subseteq T, NEW s \in Seq(S)
  PROVE  s \in Seq(T)
OBVIOUS

\* A sequence of one item repeated.
LEMMA TimesType ==
  ASSUME NEW S, NEW x \in S, NEW n \in Nat
  PROVE  Times(n, x) \in Seq(S)
BY DEF Times

\* FROM items for a place.
LEMMA FromType ==
  ASSUME NEW c, NEW a, NEW p \in Sound(c, a), NEW t \in Types, NEW n \in Nat
  PROVE  From(n, p, t) \in Seq(Items(c, a))
<1>1. [place |-> p, type |-> t] \in Items(c, a)
  BY DEF Items
<1> QED BY <1>1, TimesType DEF From

\* A statement sees its own CTEs.
LEMMA MainSound ==
  ASSUME NEW c \in SUBSET Names, NEW a, NEW p \in Sound(c, a), NEW with,
         NamesOf(with) \subseteq Names
  PROVE  Main(p, with) \in Sound(c \cup NamesOf(with), a)
<1> DEFINE N == NamesOf(with)
           q == Main(p, with)
<1>1. /\ p \in [visible : SUBSET Names, recorded : SUBSET Names, redefined : SUBSET Names,
                inside : SUBSET Names]
      /\ p.visible \subseteq c /\ p.visible \cap p.recorded \subseteq p.redefined
      /\ p.inside \subseteq p.recorded \cup a
  BY DEF Sound, Places
<1>2. /\ q.visible = p.visible \cup N
      /\ q.redefined = p.redefined \cup (N \cap p.recorded)
      /\ q.recorded = p.recorded /\ q.inside = p.inside
  BY <1>1 DEF Main
<1>3. q \in Places
  BY <1>1 DEF Main, Places
<1> HIDE DEF q, N
<1>4. q \in Sound(c \cup N, a)
  BY <1>1, <1>2, <1>3 DEF Sound
<1> QED BY <1>4 DEF q, N

\* The body of a CTE: what record_cte_self_references! enters for it is not yet visible,
\* and a body it enters nothing for has a name that is used again.
LEMMA BodySound ==
  ASSUME cte_names \subseteq Names, NEW a, NEW p \in Sound(cte_names, a),
         NEW with \in WithClauses, NEW recursive \in BOOLEAN, NEW i \in DOMAIN with
  PROVE  Body(p, with, recursive, i) \in
           Sound(cte_names \cup NamesOf(with), a \cup (cte_names \cap NamesOf(with)))
<1> DEFINE N == NamesOf(with)
           w == with[i]
           seen == IF recursive THEN N ELSE {with[j] : j \in 1 .. i - 1}
           rec == IF Records(w, with, recursive) THEN {w} ELSE {}
           q == Body(p, with, recursive, i)
<1>1. /\ p \in [visible : SUBSET Names, recorded : SUBSET Names, redefined : SUBSET Names,
                inside : SUBSET Names]
      /\ p.visible \subseteq cte_names /\ p.visible \cap p.recorded \subseteq p.redefined
      /\ p.inside \subseteq p.recorded \cup a
  BY DEF Sound, Places
<1>2. PICK n \in 0 .. MaxWith :
        /\ with \in [1 .. n -> Names]
        /\ \A k, l \in 1 .. n : k # l => with[k] # with[l]
  BY LoadObjectsAssumption DEF WithClauses
<1>3. w \in N /\ N \subseteq Names /\ i \in 1 .. n
  BY <1>2 DEF NamesOf
<1>4. seen \subseteq N
  BY <1>2, <1>3, LoadObjectsAssumption DEF NamesOf
<1>5. ~recursive => w \notin seen
  BY <1>2, <1>3, LoadObjectsAssumption
<1>6. /\ q.visible = p.visible \cup seen
      /\ q.recorded = p.recorded \cup rec
      /\ q.redefined = p.redefined \cup (seen \cap p.recorded)
      /\ q.inside = IF recursive THEN p.inside ELSE p.inside \cup {w}
  BY <1>1 DEF Body
<1>7. /\ q \in [visible : SUBSET Names, recorded : SUBSET Names, redefined : SUBSET Names,
                inside : SUBSET Names]
  BY <1>1, <1>3, <1>4, ZenonT(40) DEF Body
<1>8. rec \subseteq {w} /\ (rec # {} => ~recursive /\ w \notin cte_names)
  BY DEF Records
<1>9. recursive \/ w \in cte_names \/ rec = {w}
  BY DEF Records
<1> HIDE DEF N, w, seen, rec, q
<1>10. q.visible \cap q.recorded \subseteq q.redefined
  BY <1>1, <1>5, <1>6, <1>8
<1>11. q.inside \subseteq q.recorded \cup (a \cup (cte_names \cap N))
  BY <1>1, <1>3, <1>6, <1>9
<1>12. q \in Sound(cte_names \cup N, a \cup (cte_names \cap N))
  BY <1>1, <1>4, <1>6, <1>7, <1>10, <1>11 DEF Sound, Places
<1> QED BY <1>12 DEF N, q

-----------------------------------------------------------------------------
\* A statement with its WITH clause puts sound items on the lists, and what was there stays
\* sound although more names are known.
LEMMA QueryStep ==
  ASSUME IInv, Query
  PROVE  ListsInv' /\ cte_names' \subseteq Names /\ again' \subseteq cte_names'
<1> PICK with \in WithClauses, recursive \in BOOLEAN, exprs, froms, arms \in 0 .. 2,
         targets \in 0 .. 1, type \in {"dml", "ddl"} :
      LET place == Head(statements)
          main == Main(place, with)
          target == From(targets, main, type)
          selects == From(froms, main, "select")
      IN  /\ with = <<>> => ~recursive
          /\ arms = 1 => type = "dml" /\ targets = 1 /\ froms = 0
          /\ arms = 2 => targets + froms = 0
          /\ Adds(Len(with) + exprs + froms + targets + arms)
          /\ statements' = Tail(statements) \o Times(arms, main) \o Bodies(place, with, recursive)
          /\ subselect_items' = subselect_items \o Times(exprs, main)
          /\ from_clause_items' = from_clause_items
               \o (IF type = "dml" THEN target \o selects ELSE selects \o target)
          /\ Concat(with)
  BY Zenon DEF Query
<1> DEFINE place == Head(statements)
           main == Main(place, with)
           S == Sound(cte_names, again)
           T == Sound(cte_names', again')
<1>1. statements # <<>> /\ call_items' = call_items
  BY DEF Query, TakeStatement
<1>2. /\ statements \in Seq(S) /\ subselect_items \in Seq(S) /\ call_items \in Seq(S)
      /\ from_clause_items \in Seq(Items(cte_names, again))
      /\ cte_names \subseteq Names /\ again \subseteq cte_names
  BY DEF IInv, ListsInv
<1>3. /\ cte_names' = cte_names \cup NamesOf(with)
      /\ again' = again \cup (cte_names \cap NamesOf(with))
  BY DEF Concat
<1>4. place \in S /\ Tail(statements) \in Seq(S)
  BY <1>1, <1>2
<1>5. NamesOf(with) \subseteq Names /\ \E n \in Nat : DOMAIN with = 1 .. n
  BY LoadObjectsAssumption DEF WithClauses, NamesOf
<1>6. S \subseteq T /\ Items(cte_names, again) \subseteq Items(cte_names', again')
  <2>1. cte_names \subseteq cte_names' /\ again \subseteq again'
    BY <1>3
  <2> QED BY <2>1, SoundGrows
<1>7. main \in T
  <2>1. main \in Sound(cte_names', again)
    BY <1>2, <1>3, <1>4, <1>5, MainSound
  <2>2. cte_names' \subseteq cte_names' /\ again \subseteq again'
    BY <1>3
  <2>3. Sound(cte_names', again) \subseteq T
    BY <2>2, SoundGrows
  <2> QED BY <2>1, <2>3
<1>8. Bodies(place, with, recursive) \in Seq(T)
  <2>1. ASSUME NEW i \in DOMAIN with PROVE Body(place, with, recursive, i) \in T
    BY <1>2, <1>3, <1>4, BodySound
  <2> HIDE DEF T, place
  <2> QED BY <1>5, <2>1, SMTT(30) DEF Bodies
<1>n. arms \in Nat /\ exprs \in Nat /\ targets \in Nat /\ froms \in Nat
  OBVIOUS
<1>9. cte_names' \subseteq Names /\ again' \subseteq cte_names'
  BY <1>2, <1>3, <1>5
<1> HIDE DEF S, T, main, place
<1>10. statements' \in Seq(T)
  <2>1. Tail(statements) \in Seq(T)
    BY <1>4, <1>6, SeqGrows
  <2>2. Times(arms, main) \in Seq(T)
    BY <1>7, <1>n, TimesType
  <2> QED BY <2>1, <2>2, <1>8 DEF main, place
<1>11. subselect_items' \in Seq(T)
  <2>1. subselect_items \in Seq(T)
    BY <1>2, <1>6, SeqGrows
  <2>2. Times(exprs, main) \in Seq(T)
    BY <1>7, <1>n, TimesType
  <2> QED BY <2>1, <2>2 DEF main, place
<1>12. call_items' \in Seq(T)
  BY <1>1, <1>2, <1>6, SeqGrows
<1>13. from_clause_items' \in Seq(Items(cte_names', again'))
  <2> DEFINE I == Items(cte_names', again')
  <2>1. from_clause_items \in Seq(I)
    BY <1>2, <1>6, SeqGrows
  <2>2. From(targets, main, type) \in Seq(I) /\ From(froms, main, "select") \in Seq(I)
    BY <1>7, <1>n, FromType DEF T, Types
  <2> HIDE DEF I
  <2>3. from_clause_items' \in Seq(I)
    BY <2>1, <2>2 DEF main, place
  <2> QED BY <2>3 DEF I
<1> QED BY <1>9, <1>10, <1>11, <1>12, <1>13 DEF ListsInv, T

-----------------------------------------------------------------------------
\* The item a step takes is sound, and what it leaves is a list of such items.
LEMMA TakeType ==
  ASSUME NEW S, NEW s \in Seq(S), s # <<>>
  PROVE  Head(s) \in S /\ Tail(s) \in Seq(S) /\ Len(Tail(s)) = Len(s) - 1
OBVIOUS

\* Two lists of items.
LEMMA JoinType ==
  ASSUME NEW S, NEW s \in Seq(S), NEW t \in Seq(S)
  PROVE  s \o t \in Seq(S)
OBVIOUS

\* The steps that take an item without learning a name keep the lists sound.
LEMMA OthersLists ==
  ASSUME IInv,
         \/ Wrapper \/ Utility \/ Drop \/ Call \/ Subselect \/ CallArguments
         \/ FromItem \/ RangeVar
  PROVE  ListsInv'
<1> DEFINE S == Sound(cte_names, again)
           I == Items(cte_names, again)
<1>1. /\ statements \in Seq(S) /\ subselect_items \in Seq(S)
      /\ call_items \in Seq(S) /\ from_clause_items \in Seq(I)
  BY DEF IInv, ListsInv
<1>2. UNCHANGED <<cte_names, again>>
  BY DEF Wrapper, Utility, Drop, Call, Subselect, CallArguments, FromItem, RangeVar
<1>3. SUFFICES /\ statements' \in Seq(S) /\ subselect_items' \in Seq(S)
               /\ call_items' \in Seq(S) /\ from_clause_items' \in Seq(I)
  BY <1>2 DEF ListsInv
<1>4. ASSUME NEW p \in S, NEW n \in Nat
      PROVE  /\ Times(n, p) \in Seq(S)
             /\ \A t \in Types : From(n, p, t) \in Seq(I)
  BY FromType, TimesType
<1>n. 0 .. 2 \subseteq Nat /\ 0 .. 1 \subseteq Nat /\ {"dml", "ddl"} \subseteq Types
  BY DEF Types
<1>5. ASSUME NEW i \in I, NEW n \in Nat
      PROVE  i.place \in S /\ Times(n, i) \in Seq(I) /\ Times(n, i.place) \in Seq(S)
  <2>1. i.place \in S
    BY DEF Items
  <2>2. Times(n, i.place) \in Seq(S)
    BY <2>1, TimesType
  <2> QED BY <2>1, <2>2, TimesType
<1> HIDE DEF S, I
<1>6. CASE Wrapper
  <2>1. PICK targets \in 0 .. 1, type \in {"dml", "ddl"} :
          /\ Adds(targets + 1)
          /\ statements' = Append(Tail(statements), Head(statements))
          /\ from_clause_items' = from_clause_items \o From(targets, Head(statements), type)
    BY <1>6 DEF Wrapper
  <2>2. Head(statements) \in S /\ Tail(statements) \in Seq(S)
    BY <1>1, <1>6, TakeType DEF Wrapper, TakeStatement
  <2>3. From(targets, Head(statements), type) \in Seq(I)
    BY <1>4, <1>n, <2>2
  <2>4. from_clause_items \o From(targets, Head(statements), type) \in Seq(I)
    BY <1>1, <2>3, JoinType
  <2>5. statements' \in Seq(S)
    BY <2>1, <2>2
  <2> QED BY <1>1, <1>6, <2>1, <2>4, <2>5 DEF Wrapper
<1>7. CASE Utility
  <2>1. PICK relations \in 0 .. 2, exprs \in 0 .. 1 :
          /\ Adds(relations + exprs)
          /\ from_clause_items' = from_clause_items \o From(relations, Head(statements), "ddl")
          /\ subselect_items' = subselect_items \o Times(exprs, Head(statements))
    BY <1>7 DEF Utility
  <2>2. Head(statements) \in S /\ Tail(statements) \in Seq(S)
    BY <1>1, <1>7, TakeType DEF Utility, TakeStatement
  <2>3. From(relations, Head(statements), "ddl") \in Seq(I)
    BY <1>4, <1>n, <2>2
  <2>4. Times(exprs, Head(statements)) \in Seq(S)
    BY <1>4, <1>n, <2>2
  <2>5. /\ from_clause_items \o From(relations, Head(statements), "ddl") \in Seq(I)
        /\ subselect_items \o Times(exprs, Head(statements)) \in Seq(S)
    BY <1>1, <2>3, <2>4, JoinType
  <2> QED BY <1>1, <1>7, <2>1, <2>2, <2>5 DEF Utility
<1>8. CASE Drop
  <2>1. Tail(statements) \in Seq(S)
    BY <1>1, <1>8, TakeType DEF Drop, TakeStatement
  <2> QED BY <1>1, <1>8, <2>1 DEF Drop
<1>9. CASE Call
  <2>1. Head(statements) \in S /\ Tail(statements) \in Seq(S)
    BY <1>1, <1>9, TakeType DEF Call, TakeStatement
  <2> QED BY <1>1, <1>9, <2>1 DEF Call
<1>10. CASE Subselect
  <2>1. Head(subselect_items) \in S /\ Tail(subselect_items) \in Seq(S)
    BY <1>1, <1>10, TakeType DEF Subselect
  <2>2. ASSUME NEW n \in 0 .. 2 PROVE Times(n, Head(subselect_items)) \in Seq(S)
    BY <1>4, <1>n, <2>1
  <2>3. ASSUME NEW n \in 0 .. 2
        PROVE  Tail(subselect_items) \o Times(n, Head(subselect_items)) \in Seq(S)
    BY <2>1, <2>2, JoinType
  <2>0. call_items' \in Seq(S) /\ from_clause_items' \in Seq(I)
    BY <1>1, <1>10 DEF Subselect
  <2> DEFINE p == Head(subselect_items)
  <2>4. CASE /\ \E operands \in 0 .. 2 :
                  /\ Adds(operands)
                  /\ subselect_items' = Tail(subselect_items) \o Times(operands, p)
             /\ UNCHANGED statements
    <3>1. PICK operands \in 0 .. 2 :
            subselect_items' = Tail(subselect_items) \o Times(operands, p)
      BY <2>4
    <3>2. subselect_items' \in Seq(S)
      BY <2>3, <3>1
    <3> QED BY <2>0, <1>1, <2>4, <3>2
  <2>5. CASE /\ Adds(1)
             /\ statements' = Append(statements, p)
             /\ subselect_items' = Tail(subselect_items)
    <3>1. Append(statements, p) \in Seq(S)
      BY <1>1, <2>1
    <3> QED BY <2>0, <2>1, <2>5, <3>1
  <2> QED BY <1>10, <2>4, <2>5 DEF Subselect
<1>11. CASE CallArguments
  <2>1. Head(call_items) \in S /\ Tail(call_items) \in Seq(S)
    BY <1>1, <1>11, TakeType DEF CallArguments
  <2>2. ASSUME NEW n \in 0 .. 2 PROVE Times(n, Head(call_items)) \in Seq(S)
    BY <1>4, <1>n, <2>1
  <2>3. ASSUME NEW n \in 0 .. 2
        PROVE  subselect_items \o Times(n, Head(call_items)) \in Seq(S)
    BY <1>1, <2>2, JoinType
  <2> QED BY <1>1, <1>11, <2>1, <2>3 DEF CallArguments
<1>12. CASE FromItem
  <2>1. Head(from_clause_items) \in I /\ Tail(from_clause_items) \in Seq(I)
    BY <1>1, <1>12, TakeType DEF FromItem
  <2>2. PICK sides \in {0, 2}, quals, queries \in 0 .. 1 :
          /\ queries = 1 => sides + quals = 0
          /\ Adds(sides + quals + queries)
          /\ from_clause_items' = Tail(from_clause_items) \o Times(sides, Head(from_clause_items))
          /\ subselect_items' = subselect_items \o Times(quals, Head(from_clause_items).place)
          /\ statements' = statements \o Times(queries, Head(from_clause_items).place)
    BY <1>12 DEF FromItem
  <2>3. sides \in Nat /\ quals \in Nat /\ queries \in Nat
    OBVIOUS
  <2>4. /\ Times(sides, Head(from_clause_items)) \in Seq(I)
        /\ Times(quals, Head(from_clause_items).place) \in Seq(S)
        /\ Times(queries, Head(from_clause_items).place) \in Seq(S)
    BY <1>5, <2>1, <2>3
  <2>5. /\ from_clause_items' \in Seq(I) /\ subselect_items' \in Seq(S)
        /\ statements' \in Seq(S)
    BY <1>1, <2>1, <2>2, <2>4, JoinType
  <2> QED BY <1>1, <1>12, <2>5 DEF FromItem
<1>13. CASE RangeVar
  <2>1. Tail(from_clause_items) \in Seq(I)
    BY <1>1, <1>13, TakeType DEF RangeVar
  <2> QED BY <1>1, <1>13, <2>1 DEF RangeVar
<1> QED BY <1>6, <1>7, <1>8, <1>9, <1>10, <1>11, <1>12, <1>13

\* The lists a step that skips one leaves alone.
LEMMA SameLists ==
  ASSUME IInv, UNCHANGED <<lists, cte_names, again>>
  PROVE  ListsInv'
BY DEF IInv, ListsInv, lists

\* A CALL waits for its arguments within its round, and the loop ends with empty lists.
LEMMA CallsStep ==
  ASSUME IInv, Next
  PROVE  CallsInv' /\ pc' \in {"statement", "subselect", "call", "from", "done"}
<1>1. call_items \in Seq(Sound(cte_names, again)) /\ CallsInv
  BY DEF IInv, ListsInv
<1> DEFINE S == Sound(cte_names, again)
<1> HIDE DEF S
<1>2. CASE Query \/ Wrapper \/ Utility \/ Drop
  BY <1>1, <1>2 DEF Query, Wrapper, Utility, Drop, TakeStatement, CallsInv
<1>3. CASE Call
  BY <1>1, <1>3 DEF Call, TakeStatement, CallsInv
<1>4. CASE Subselect
  BY <1>1, <1>4 DEF Subselect, CallsInv
<1>5. CASE CallArguments
  BY <1>1, <1>5 DEF CallArguments, CallsInv
<1>6. CASE FromItem \/ RangeVar \/ NoFromItem
  <2>1. pc = "from" /\ call_items' = call_items
    BY <1>6 DEF FromItem, RangeVar, NoFromItem, lists
  <2>2. pc' = "statement" \/ AfterRound
    BY <1>6 DEF FromItem, RangeVar, NoFromItem
  <2>3. call_items' = <<>>
    BY <1>1, <2>1 DEF CallsInv
  <2> QED BY <2>2, <2>3 DEF AfterRound, Ends, CallsInv
<1>7. CASE Skip(statements, "statement", "subselect")
  BY <1>1, <1>7 DEF Skip, CallsInv, lists
<1>8. CASE Skip(subselect_items, "subselect", "call")
  BY <1>1, <1>8 DEF Skip, CallsInv, lists
<1>9. CASE Skip(call_items, "call", "from")
  BY <1>1, <1>9 DEF Skip, CallsInv, lists
<1> QED BY <1>2, <1>3, <1>4, <1>5, <1>6, <1>7, <1>8, <1>9 DEF Next

\* Only a RangeVar is looked at, with the names of that moment.
LEMMA RefStep ==
  ASSUME IInv, Next
  PROVE  RefInv'
<1>1. CASE RangeVar
  <2>1. PICK name \in Names, schema \in BOOLEAN :
          LET item == Head(from_clause_items)
              r == [name |-> name, place |-> item.place, type |-> item.type,
                    schema |-> schema]
              isCte == CteReference(r)
          IN  /\ ref' = [name |-> name, place |-> item.place, type |-> item.type,
                         schema |-> schema, cte |-> isCte]
              /\ from_clause_items' = Tail(from_clause_items)
              /\ IF isCte
                 THEN pc' = "statement" /\ UNCHANGED tables
                 ELSE AfterRound /\ tables' = tables \cup {<<name, item.type>>}
    BY <1>1, Zenon DEF RangeVar
  <2> DEFINE item == Head(from_clause_items)
             r == [name |-> name, place |-> item.place, type |-> item.type,
                   schema |-> schema]
  <2>2. item \in Items(cte_names, again) /\ UNCHANGED <<cte_names, again>>
    BY <1>1, TakeType DEF RangeVar, IInv, ListsInv
  <2>3. item.place \in Sound(cte_names', again')
    BY <2>2 DEF Items
  <2>4. /\ ref'.name = name /\ ref'.place = item.place /\ ref'.type = item.type
        /\ ref'.schema = schema /\ ref'.cte = CteReference(r)
    BY <2>1
  <2>5. CteReference(r) = CteReference(ref)'
    BY <2>2, <2>4 DEF CteReference
  <2> QED BY <2>3, <2>4, <2>5 DEF RefInv
<1>2. CASE ~RangeVar
  <2>1. ref' = NoRef
    BY <1>2 DEF Next, Query, Wrapper, Utility, Drop, Call, TakeStatement, Subselect,
                CallArguments, FromItem, NoFromItem, Skip
  <2> QED BY <2>1 DEF RefInv, NoRef
<1> QED BY <1>1, <1>2

\* The invariant.
LEMMA IInvariance == Spec => []IInv
<1>1. Init => IInv
  <2> SUFFICES ASSUME Init PROVE IInv
    OBVIOUS
  <2>1. Top \in Sound(cte_names, again)
    BY DEF Init, Sound, Places, Top
  <2>2. PICK n \in {1, 2} : statements = [i \in 1 .. n |-> Top] /\ items = n
    BY DEF Init
  <2>3. statements \in Seq(Sound(cte_names, again))
    BY <2>1, <2>2
  <2>4. /\ subselect_items = <<>> /\ call_items = <<>> /\ from_clause_items = <<>>
        /\ cte_names = {} /\ pc = "statement" /\ ref = NoRef /\ again = {}
    BY DEF Init
  <2>5. ListsInv
    BY <2>3, <2>4 DEF ListsInv
  <2> QED BY <2>4, <2>5 DEF IInv, CallsInv, RefInv
<1>2. IInv /\ [Next]_vars => IInv'
  <2> SUFFICES ASSUME IInv, [Next]_vars PROVE IInv'
    OBVIOUS
  <2>1. CASE UNCHANGED vars
    BY <2>1 DEF vars, lists, IInv, ListsInv, CallsInv, RefInv, CteReference
  <2>2. CASE Query
    BY <2>2, QueryStep, CallsStep, RefStep DEF Next, IInv
  <2>3. CASE Next /\ ~Query
    <3>1. UNCHANGED <<cte_names, again>>
      BY <2>3 DEF Next, Wrapper, Utility, Drop, Call, Subselect, CallArguments, FromItem,
                  RangeVar, NoFromItem, Skip
    <3>2. ListsInv'
      <4>1. CASE \/ NoFromItem \/ Skip(statements, "statement", "subselect")
                 \/ Skip(subselect_items, "subselect", "call")
                 \/ Skip(call_items, "call", "from")
        BY <4>1, SameLists DEF NoFromItem, Skip
      <4> QED BY <2>3, <4>1, OthersLists DEF Next
    <3> QED BY <2>3, <3>1, <3>2, CallsStep, RefStep DEF IInv
  <2> QED BY <2>1, <2>2, <2>3
<1> QED BY <1>1, <1>2, PTL DEF Spec

-----------------------------------------------------------------------------
\* NothingLeftOver of every query: the condition that ends the loop does not look at
\* call_items, and does not have to.
THEOREM NothingIsLeft == Spec => []NothingLeftOver
<1>1. IInv => NothingLeftOver
  BY DEF IInv, CallsInv, NothingLeftOver
<1> QED BY <1>1, IInvariance, PTL

\* CtesHidden of every query, nested as deep as may be: a name that is visible where the
\* reference is has been recorded by then, and only a name defined again in the body of
\* a CTE of that name is still taken for a table.
THEOREM CtesAreHidden == Spec => []CtesHidden
<1>1. ASSUME IInv, ref.type = "select", ~ref.schema, ref.name \in ref.place.visible, ~ref.cte
      PROVE  ref.name \in ref.place.redefined
  <2>1. ref # NoRef
    BY <1>1 DEF NoRef
  <2>2. ref.place \in Sound(cte_names, again) /\ ref.cte = CteReference(ref)
    BY <1>1, <2>1 DEF IInv, RefInv
  <2>3. ~CteReference(ref)
    BY <1>1, <2>2, Zenon
  <2>4. ref.name \in ref.place.recorded
    BY <1>1, <2>2, <2>3 DEF CteReference, Sound
  <2> QED BY <1>1, <2>2, <2>4 DEF Sound
<1>2. IInv => CtesHidden
  BY <1>1 DEF CtesHidden
<1> QED BY <1>2, IInvariance, PTL

\* SelfReferencesKept of every query: where record_cte_self_references! entered nothing for
\* the body of a CTE, its name had been recorded already.
THEOREM SelfReferencesAreKept == Spec => []SelfReferencesKept
<1>1. IInv => SelfReferencesKept
  BY DEF IInv, RefInv, SelfReferencesKept, CteReference, Sound, NoRef
<1> QED BY <1>1, IInvariance, PTL
=============================================================================
