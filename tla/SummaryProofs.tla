--------------------------- MODULE SummaryProofs ---------------------------
(***************************************************************************)
(* Proofs about Summary: what is in a tree of any size and nesting is found *)
(* once, in spite of WHERE clauses being walked twice and of walks that     *)
(* are aborted; and the rounds of the truncation go from the inside out,    *)
(* each gains something, and what they leave fits.                          *)
(***************************************************************************)
EXTENDS Summary, FiniteSetTheorems, SequenceTheorems, WellFoundedInduction, TLAPS

CallTypes == {"stmt", "cte", "target", "cond", "saved"}
WalkCalls == CallTypes \X Statements

\* The types of what the walk keeps.
WalkType ==
  /\ save_filter_columns \in BOOLEAN
  /\ range_vars \in Seq(Statements) /\ cte_names \in Seq(Statements)
  /\ functions \in Seq(Statements) /\ filter_columns \in Seq({"target", "cond"} \X Statements)
  /\ tables \in Seq(Statements \X {"Select", "DML", "DDL"}) /\ aliases \in Seq(Statements)

\* A tree of the parser: children come after their parent, in its lists, and in parts
\* that it has.
TreeInv ==
  /\ tree \in Seq(NodeType) /\ Len(tree) <= MaxStmts
  /\ \A s \in Statements :
       /\ tree[s].parent < s /\ (tree[s].parent = 0 <=> s = 1)
       /\ s = 1 => tree[s].part = "query"
       /\ s # 1 => tree[s].part \in ToSet(PartsOf(tree[tree[s].parent].kind))
       /\ tree[s].part = "where" => tree[s].kind \in Queries
       /\ tree[s].rel # NoName <=> tree[s].kind \in WithRelation
       /\ tree[s].cond # "none" => tree[s].kind \in WithCondition
  /\ \A s \in Statements, p \in Parts :
       /\ ToSet(Children(s, p)) = {c \in Statements : tree[c].parent = s /\ tree[c].part = p}
       /\ IsInjective(Children(s, p))

-----------------------------------------------------------------------------
(* In a pass that saves filter columns the calls to make are those of the    *)
(* pass, inner, and those that come after it, outer. E are the statements    *)
(* that the walk has entered.                                                *)

\* The pass is that of a SELECT: its own condition, not yet recorded, and sub-SELECTs.
Saving(E, inner) ==
  /\ save_filter_columns <=> inner # <<>>
  /\ inner # <<>> =>
       \E s \in E :
         /\ inner[Len(inner)] = <<"saved", s>> /\ tree[s].kind = "SelectStmt"
         /\ \A i \in 1 .. Len(inner) - 1 :
              \/ inner[i] = <<"cond", s>> /\ inner[i] \notin ToSet(filter_columns)
              \/ inner[i][1] = "stmt" /\ tree[inner[i][2]].kind \in Queries
         /\ \A i, j \in 1 .. Len(inner) - 1 :
              inner[i] = <<"cond", s>> /\ inner[j] = <<"cond", s>> => i = j

\* What is still to enter, and parts of what has been entered.
Due(outer, s) == <<"stmt", s>> \in ToSet(outer) \/ <<"cte", s>> \in ToSet(outer)

Reachable(E, s) == s = 1 \/ tree[s].parent \in E

Ahead(E, outer) ==
  /\ IsInjective(outer)
  /\ \A x \in ToSet(outer) :
       /\ x[1] # "saved"
       /\ x[1] \in {"target", "cond"} => x[2] \in E
       /\ x[1] \in {"stmt", "cte"} => x[2] \notin E /\ Reachable(E, x[2])
       /\ x[1] = "cte" => tree[x[2]].part = "cte" /\ x[2] \notin ToSet(cte_names)
       /\ x[1] = "stmt" /\ tree[x[2]].part = "cte" => x[2] \in ToSet(cte_names)
  /\ \A s \in Statements : Reachable(E, s) => s \in E \/ Due(outer, s)
  /\ \A s \in E : Reachable(E, s)

\* Filter columns are the conditions of SELECTs that have been entered.
Columns(E) ==
  /\ IsInjective(filter_columns)
  /\ \A x \in ToSet(filter_columns) :
       x[1] = "cond" /\ x[2] \in E /\ tree[x[2]].kind = "SelectStmt"

\* The functions and CTE names of what has been entered are known.
Found(E, outer) ==
  /\ \A s \in E : tree[s].cond # "none" /\ tree[s].kind # "CopyStmt" =>
                    s \in ToSet(functions) \/ <<"cond", s>> \in ToSet(outer)
  /\ \A s \in ToSet(cte_names) : tree[s].part = "cte" /\ Reachable(E, s)
  /\ \A s \in E : tree[s].part = "cte" => s \in ToSet(cte_names)

\* A relation is still to look up, or has been judged with all CTE names known.
Judged(s) ==
  /\ tree[s].rel \in CteNames \/ \E i \in DOMAIN tables : tables[i][1] = s
  /\ HasAlias(tree[s].kind) => s \in ToSet(aliases)

Relations(E, inner, outer) ==
  /\ IsInjective(range_vars)
  /\ \A s \in ToSet(range_vars) : s \in E /\ tree[s].kind \in WithRelation
  /\ \A s \in E : tree[s].kind \in WithRelation => s \in ToSet(range_vars) \/ Judged(s)
  /\ inner # <<>> \/ outer # <<>> => tables = <<>> /\ aliases = <<>>
  /\ \A i \in DOMAIN tables :
       /\ tree[tables[i][1]].kind \in WithRelation /\ tree[tables[i][1]].rel \notin CteNames
       /\ tables[i][1] \notin ToSet(range_vars)
  /\ \A i, j \in DOMAIN tables : tables[i][1] = tables[j][1] => i = j

Progress(E, inner, outer) ==
  /\ Saving(E, inner) /\ Ahead(E, outer) /\ Columns(E) /\ Found(E, outer)
  /\ Relations(E, inner, outer)

WalkInv ==
  IF pc = "parse" THEN todo = <<>> /\ ~save_filter_columns /\ tables = <<>>
                       /\ range_vars = <<>> /\ cte_names = <<>> /\ functions = <<>>
                       /\ filter_columns = <<>> /\ aliases = <<>>
  ELSE /\ todo \in Seq(WalkCalls) /\ 1 \in Statements
       /\ pc # "walk" => todo = <<>> /\ range_vars = <<>>
       /\ \E E \in SUBSET Statements, k \in 0 .. Len(todo) :
            \E inner \in {SubSeq(todo, 1, k)}, outer \in {SubSeq(todo, k + 1, Len(todo))} :
              Progress(E, inner, outer)

IInv == WalkType /\ TreeInv /\ WalkInv

-----------------------------------------------------------------------------
(* Sequences.                                                                *)

LEMMA Concat ==
  ASSUME NEW S, NEW s \in Seq(S), NEW t \in Seq(S)
  PROVE  /\ s \o t \in Seq(S) /\ Len(s \o t) = Len(s) + Len(t)
         /\ DOMAIN s = 1 .. Len(s) /\ DOMAIN t = 1 .. Len(t)
         /\ DOMAIN (s \o t) = 1 .. Len(s) + Len(t)
         /\ \A k \in 1 .. Len(s) : (s \o t)[k] = s[k]
         /\ \A k \in Len(s) + 1 .. Len(s) + Len(t) : (s \o t)[k] = t[k - Len(s)]
OBVIOUS

\* What two sequences have in them together, ...
LEMMA ConcatSet ==
  ASSUME NEW S, NEW s \in Seq(S), NEW t \in Seq(S)
  PROVE  ToSet(s \o t) = ToSet(s) \cup ToSet(t)
<1> DEFINE u == s \o t
<1>1. /\ DOMAIN s = 1 .. Len(s) /\ DOMAIN t = 1 .. Len(t) /\ DOMAIN u = 1 .. Len(s) + Len(t)
      /\ \A k \in 1 .. Len(s) : u[k] = s[k]
      /\ \A k \in Len(s) + 1 .. Len(s) + Len(t) : u[k] = t[k - Len(s)]
      /\ Len(s) \in Nat /\ Len(t) \in Nat
  BY Concat
<1> HIDE DEF u
<1>2. ASSUME NEW i \in DOMAIN s PROVE s[i] \in ToSet(u)
  <2>1. i \in 1 .. Len(s) /\ i \in 1 .. Len(s) + Len(t)
    BY <1>1
  <2>2. u[i] = s[i] /\ i \in DOMAIN u
    BY <2>1, <1>1
  <2> QED BY <2>2 DEF ToSet
<1>3. ASSUME NEW i \in DOMAIN t PROVE t[i] \in ToSet(u)
  <2>1. i \in 1 .. Len(t)
    BY <1>1
  <2>2. i + Len(s) \in Len(s) + 1 .. Len(s) + Len(t) /\ i + Len(s) \in 1 .. Len(s) + Len(t)
        /\ i + Len(s) - Len(s) = i
    BY <2>1, <1>1
  <2>3. u[i + Len(s)] = t[i] /\ i + Len(s) \in DOMAIN u
    BY <2>2, <1>1
  <2> QED BY <2>3 DEF ToSet
<1>4. ASSUME NEW i \in DOMAIN u PROVE u[i] \in ToSet(s) \cup ToSet(t)
  <2>1. CASE i <= Len(s)
    <3>1. i \in 1 .. Len(s)
      BY <2>1, <1>1
    <3>2. u[i] = s[i] /\ i \in DOMAIN s
      BY <3>1, <1>1
    <3> QED BY <3>2 DEF ToSet
  <2>2. CASE ~(i <= Len(s))
    <3>1. i \in Len(s) + 1 .. Len(s) + Len(t) /\ i - Len(s) \in 1 .. Len(t)
      BY <2>2, <1>1
    <3>2. u[i] = t[i - Len(s)] /\ i - Len(s) \in DOMAIN t
      BY <3>1, <1>1
    <3> QED BY <3>2 DEF ToSet
  <2> QED BY <2>1, <2>2
<1>5. ToSet(s) \subseteq ToSet(u) /\ ToSet(t) \subseteq ToSet(u)
  BY <1>2, <1>3 DEF ToSet
<1>6. ToSet(u) \subseteq ToSet(s) \cup ToSet(t)
  BY <1>4 DEF ToSet
<1> QED BY <1>5, <1>6 DEF u

\* ... and that each is in them once.
LEMMA ConcatOnce ==
  ASSUME NEW S, NEW s \in Seq(S), NEW t \in Seq(S), IsInjective(s), IsInjective(t),
         ToSet(s) \cap ToSet(t) = {}
  PROVE  IsInjective(s \o t)
<1> DEFINE u == s \o t
<1>1. /\ DOMAIN s = 1 .. Len(s) /\ DOMAIN t = 1 .. Len(t) /\ DOMAIN u = 1 .. Len(s) + Len(t)
      /\ \A k \in 1 .. Len(s) : u[k] = s[k]
      /\ \A k \in Len(s) + 1 .. Len(s) + Len(t) : u[k] = t[k - Len(s)]
      /\ Len(s) \in Nat /\ Len(t) \in Nat
  BY Concat
<1> HIDE DEF u
<1>2. SUFFICES ASSUME NEW i \in DOMAIN u, NEW j \in DOMAIN u, u[i] = u[j] PROVE i = j
  BY DEF IsInjective, u
<1>3. ASSUME NEW k \in DOMAIN u, k <= Len(s)
      PROVE  k \in DOMAIN s /\ u[k] = s[k] /\ u[k] \in ToSet(s)
  <2>1. k \in 1 .. Len(s)
    BY <1>1, <1>3
  <2> QED BY <2>1, <1>1 DEF ToSet
<1>4. ASSUME NEW k \in DOMAIN u, ~(k <= Len(s))
      PROVE  k - Len(s) \in DOMAIN t /\ u[k] = t[k - Len(s)] /\ u[k] \in ToSet(t)
  <2>1. k \in Len(s) + 1 .. Len(s) + Len(t) /\ k - Len(s) \in 1 .. Len(t)
    BY <1>1, <1>4
  <2> QED BY <2>1, <1>1 DEF ToSet
<1>5. CASE i <= Len(s) /\ j <= Len(s)
  BY <1>2, <1>3, <1>5 DEF IsInjective
<1>6. CASE ~(i <= Len(s)) /\ ~(j <= Len(s))
  <2>1. i - Len(s) = j - Len(s)
    BY <1>2, <1>4, <1>6 DEF IsInjective
  <2> QED BY <2>1, <1>1
<1>7. CASE (i <= Len(s)) # (j <= Len(s))
  BY <1>2, <1>3, <1>4, <1>7
<1> QED BY <1>5, <1>6, <1>7

\* A sequence is its first element and the rest, ...
LEMMA HeadTail ==
  ASSUME NEW S, NEW s \in Seq(S), s # <<>>
  PROVE  /\ s[1] \in S /\ Tail(s) \in Seq(S) /\ Len(Tail(s)) = Len(s) - 1
         /\ s = <<s[1]>> \o Tail(s) /\ DOMAIN s = 1 .. Len(s) /\ 1 \in DOMAIN s
         /\ Len(s) \in Nat /\ Len(s) >= 1 /\ Head(s) = s[1]
         /\ \A i \in 1 .. Len(s) - 1 : Tail(s)[i] = s[i + 1]
OBVIOUS

LEMMA HeadTailSet ==
  ASSUME NEW S, NEW s \in Seq(S), s # <<>>
  PROVE  /\ ToSet(s) = {s[1]} \cup ToSet(Tail(s))
         /\ IsInjective(s) => IsInjective(Tail(s)) /\ s[1] \notin ToSet(Tail(s))
<1> DEFINE t == Tail(s)
<1>1. /\ t \in Seq(S) /\ Len(t) = Len(s) - 1 /\ Len(s) \in Nat /\ Len(s) >= 1
      /\ DOMAIN s = 1 .. Len(s) /\ 1 \in DOMAIN s
      /\ \A i \in 1 .. Len(s) - 1 : t[i] = s[i + 1]
      /\ s[1] \in S /\ s = <<s[1]>> \o t
  BY HeadTail
<1>2. DOMAIN t = 1 .. Len(s) - 1
  BY <1>1
<1> HIDE DEF t
<1>3. <<s[1]>> \in Seq(S) /\ ToSet(<<s[1]>>) = {s[1]}
  BY <1>1 DEF ToSet
<1>4. ToSet(s) = {s[1]} \cup ToSet(t)
  <2> DEFINE h == <<s[1]>>
  <2>1. h \in Seq(S) /\ ToSet(h) = {s[1]} /\ s = h \o t
    BY <1>1, <1>3
  <2> HIDE DEF h
  <2>2. ToSet(h \o t) = ToSet(h) \cup ToSet(t)
    BY <2>1, <1>1, ConcatSet
  <2> QED BY <2>1, <2>2
<1>5. ASSUME NEW i \in DOMAIN t
      PROVE  i \in Nat /\ i + 1 \in DOMAIN s /\ i + 1 # 1 /\ t[i] = s[i + 1]
  BY <1>1, <1>2
<1>6. ASSUME IsInjective(s) PROVE IsInjective(t) /\ s[1] \notin ToSet(t)
  <2>1. ASSUME NEW i \in DOMAIN t, NEW j \in DOMAIN t, t[i] = t[j] PROVE i = j
    <3>1. i + 1 = j + 1
      BY <1>5, <1>6, <2>1 DEF IsInjective
    <3> QED BY <3>1, <1>5
  <2>2. ASSUME NEW i \in DOMAIN t, t[i] = s[1] PROVE FALSE
    BY <1>1, <1>5, <1>6, <2>2 DEF IsInjective
  <2> QED BY <2>1, <2>2 DEF IsInjective, ToSet
<1> QED BY <1>4, <1>6 DEF t

\* One more element at the end.
LEMMA OneMore ==
  ASSUME NEW S, NEW s \in Seq(S), NEW e \in S
  PROVE  /\ Append(s, e) \in Seq(S) /\ ToSet(Append(s, e)) = ToSet(s) \cup {e}
         /\ IsInjective(s) /\ e \notin ToSet(s) => IsInjective(Append(s, e))
         /\ DOMAIN s = 1 .. Len(s) /\ DOMAIN Append(s, e) = 1 .. Len(s) + 1 /\ Len(s) \in Nat
         /\ \A i \in 1 .. Len(s) : Append(s, e)[i] = s[i]
         /\ Append(s, e)[Len(s) + 1] = e
<1>1. /\ Append(s, e) = s \o <<e>> /\ <<e>> \in Seq(S) /\ DOMAIN <<e>> = {1}
      /\ <<e>>[1] = e
  OBVIOUS
<1>2. ToSet(<<e>>) = {e} /\ IsInjective(<<e>>)
  BY <1>1 DEF ToSet, IsInjective
<1> DEFINE h == <<e>>
<1>3. h \in Seq(S) /\ ToSet(h) = {e} /\ IsInjective(h) /\ Append(s, e) = s \o h
  BY <1>1, <1>2
<1>4. Append(s, e) \in Seq(S) /\ ToSet(Append(s, e)) = ToSet(s) \cup {e}
  <2> HIDE DEF h
  <2>1. ToSet(s \o h) = ToSet(s) \cup ToSet(h)
    BY <1>3, ConcatSet
  <2>2. s \o h \in Seq(S)
    BY <1>3, Concat
  <2> QED BY <2>1, <2>2, <1>3
<1>5. IsInjective(s) /\ e \notin ToSet(s) => IsInjective(Append(s, e))
  <2> HIDE DEF h
  <2>1. IsInjective(s) /\ e \notin ToSet(s) => IsInjective(s \o h)
    BY <1>3, ConcatOnce
  <2> QED BY <2>1, <1>3
<1>6. /\ DOMAIN s = 1 .. Len(s) /\ DOMAIN Append(s, e) = 1 .. Len(s) + 1 /\ Len(s) \in Nat
      /\ \A i \in 1 .. Len(s) : Append(s, e)[i] = s[i]
      /\ Append(s, e)[Len(s) + 1] = e
  OBVIOUS
<1> QED BY <1>4, <1>5, <1>6

\* A sequence cut in two, and two put together.
LEMMA CutAt ==
  ASSUME NEW S, NEW s \in Seq(S), NEW k \in 0 .. Len(s)
  PROVE  /\ SubSeq(s, 1, k) \in Seq(S) /\ SubSeq(s, k + 1, Len(s)) \in Seq(S)
         /\ s = SubSeq(s, 1, k) \o SubSeq(s, k + 1, Len(s))
<1>1. Len(s) \in Nat /\ 1 \in 1 .. Len(s) + 1 /\ k \in 1 - 1 .. Len(s) /\ Len(s) \in k .. Len(s)
  OBVIOUS
<1>2. SubSeq(s, 1, k) \o SubSeq(s, k + 1, Len(s)) = SubSeq(s, 1, Len(s))
  BY <1>1, ConcatAdjacentSubSeq
<1>3. SubSeq(s, 1, Len(s)) = s
  BY SubSeqFull
<1>4. SubSeq(s, 1, k) \in Seq(S) /\ SubSeq(s, k + 1, Len(s)) \in Seq(S)
  OBVIOUS
<1> QED BY <1>2, <1>3, <1>4

LEMMA CutBack ==
  ASSUME NEW S, NEW s \in Seq(S), NEW t \in Seq(S)
  PROVE  /\ Len(s) \in 0 .. Len(s \o t)
         /\ SubSeq(s \o t, 1, Len(s)) = s
         /\ SubSeq(s \o t, Len(s) + 1, Len(s \o t)) = t
<1> DEFINE u == s \o t
<1>1. /\ DOMAIN s = 1 .. Len(s) /\ DOMAIN t = 1 .. Len(t) /\ DOMAIN u = 1 .. Len(s) + Len(t)
      /\ \A k \in 1 .. Len(s) : u[k] = s[k]
      /\ \A k \in Len(s) + 1 .. Len(s) + Len(t) : u[k] = t[k - Len(s)]
      /\ Len(s) \in Nat /\ Len(t) \in Nat /\ u \in Seq(S) /\ Len(u) = Len(s) + Len(t)
  BY Concat
<1> HIDE DEF u
<1>2. SubSeq(u, 1, Len(s)) = s
  BY <1>1
<1>3. SubSeq(u, Len(s) + 1, Len(u)) = t
  <2> DEFINE v == SubSeq(u, Len(s) + 1, Len(u))
  <2>1. v \in Seq(S) /\ Len(v) = Len(t)
    BY <1>1
  <2>2. \A k \in 1 .. Len(t) : v[k] = t[k]
    <3> TAKE k \in 1 .. Len(t)
    <3>1. v[k] = u[Len(s) + k]
      BY <1>1
    <3>2. Len(s) + k \in Len(s) + 1 .. Len(s) + Len(t) /\ Len(s) + k - Len(s) = k
      BY <1>1
    <3>3. u[Len(s) + k] = t[Len(s) + k - Len(s)]
      BY <3>2, <1>1
    <3> QED BY <3>1, <3>2, <3>3
  <2> HIDE DEF v
  <2>3. v = t
    BY <2>1, <2>2, SeqEqual
  <2> QED BY <2>3 DEF v
<1> QED BY <1>1, <1>2, <1>3 DEF u

-----------------------------------------------------------------------------
(* The tree and the calls that a statement's walk consists of.               *)

LEMMA NodeFields ==
  ASSUME TreeInv, NEW s \in Statements
  PROVE  /\ tree[s].kind \in Kinds /\ tree[s].part \in Parts /\ tree[s].cond \in Conditions
         /\ tree[s].parent \in Nat /\ s \in Nat /\ s >= 1 /\ s <= Len(tree)
         /\ \A p \in Parts : Children(s, p) \in Seq(1 .. MaxStmts)
<1>1. tree \in Seq(NodeType)
  BY DEF TreeInv
<1>2. s \in 1 .. Len(tree) /\ Len(tree) \in Nat
  BY <1>1 DEF Statements
<1>3. tree[s] \in NodeType
  BY <1>1, <1>2
<1>4. /\ tree[s].kind \in Kinds /\ tree[s].part \in Parts /\ tree[s].cond \in Conditions
      /\ tree[s].parent \in 0 .. MaxStmts /\ tree[s].children \in [Parts -> Seq(1 .. MaxStmts)]
  BY <1>3 DEF NodeType
<1> QED BY <1>2, <1>4 DEF Children

LEMMA PartsOfKind ==
  ASSUME NEW kind \in Kinds
  PROVE  /\ \A i \in DOMAIN PartsOf(kind) : i \in 1 .. 4 /\ PartsOf(kind)[i] \in Parts
         /\ IsInjective(PartsOf(kind))
         /\ "where" \in ToSet(PartsOf(kind)) <=> kind \in WithCondition \ {"CopyStmt"}
<1> USE DEF IsInjective, ToSet, WithCondition, WithRelation, Kinds, Queries, Changes, Wrappers,
            Parts
<1>1. CASE kind = "SelectStmt"
  <2>1. PartsOf(kind) = <<"target", "from", "where", "cte">>
    BY <1>1 DEF PartsOf
  <2> QED BY <2>1, <1>1
<1>2. CASE kind = "SetOperation"
  <2>1. PartsOf(kind) = <<"cte", "query">>
    BY <1>2 DEF PartsOf
  <2> QED BY <2>1, <1>2
<1>3. CASE kind = "ValuesStmt"
  <2>1. PartsOf(kind) = <<"target", "cte">>
    BY <1>3 DEF PartsOf
  <2> QED BY <2>1, <1>3
<1>4. CASE kind = "UpdateStmt"
  <2>1. PartsOf(kind) = <<"target", "where", "from", "cte">>
    BY <1>4 DEF PartsOf
  <2> QED BY <2>1, <1>4
<1>5. CASE kind = "InsertStmt"
  <2>1. PartsOf(kind) = <<"query", "where", "cte">>
    BY <1>5 DEF PartsOf
  <2> QED BY <2>1, <1>5
<1>6. CASE kind = "DeleteStmt"
  <2>1. PartsOf(kind) = <<"from", "where", "cte">>
    BY <1>6 DEF PartsOf
  <2> QED BY <2>1, <1>6
<1>7. CASE kind = "IndexStmt"
  <2>1. PartsOf(kind) = <<"where">>
    BY <1>7 DEF PartsOf
  <2> QED BY <2>1, <1>7
<1>8. CASE kind = "CopyStmt"
  <2>1. PartsOf(kind) = <<>>
    BY <1>8 DEF PartsOf
  <2> QED BY <2>1, <1>8
<1>9. CASE kind \in {"ViewStmt", "ExplainStmt"}
  <2>1. PartsOf(kind) = <<"query">>
    BY <1>9 DEF PartsOf
  <2> QED BY <2>1, <1>9
<1> QED BY <1>1, <1>2, <1>3, <1>4, <1>5, <1>6, <1>7, <1>8, <1>9

\* The kind of call for a child.
ChildCall(p, c) == <<IF p = "cte" THEN "cte" ELSE "stmt", c>>
IsChild(s, p, c) == tree[c].parent = s /\ tree[c].part = p

LEMMA CallsAre ==
  ASSUME TreeInv, NEW s \in Statements, NEW p \in Parts
  PROVE  /\ Calls(s, p) \in Seq(WalkCalls) /\ IsInjective(Calls(s, p))
         /\ ToSet(Calls(s, p)) = {ChildCall(p, c) : c \in {d \in Statements : IsChild(s, p, d)}}
<1> DEFINE kids == Children(s, p)
<1>1. /\ kids \in Seq(1 .. MaxStmts) /\ IsInjective(kids)
      /\ ToSet(kids) = {c \in Statements : tree[c].parent = s /\ tree[c].part = p}
  BY NodeFields DEF TreeInv
<1>2. Calls(s, p) = [i \in DOMAIN kids |-> ChildCall(p, kids[i])]
  BY DEF Calls, ChildCall
<1> HIDE DEF kids
<1>3. DOMAIN kids = 1 .. Len(kids) /\ Len(kids) \in Nat
  BY <1>1
<1>4. \A i \in DOMAIN kids : kids[i] \in Statements
  BY <1>1 DEF ToSet
<1>5. \A c \in Statements : ChildCall(p, c) \in WalkCalls
  BY DEF ChildCall, WalkCalls, CallTypes
<1>6. \A c, d : ChildCall(p, c) = ChildCall(p, d) => c = d
  BY DEF ChildCall
<1> HIDE DEF WalkCalls, ChildCall
<1>7. Calls(s, p) \in Seq(WalkCalls)
  BY <1>2, <1>3, <1>4, <1>5
<1>8. IsInjective(Calls(s, p))
  BY <1>1, <1>2, <1>6 DEF IsInjective
<1>9. ToSet(Calls(s, p)) = {ChildCall(p, c) : c \in ToSet(kids)}
  BY <1>2 DEF ToSet
<1> QED BY <1>1, <1>7, <1>8, <1>9 DEF IsChild

\* What is in the walk of a part.
InPart(s, p, x) ==
  \/ p = "target" /\ x = <<"target", s>>
  \/ p = "where" /\ tree[s].cond # "none" /\ x = <<"cond", s>>
  \/ \E c \in Statements : IsChild(s, p, c) /\ x = ChildCall(p, c)

LEMMA CallKinds ==
  ASSUME NEW p, NEW c
  PROVE  /\ ChildCall(p, c)[1] \in {"cte", "stmt"} /\ ChildCall(p, c)[2] = c
         /\ ChildCall(p, c)[1] = "cte" <=> p = "cte"
BY DEF ChildCall

LEMMA OneCall ==
  ASSUME NEW a \in CallTypes, NEW s \in Statements
  PROVE  /\ <<<<a, s>>>> \in Seq(WalkCalls) /\ IsInjective(<<<<a, s>>>>)
         /\ ToSet(<<<<a, s>>>>) = {<<a, s>>}
<1> DEFINE x == <<a, s>>
<1>1. x \in WalkCalls
  BY DEF WalkCalls
<1> HIDE DEF x
<1>2. <<x>> \in Seq(WalkCalls) /\ DOMAIN <<x>> = {1} /\ <<x>>[1] = x
  BY <1>1
<1>3. IsInjective(<<x>>) /\ ToSet(<<x>>) = {x}
  BY <1>2 DEF IsInjective, ToSet
<1> QED BY <1>2, <1>3 DEF x

LEMMA NoCalls ==
  ASSUME NEW S
  PROVE  <<>> \in Seq(S) /\ IsInjective(<<>>) /\ ToSet(<<>>) = {}
BY DEF IsInjective, ToSet

LEMMA WhereClauseIs ==
  ASSUME TreeInv, NEW s \in Statements
  PROVE  /\ WhereClause(s) \in Seq(WalkCalls) /\ IsInjective(WhereClause(s))
         /\ \A x : x \in ToSet(WhereClause(s)) <=> InPart(s, "where", x)
<1> DEFINE c == <<<<"cond", s>>>>
<1> DEFINE kids == Calls(s, "where")
<1>1. /\ c \in Seq(WalkCalls) /\ IsInjective(c) /\ ToSet(c) = {<<"cond", s>>}
  BY OneCall DEF CallTypes
<1>2. /\ kids \in Seq(WalkCalls) /\ IsInjective(kids)
      /\ ToSet(kids) = {ChildCall("where", d) :
                          d \in {e \in Statements : IsChild(s, "where", e)}}
  BY CallsAre DEF Parts
<1>3. \A d : ChildCall("where", d) # <<"cond", s>>
  BY DEF ChildCall
<1>4. ToSet(c) \cap ToSet(kids) = {}
  BY <1>1, <1>2, <1>3
<1>5. /\ c \o kids \in Seq(WalkCalls) /\ IsInjective(c \o kids)
      /\ ToSet(c \o kids) = ToSet(c) \cup ToSet(kids)
      /\ kids \o c \in Seq(WalkCalls) /\ IsInjective(kids \o c)
      /\ ToSet(kids \o c) = ToSet(c) \cup ToSet(kids)
  <2> HIDE DEF c, kids
  <2>1. ToSet(kids) \cap ToSet(c) = {}
    BY <1>4
  <2>2. c \o kids \in Seq(WalkCalls) /\ kids \o c \in Seq(WalkCalls)
    BY <1>1, <1>2, Concat
  <2>3. IsInjective(c \o kids) /\ IsInjective(kids \o c)
    BY <1>1, <1>2, <1>4, <2>1, ConcatOnce
  <2>4. /\ ToSet(c \o kids) = ToSet(c) \cup ToSet(kids)
        /\ ToSet(kids \o c) = ToSet(kids) \cup ToSet(c)
    BY <1>1, <1>2, ConcatSet
  <2> QED BY <2>2, <2>3, <2>4
<1>6. tree[s].cond \in {"none", "first", "last"}
  BY NodeFields DEF Conditions
<1>7. WhereClause(s) = (IF tree[s].cond = "first" THEN c ELSE <<>>) \o kids
                          \o (IF tree[s].cond = "last" THEN c ELSE <<>>)
  BY DEF WhereClause
<1> DEFINE w == WhereClause(s)
<1>8. /\ tree[s].cond = "none" => w = kids
      /\ tree[s].cond = "first" => w = c \o kids
      /\ tree[s].cond = "last" => w = kids \o c
  <2> HIDE DEF c, kids
  <2>1. <<>> \o kids = kids /\ kids \o <<>> = kids /\ c \o kids \o <<>> = c \o kids
    BY <1>1, <1>2, <1>5
  <2> QED BY <1>7, <2>1
<1> HIDE DEF c, kids, w
<1>9. w \in Seq(WalkCalls) /\ IsInjective(w)
  BY <1>2, <1>5, <1>6, <1>8
<1>10. ToSet(w) = (IF tree[s].cond = "none" THEN {} ELSE ToSet(c)) \cup ToSet(kids)
  BY <1>2, <1>5, <1>6, <1>8
<1>11. \A x : x \in ToSet(w) <=> InPart(s, "where", x)
  BY <1>1, <1>2, <1>10 DEF InPart
<1> QED BY <1>9, <1>11 DEF w

LEMMA WalkPartIs ==
  ASSUME TreeInv, NEW s \in Statements, NEW p \in Parts
  PROVE  /\ WalkPart(s, p) \in Seq(WalkCalls) /\ IsInjective(WalkPart(s, p))
         /\ \A x : x \in ToSet(WalkPart(s, p)) <=> InPart(s, p, x)
<1>1. CASE p = "where"
  BY <1>1, WhereClauseIs DEF WalkPart
<1>2. CASE p # "where"
  <2> DEFINE t == IF p = "target" THEN <<<<"target", s>>>> ELSE <<>>
  <2> DEFINE kids == Calls(s, p)
  <2>1. /\ t \in Seq(WalkCalls) /\ IsInjective(t)
        /\ ToSet(t) = IF p = "target" THEN {<<"target", s>>} ELSE {}
    <3>1. CASE p = "target"
      <4>1. "target" \in CallTypes
        BY DEF CallTypes
      <4>2. t = <<<<"target", s>>>>
        BY <3>1
      <4> QED BY <3>1, <4>1, <4>2, OneCall
    <3>2. CASE p # "target"
      <4>1. t = <<>>
        BY <3>2
      <4> QED BY <3>2, <4>1, NoCalls
    <3> QED BY <3>1, <3>2
  <2>2. /\ kids \in Seq(WalkCalls) /\ IsInjective(kids)
        /\ ToSet(kids) = {ChildCall(p, d) : d \in {e \in Statements : IsChild(s, p, e)}}
    BY CallsAre
  <2>3. \A d : ChildCall(p, d) # <<"target", s>>
    BY DEF ChildCall
  <2>4. ToSet(t) \cap ToSet(kids) = {}
    BY <2>1, <2>2, <2>3
  <2>5. WalkPart(s, p) = t \o kids
    BY <1>2 DEF WalkPart
  <2> HIDE DEF t, kids
  <2>6. t \o kids \in Seq(WalkCalls) /\ IsInjective(t \o kids)
        /\ ToSet(t \o kids) = ToSet(t) \cup ToSet(kids)
    BY <2>1, <2>2, <2>4, Concat, ConcatOnce, ConcatSet
  <2>7. \A x : x \in ToSet(t \o kids) <=> InPart(s, p, x)
    BY <1>2, <2>1, <2>2, <2>6 DEF InPart
  <2> QED BY <2>5, <2>6, <2>7
<1> QED BY <1>1, <1>2

\* No call is in two parts.
LEMMA PartsApart ==
  ASSUME NEW s, NEW p, NEW q, NEW x, InPart(s, p, x), InPart(s, q, x)
  PROVE  p = q
<1>1. CASE x = <<"target", s>>
  BY <1>1 DEF InPart, ChildCall
<1>2. CASE x = <<"cond", s>>
  BY <1>2 DEF InPart, ChildCall
<1>3. CASE x # <<"target", s>> /\ x # <<"cond", s>>
  <2>1. PICK c \in Statements : IsChild(s, p, c) /\ x = ChildCall(p, c)
    BY <1>3 DEF InPart
  <2>2. PICK d \in Statements : IsChild(s, q, d) /\ x = ChildCall(q, d)
    BY <1>3 DEF InPart
  <2>3. c = d
    BY <2>1, <2>2 DEF ChildCall
  <2> QED BY <2>1, <2>2, <2>3 DEF IsChild
<1> QED BY <1>1, <1>2, <1>3

\* The i-th part of a statement's walk.
NthPart(s, i) ==
  IF i \in DOMAIN PartsOf(tree[s].kind) THEN WalkPart(s, PartsOf(tree[s].kind)[i]) ELSE <<>>

LEMMA NthPartIs ==
  ASSUME TreeInv, NEW s \in Statements, NEW i \in 1 .. 4
  PROVE  /\ NthPart(s, i) \in Seq(WalkCalls) /\ IsInjective(NthPart(s, i))
         /\ \A x : x \in ToSet(NthPart(s, i)) <=>
                     /\ i \in DOMAIN PartsOf(tree[s].kind)
                     /\ InPart(s, PartsOf(tree[s].kind)[i], x)
<1>1. tree[s].kind \in Kinds
  BY NodeFields
<1>2. CASE i \in DOMAIN PartsOf(tree[s].kind)
  <2>1. PartsOf(tree[s].kind)[i] \in Parts
    BY <1>1, <1>2, PartsOfKind
  <2> QED BY <1>2, <2>1, WalkPartIs DEF NthPart
<1>3. CASE i \notin DOMAIN PartsOf(tree[s].kind)
  <2>1. NthPart(s, i) = <<>>
    BY <1>3 DEF NthPart
  <2> QED BY <1>3, <2>1, NoCalls
<1> QED BY <1>2, <1>3

\* The walk of a statement has everything once that is in its parts.
InStmt(s, x) == \E p \in ToSet(PartsOf(tree[s].kind)) : InPart(s, p, x)

LEMMA RawWalkIs ==
  ASSUME TreeInv, NEW s \in Statements
  PROVE  /\ RawWalk(s) \in Seq(WalkCalls) /\ IsInjective(RawWalk(s))
         /\ \A x : x \in ToSet(RawWalk(s)) <=> InStmt(s, x)
<1> DEFINE parts == PartsOf(tree[s].kind)
<1>1. /\ \A i \in DOMAIN parts : i \in 1 .. 4 /\ parts[i] \in Parts
      /\ IsInjective(parts)
  BY NodeFields, PartsOfKind
<1> DEFINE w1 == NthPart(s, 1)
<1> DEFINE w2 == NthPart(s, 2)
<1> DEFINE w3 == NthPart(s, 3)
<1> DEFINE w4 == NthPart(s, 4)
<1>2. RawWalk(s) = ((w1 \o w2) \o w3) \o w4
  BY DEF RawWalk, NthPart
<1>3. /\ w1 \in Seq(WalkCalls) /\ IsInjective(w1) /\ w2 \in Seq(WalkCalls) /\ IsInjective(w2)
      /\ w3 \in Seq(WalkCalls) /\ IsInjective(w3) /\ w4 \in Seq(WalkCalls) /\ IsInjective(w4)
  BY NthPartIs
<1>4. ASSUME NEW i \in 1 .. 4, NEW j \in 1 .. 4, i # j
      PROVE  ToSet(NthPart(s, i)) \cap ToSet(NthPart(s, j)) = {}
  <2> SUFFICES ASSUME NEW x, x \in ToSet(NthPart(s, i)), x \in ToSet(NthPart(s, j)) PROVE FALSE
    OBVIOUS
  <2>1. /\ i \in DOMAIN parts /\ InPart(s, parts[i], x)
        /\ j \in DOMAIN parts /\ InPart(s, parts[j], x)
    BY NthPartIs
  <2>2. parts[i] = parts[j]
    BY <2>1, PartsApart
  <2> QED BY <1>1, <1>4, <2>1, <2>2 DEF IsInjective
<1>5. /\ ToSet(w1) \cap ToSet(w2) = {} /\ ToSet(w1) \cap ToSet(w3) = {}
      /\ ToSet(w1) \cap ToSet(w4) = {} /\ ToSet(w2) \cap ToSet(w3) = {}
      /\ ToSet(w2) \cap ToSet(w4) = {} /\ ToSet(w3) \cap ToSet(w4) = {}
  BY <1>4
<1>6. \A x : x \in ToSet(w1) \cup ToSet(w2) \cup ToSet(w3) \cup ToSet(w4) <=> InStmt(s, x)
  <2>1. \A x : \A i \in 1 .. 4 : x \in ToSet(NthPart(s, i)) => InStmt(s, x)
    <3> TAKE x
    <3> TAKE i \in 1 .. 4
    <3> HAVE x \in ToSet(NthPart(s, i))
    <3>1. i \in DOMAIN parts /\ InPart(s, parts[i], x)
      BY NthPartIs
    <3> QED BY <3>1 DEF InStmt, ToSet
  <2>2. \A x : InStmt(s, x) => \E i \in 1 .. 4 : x \in ToSet(NthPart(s, i))
    <3> TAKE x
    <3> HAVE InStmt(s, x)
    <3>1. PICK i \in DOMAIN parts : InPart(s, parts[i], x)
      BY DEF InStmt, ToSet
    <3>2. i \in 1 .. 4
      BY <1>1
    <3>3. x \in ToSet(NthPart(s, i))
      BY <3>1, <3>2, NthPartIs
    <3> QED BY <3>2, <3>3
  <2>3. \A x : x \in ToSet(w1) \/ x \in ToSet(w2) \/ x \in ToSet(w3) \/ x \in ToSet(w4)
               => InStmt(s, x)
    BY <2>1
  <2>4. \A i \in 1 .. 4 : i = 1 \/ i = 2 \/ i = 3 \/ i = 4
    OBVIOUS
  <2>5. \A x : InStmt(s, x) =>
          x \in ToSet(w1) \/ x \in ToSet(w2) \/ x \in ToSet(w3) \/ x \in ToSet(w4)
    BY <2>2, <2>4
  <2> QED BY <2>3, <2>5
<1> HIDE DEF w1, w2, w3, w4, parts
<1>7. /\ w1 \o w2 \in Seq(WalkCalls) /\ IsInjective(w1 \o w2)
      /\ ToSet(w1 \o w2) = ToSet(w1) \cup ToSet(w2)
  BY <1>3, <1>5, Concat, ConcatOnce, ConcatSet
<1> DEFINE a == w1 \o w2
<1>8. /\ a \in Seq(WalkCalls) /\ IsInjective(a) /\ ToSet(a) = ToSet(w1) \cup ToSet(w2)
      /\ ToSet(a) \cap ToSet(w3) = {} /\ ToSet(a) \cap ToSet(w4) = {}
  BY <1>5, <1>7
<1> HIDE DEF a
<1>9. /\ a \o w3 \in Seq(WalkCalls) /\ IsInjective(a \o w3)
      /\ ToSet(a \o w3) = ToSet(a) \cup ToSet(w3)
  BY <1>3, <1>8, Concat, ConcatOnce, ConcatSet
<1> DEFINE b == a \o w3
<1>10. /\ b \in Seq(WalkCalls) /\ IsInjective(b) /\ ToSet(b) = ToSet(a) \cup ToSet(w3)
       /\ ToSet(b) \cap ToSet(w4) = {}
  BY <1>5, <1>8, <1>9
<1> HIDE DEF b
<1>11. /\ b \o w4 \in Seq(WalkCalls) /\ IsInjective(b \o w4)
       /\ ToSet(b \o w4) = ToSet(b) \cup ToSet(w4)
  BY <1>3, <1>10, Concat, ConcatOnce, ConcatSet
<1>12. RawWalk(s) = b \o w4
  BY <1>2 DEF a, b
<1>13. ToSet(b \o w4) = ToSet(w1) \cup ToSet(w2) \cup ToSet(w3) \cup ToSet(w4)
  BY <1>8, <1>10, <1>11
<1> QED BY <1>6, <1>11, <1>12, <1>13

-----------------------------------------------------------------------------
(* Steps of the walk. Each leaves calls a of a pass and b after it.          *)

LEMMA Ongoing ==
  ASSUME WalkInv, pc # "parse"
  PROVE  \E E \in SUBSET Statements, inner, outer \in Seq(WalkCalls) :
           todo = inner \o outer /\ Progress(E, inner, outer)
<1>1. PICK E \in SUBSET Statements, k \in 0 .. Len(todo) :
        \E inner \in {SubSeq(todo, 1, k)}, outer \in {SubSeq(todo, k + 1, Len(todo))} :
          Progress(E, inner, outer)
  BY DEF WalkInv
<1>2. PICK inner \in {SubSeq(todo, 1, k)}, outer \in {SubSeq(todo, k + 1, Len(todo))} :
        Progress(E, inner, outer)
  BY <1>1
<1>3. todo \in Seq(WalkCalls)
  BY DEF WalkInv
<1>4. inner \in Seq(WalkCalls) /\ outer \in Seq(WalkCalls) /\ todo = inner \o outer
  BY <1>2, <1>3, CutAt, ZenonT(40)
<1> QED BY <1>2, <1>4

\* The state that a step of the walk does not touch.
LEMMA SameTree ==
  ASSUME tree' = tree
  PROVE  /\ Statements' = Statements /\ CteNames' = CteNames /\ WalkCalls' = WalkCalls
         /\ \A E, s : Reachable(E, s)' <=> Reachable(E, s)
BY DEF Statements, CteNames, WalkCalls, Reachable

LEMMA Onward ==
  ASSUME pc' = "walk", tree' = tree, 1 \in Statements, NEW E \in SUBSET Statements,
         NEW a \in Seq(WalkCalls), NEW b \in Seq(WalkCalls), todo' = a \o b, Progress(E, a, b)'
  PROVE  WalkInv'
<1>1. /\ Len(a) \in 0 .. Len(todo') /\ a = SubSeq(todo', 1, Len(a))
      /\ b = SubSeq(todo', Len(a) + 1, Len(todo'))
  BY CutBack
<1>2. Statements' = Statements
  BY DEF Statements
<1>3. \E k \in 0 .. Len(todo') :
        \E inner \in {SubSeq(todo', 1, k)}, outer \in {SubSeq(todo', k + 1, Len(todo'))} :
          Progress(E, inner, outer)'
  BY <1>1
<1>4. todo' \in Seq(WalkCalls)'
  BY SameTree, Concat
<1> QED BY <1>2, <1>3, <1>4 DEF WalkInv

\* At the end of a pass, and when no pass is on, the next call is the first of outer.
LEMMA NoPass ==
  ASSUME NEW S, NEW outer \in Seq(S), NEW inner \in Seq(S), inner = <<>>, todo = inner \o outer
  PROVE  todo = outer
OBVIOUS

LEMMA InPass ==
  ASSUME NEW S, NEW outer \in Seq(S), NEW inner \in Seq(S), inner # <<>>, todo = inner \o outer
  PROVE  /\ todo # <<>> /\ todo[1] = inner[1] /\ Tail(todo) = Tail(inner) \o outer
         /\ Len(inner) \in Nat /\ Len(inner) >= 1 /\ DOMAIN inner = 1 .. Len(inner)
         /\ Tail(inner) \in Seq(S) /\ Len(Tail(inner)) = Len(inner) - 1
         /\ \A i \in 1 .. Len(inner) - 1 : Tail(inner)[i] = inner[i + 1]
<1>1. /\ Len(inner) \in Nat /\ Len(inner) >= 1 /\ DOMAIN inner = 1 .. Len(inner)
      /\ Tail(inner) \in Seq(S) /\ Len(Tail(inner)) = Len(inner) - 1
      /\ \A i \in 1 .. Len(inner) - 1 : Tail(inner)[i] = inner[i + 1]
  BY HeadTail
<1>2. /\ todo \in Seq(S) /\ Len(todo) = Len(inner) + Len(outer) /\ Len(outer) \in Nat
      /\ \A k \in 1 .. Len(inner) : todo[k] = inner[k]
      /\ \A k \in Len(inner) + 1 .. Len(inner) + Len(outer) : todo[k] = outer[k - Len(inner)]
  BY Concat
<1>3. todo # <<>> /\ todo[1] = inner[1]
  BY <1>1, <1>2
<1>4. Tail(todo) = Tail(inner) \o outer
  <2> DEFINE t == Tail(inner)
  <2> DEFINE u == Tail(todo)
  <2> DEFINE v == t \o outer
  <2>1. /\ u \in Seq(S) /\ Len(u) = Len(todo) - 1
        /\ \A i \in 1 .. Len(todo) - 1 : u[i] = todo[i + 1]
    BY <1>2, <1>3, HeadTail
  <2>2. /\ v \in Seq(S) /\ Len(v) = Len(t) + Len(outer)
        /\ \A k \in 1 .. Len(t) : v[k] = t[k]
        /\ \A k \in Len(t) + 1 .. Len(t) + Len(outer) : v[k] = outer[k - Len(t)]
    BY <1>1, Concat
  <2>3. Len(u) = Len(v) /\ Len(t) = Len(inner) - 1
    BY <1>1, <1>2, <2>1, <2>2
  <2> HIDE DEF t, u, v
  <2>4. ASSUME NEW i \in 1 .. Len(u) PROVE u[i] = v[i]
    <3>1. u[i] = todo[i + 1] /\ i \in Nat /\ i >= 1 /\ i <= Len(inner) + Len(outer) - 1
      BY <1>1, <1>2, <2>1
    <3>2. CASE i <= Len(inner) - 1
      <4>1. i + 1 \in 1 .. Len(inner) /\ i \in 1 .. Len(t) /\ i \in 1 .. Len(inner) - 1
        BY <1>1, <2>3, <3>1, <3>2
      <4>2. v[i] = t[i] /\ t[i] = inner[i + 1]
        BY <4>1, <1>1, <2>2 DEF t
      <4> QED BY <4>1, <4>2, <3>1, <1>2
    <3>3. CASE ~(i <= Len(inner) - 1)
      <4>1. /\ i + 1 \in Len(inner) + 1 .. Len(inner) + Len(outer)
            /\ i \in Len(t) + 1 .. Len(t) + Len(outer)
            /\ i + 1 - Len(inner) = i - Len(t)
        BY <1>1, <1>2, <2>3, <3>1, <3>3
      <4> QED BY <4>1, <3>1, <1>2, <2>2
    <3> QED BY <3>2, <3>3
  <2>5. u = v
    BY <2>1, <2>2, <2>3, <2>4, SeqEqual
  <2> QED BY <2>5 DEF t, u, v
<1> QED BY <1>1, <1>3, <1>4

-----------------------------------------------------------------------------
(* VisitStmt enters a statement, or ends the pass.                           *)

\* The next call taken off the calls to make.
LEMMA NextCall ==
  ASSUME NEW E, NEW outer \in Seq(WalkCalls), outer # <<>>, Ahead(E, outer)
  PROVE  /\ outer[1] \in WalkCalls /\ Tail(outer) \in Seq(WalkCalls)
         /\ outer[1] \in ToSet(outer) /\ outer[1] \notin ToSet(Tail(outer))
         /\ ToSet(outer) = {outer[1]} \cup ToSet(Tail(outer)) /\ IsInjective(Tail(outer))
BY HeadTail, HeadTailSet DEF Ahead

\* A statement due is not due twice.
LEMMA DueOnce ==
  ASSUME NEW E, NEW outer \in Seq(WalkCalls), Ahead(E, outer), NEW s,
         <<"stmt", s>> \in ToSet(outer), <<"cte", s>> \in ToSet(outer)
  PROVE  FALSE
<1> DEFINE x == <<"stmt", s>>
<1> DEFINE y == <<"cte", s>>
<1>1. x \in ToSet(outer) /\ x[1] = "stmt" /\ x[2] = s
  OBVIOUS
<1>2. y \in ToSet(outer) /\ y[1] = "cte" /\ y[2] = s
  OBVIOUS
<1> HIDE DEF x, y
<1>3. tree[s].part = "cte" /\ s \notin ToSet(cte_names)
  BY <1>2 DEF Ahead
<1>4. tree[s].part = "cte" => s \in ToSet(cte_names)
  BY <1>1 DEF Ahead
<1> QED BY <1>3, <1>4

\* What the walk of a statement that is being entered adds.
LEMMA EnterAhead ==
  ASSUME TreeInv, NEW E \in SUBSET Statements, NEW outer \in Seq(WalkCalls), outer # <<>>,
         Ahead(E, outer), Found(E, outer), NEW s \in Statements, outer[1] = <<"stmt", s>>,
         NEW b, b = RawWalk(s) \o Tail(outer)
  PROVE  /\ b \in Seq(WalkCalls) /\ ToSet(b) = ToSet(RawWalk(s)) \cup ToSet(Tail(outer))
         /\ Ahead(E \cup {s}, b)
<1> DEFINE rest == Tail(outer)
<1> DEFINE raw == RawWalk(s)
<1> DEFINE x1 == <<"stmt", s>>
<1>1. /\ x1 \in ToSet(outer) /\ x1 \notin ToSet(rest) /\ rest \in Seq(WalkCalls)
      /\ ToSet(outer) = {x1} \cup ToSet(rest) /\ IsInjective(rest)
      /\ x1[1] = "stmt" /\ x1[2] = s
  <2>1. x1[1] = "stmt" /\ x1[2] = s
    OBVIOUS
  <2>2. outer[1] = x1
    OBVIOUS
  <2> HIDE DEF x1
  <2> QED BY <2>1, <2>2, NextCall
<1>2. raw \in Seq(WalkCalls) /\ IsInjective(raw) /\ \A x : x \in ToSet(raw) <=> InStmt(s, x)
  BY RawWalkIs
<1>3. s \notin E /\ Reachable(E, s) /\ (tree[s].part = "cte" => s \in ToSet(cte_names))
  BY <1>1 DEF Ahead
<1>4. <<"cte", s>> \notin ToSet(rest)
  BY <1>1, DueOnce
<1>5. s \in Nat /\ s >= 1 /\ \A c \in Statements : c \in Nat /\ tree[c].parent \in Nat
  BY NodeFields
<1>6. \A c \in Statements : tree[c].parent < c /\ (tree[c].parent = 0 <=> c = 1)
  BY DEF TreeInv
<1>7. \A c \in Statements : tree[c].parent = s => ~Reachable(E, c) /\ c \notin E /\ c # s
  <2> TAKE c \in Statements
  <2> HAVE tree[c].parent = s
  <2>1. c # 1 /\ c # s
    BY <1>5, <1>6
  <2>2. ~Reachable(E, c)
    BY <2>1, <1>3 DEF Reachable
  <2> QED BY <2>1, <2>2 DEF Ahead
<1> HIDE DEF x1, raw
<1>8. ASSUME NEW x \in ToSet(raw)
      PROVE  \/ x[1] \in {"target", "cond"} /\ x[2] = s
             \/ \E c \in Statements : \E p \in Parts :
                  IsChild(s, p, c) /\ x = ChildCall(p, c)
  <2>1. PICK p \in ToSet(PartsOf(tree[s].kind)) : InPart(s, p, x)
    BY <1>2 DEF InStmt
  <2>2. p \in Parts
    BY NodeFields, PartsOfKind DEF ToSet
  <2> QED BY <2>1, <2>2 DEF InPart
<1>9. ASSUME NEW x \in ToSet(rest)
      PROVE  /\ x[1] # "saved"
             /\ x[1] \in {"target", "cond"} => x[2] \in E
             /\ x[1] \in {"stmt", "cte"} => x[2] \notin E /\ Reachable(E, x[2]) /\ x[2] # s
             /\ x[1] = "cte" => tree[x[2]].part = "cte" /\ x[2] \notin ToSet(cte_names)
             /\ x[1] = "stmt" /\ tree[x[2]].part = "cte" => x[2] \in ToSet(cte_names)
             /\ x \in WalkCalls
  <2>1. x \in ToSet(outer) /\ x \in WalkCalls
    BY <1>1 DEF ToSet
  <2>2. x = <<x[1], x[2]>>
    BY <2>1 DEF WalkCalls
  <2>3. x[1] \in {"stmt", "cte"} => x[2] # s
    BY <2>2, <1>1, <1>4 DEF x1
  <2> QED BY <2>1, <2>3 DEF Ahead
<1>10. ToSet(raw) \cap ToSet(rest) = {}
  <2> SUFFICES ASSUME NEW x \in ToSet(raw), x \in ToSet(rest) PROVE FALSE
    OBVIOUS
  <2>1. CASE x[1] \in {"target", "cond"} /\ x[2] = s
    BY <2>1, <1>3, <1>9
  <2>2. ASSUME NEW c \in Statements, NEW p \in Parts, IsChild(s, p, c), x = ChildCall(p, c)
        PROVE  FALSE
    <3>1. x[1] \in {"cte", "stmt"} /\ x[2] = c
      BY <2>2, CallKinds
    <3> QED BY <3>1, <2>2, <1>7, <1>9 DEF IsChild
  <2> QED BY <2>1, <2>2, <1>8
<1>11. b \in Seq(WalkCalls) /\ IsInjective(b) /\ ToSet(b) = ToSet(raw) \cup ToSet(rest)
  <2> HIDE DEF rest
  <2>1. b = raw \o rest
    BY DEF raw, rest
  <2>2. raw \o rest \in Seq(WalkCalls)
    BY <1>1, <1>2, Concat
  <2>3. IsInjective(raw \o rest)
    BY <1>1, <1>2, <1>10, ConcatOnce
  <2>4. ToSet(raw \o rest) = ToSet(raw) \cup ToSet(rest)
    BY <1>1, <1>2, ConcatSet
  <2> QED BY <2>1, <2>2, <2>3, <2>4
<1> HIDE DEF rest
<1> DEFINE F == E \cup {s}
<1>12. \A c : Reachable(E, c) => Reachable(F, c)
  BY DEF Reachable
<1>13. ASSUME NEW x \in ToSet(b)
       PROVE  /\ x[1] # "saved"
              /\ x[1] \in {"target", "cond"} => x[2] \in F
              /\ x[1] \in {"stmt", "cte"} => x[2] \notin F /\ Reachable(F, x[2])
              /\ x[1] = "cte" => tree[x[2]].part = "cte" /\ x[2] \notin ToSet(cte_names)
              /\ x[1] = "stmt" /\ tree[x[2]].part = "cte" => x[2] \in ToSet(cte_names)
  <2>1. CASE x \in ToSet(rest)
    BY <2>1, <1>9, <1>12
  <2>2. CASE x[1] \in {"target", "cond"} /\ x[2] = s
    BY <2>2
  <2>3. ASSUME NEW c \in Statements, NEW p \in Parts, IsChild(s, p, c), x = ChildCall(p, c)
        PROVE  /\ x[1] \in {"stmt", "cte"} /\ x[2] \notin F /\ Reachable(F, x[2])
               /\ x[1] = "cte" => tree[x[2]].part = "cte" /\ x[2] \notin ToSet(cte_names)
               /\ x[1] = "stmt" /\ tree[x[2]].part = "cte" => x[2] \in ToSet(cte_names)
    <3>1. x[1] \in {"cte", "stmt"} /\ x[2] = c /\ (x[1] = "cte" <=> p = "cte")
      BY <2>3, CallKinds
    <3>2. tree[c].parent = s /\ tree[c].part = p
      BY <2>3 DEF IsChild
    <3>3. ~Reachable(E, c) /\ c \notin E /\ c # s
      BY <3>2, <1>7
    <3>4. Reachable(F, c)
      BY <3>2 DEF Reachable
    <3>5. c \notin ToSet(cte_names)
      BY <3>3 DEF Found
    <3>6. x[1] = "stmt" => tree[c].part # "cte"
      BY <3>1, <3>2
    <3> QED BY <3>1, <3>2, <3>3, <3>4, <3>5, <3>6
  <2> QED BY <2>1, <2>2, <2>3, <1>8, <1>11
<1>14. ASSUME NEW c \in Statements, Reachable(F, c) PROVE c \in F \/ Due(b, c)
  <2>1. CASE Reachable(E, c)
    <3>1. c \in E \/ <<"stmt", c>> \in ToSet(outer) \/ <<"cte", c>> \in ToSet(outer)
      BY <2>1 DEF Ahead, Due
    <3>2. <<"stmt", c>> = x1 => c = s
      BY DEF x1
    <3>3. <<"cte", c>> # x1
      BY DEF x1
    <3> QED BY <3>1, <3>2, <3>3, <1>1, <1>11 DEF Due
  <2>2. CASE ~Reachable(E, c)
    <3>1. c # 1 /\ tree[c].parent = s
      BY <2>2, <1>14 DEF Reachable
    <3> DEFINE p == tree[c].part
    <3>2. p \in ToSet(PartsOf(tree[s].kind))
      BY <3>1 DEF TreeInv
    <3>3. InPart(s, p, ChildCall(p, c))
      BY <3>1 DEF InPart, IsChild
    <3>4. ChildCall(p, c) \in ToSet(b)
      BY <3>2, <3>3, <1>2, <1>11 DEF InStmt
    <3> QED BY <3>4 DEF Due, ChildCall
  <2> QED BY <2>1, <2>2
<1>15. \A c \in F : Reachable(F, c)
  BY <1>3, <1>12 DEF Ahead
<1>16. Ahead(F, b)
  BY <1>11, <1>13, <1>14, <1>15 DEF Ahead
<1> QED BY <1>11, <1>16 DEF rest, raw

LEMMA EnterFound ==
  ASSUME TreeInv, NEW E \in SUBSET Statements, NEW outer \in Seq(WalkCalls), outer # <<>>,
         Ahead(E, outer), Found(E, outer), NEW s \in Statements, outer[1] = <<"stmt", s>>,
         NEW b, b = RawWalk(s) \o Tail(outer)
  PROVE  Found(E \cup {s}, b)
<1> DEFINE x1 == <<"stmt", s>>
<1>1. /\ x1 \in ToSet(outer) /\ ToSet(outer) = {x1} \cup ToSet(Tail(outer))
      /\ ToSet(b) = ToSet(RawWalk(s)) \cup ToSet(Tail(outer))
  <2>1. ToSet(b) = ToSet(RawWalk(s)) \cup ToSet(Tail(outer))
    BY EnterAhead
  <2>2. outer[1] = x1
    OBVIOUS
  <2> HIDE DEF x1
  <2> QED BY <2>1, <2>2, NextCall
<1>2. tree[s].part = "cte" => s \in ToSet(cte_names)
  BY <1>1 DEF Ahead
<1>3. ASSUME NEW t \in E, tree[t].cond # "none", tree[t].kind # "CopyStmt"
      PROVE  t \in ToSet(functions) \/ <<"cond", t>> \in ToSet(b)
  <2>1. t \in ToSet(functions) \/ <<"cond", t>> \in ToSet(outer)
    BY <1>3 DEF Found
  <2>2. <<"cond", t>> # x1
    OBVIOUS
  <2> HIDE DEF x1
  <2> QED BY <2>1, <2>2, <1>1
<1>4. ASSUME tree[s].cond # "none", tree[s].kind # "CopyStmt" PROVE <<"cond", s>> \in ToSet(b)
  <2>1. tree[s].kind \in WithCondition \ {"CopyStmt"} /\ tree[s].kind \in Kinds
    BY <1>4, NodeFields DEF TreeInv
  <2>2. "where" \in ToSet(PartsOf(tree[s].kind))
    BY <2>1, PartsOfKind
  <2>3. InPart(s, "where", <<"cond", s>>)
    BY <1>4 DEF InPart
  <2>4. InStmt(s, <<"cond", s>>)
    BY <2>2, <2>3 DEF InStmt
  <2>5. <<"cond", s>> \in ToSet(RawWalk(s))
    BY <2>4, RawWalkIs
  <2> QED BY <2>5, <1>1
<1>5. \A c \in ToSet(cte_names) : tree[c].part = "cte" /\ Reachable(E \cup {s}, c)
  BY DEF Found, Reachable
<1>6. \A t \in E \cup {s} : tree[t].part = "cte" => t \in ToSet(cte_names)
  BY <1>2 DEF Found
<1> HIDE DEF x1
<1> QED BY <1>3, <1>4, <1>5, <1>6 DEF Found

\* Its own relation is added to those to look up.
LEMMA EnterRelations ==
  ASSUME WalkType, TreeInv, NEW E \in SUBSET Statements, NEW inner, NEW outer, outer # <<>>,
         Relations(E, inner, outer), NEW s \in Statements, s \notin E,
         range_vars' = IF tree[s].kind \in WithRelation THEN Append(range_vars, s)
                       ELSE range_vars,
         tree' = tree, tables' = tables, aliases' = aliases, NEW a, NEW b
  PROVE  Relations(E \cup {s}, a, b)'
<1>1. tables = <<>> /\ aliases = <<>>
  BY DEF Relations
<1>2. \A i \in DOMAIN tables : FALSE
  BY <1>1
<1>3. /\ range_vars \in Seq(Statements) /\ IsInjective(range_vars)
      /\ \A t \in ToSet(range_vars) : t \in E /\ tree[t].kind \in WithRelation
      /\ \A t \in E : tree[t].kind \in WithRelation => t \in ToSet(range_vars) \/ Judged(t)
  BY DEF Relations, WalkType
<1>4. \A t : Judged(t)' <=> Judged(t)
  BY SameTree DEF Judged
<1>5. /\ IsInjective(range_vars')
      /\ ToSet(range_vars') = ToSet(range_vars)
                                 \cup IF tree[s].kind \in WithRelation THEN {s} ELSE {}
  <2>1. CASE tree[s].kind \in WithRelation
    <3>1. range_vars' = Append(range_vars, s) /\ s \notin ToSet(range_vars)
      BY <2>1, <1>3
    <3>2. IsInjective(Append(range_vars, s))
      BY <3>1, <1>3, OneMore
    <3>3. ToSet(Append(range_vars, s)) = ToSet(range_vars) \cup {s}
      BY <3>1, <1>3, OneMore
    <3> QED BY <2>1, <3>1, <3>2, <3>3
  <2>2. CASE tree[s].kind \notin WithRelation
    BY <2>2, <1>3
  <2> QED BY <2>1, <2>2
<1>6. \A t \in ToSet(range_vars') : t \in E \cup {s} /\ tree[t].kind \in WithRelation
  BY <1>3, <1>5
<1>7. \A t \in E \cup {s} :
        tree[t].kind \in WithRelation => t \in ToSet(range_vars') \/ Judged(t)
  BY <1>3, <1>5
<1> DEFINE R == range_vars'
<1>8. /\ IsInjective(R) /\ \A t \in ToSet(R) : t \in E \cup {s} /\ tree'[t].kind \in WithRelation
      /\ \A t \in E \cup {s} : tree'[t].kind \in WithRelation => t \in ToSet(R) \/ Judged(t)'
      /\ tables' = <<>> /\ aliases' = <<>>
      /\ \A i \in DOMAIN tables' : FALSE
  BY <1>1, <1>2, <1>4, <1>5, <1>6, <1>7
<1> QED BY <1>8 DEF Relations

\* The pass of a SELECT that is being entered.
LEMMA EnterPass ==
  ASSUME TreeInv, NEW E \in SUBSET Statements, Columns(E), NEW s \in Statements, s \notin E,
         tree[s].kind = "SelectStmt", save_filter_columns' = TRUE,
         filter_columns' = filter_columns, tree' = tree,
         NEW a, a = WhereClause(s) \o <<<<"saved", s>>>>
  PROVE  a \in Seq(WalkCalls) /\ Saving(E \cup {s}, a)'
<1> DEFINE w == WhereClause(s)
<1> DEFINE x == <<"saved", s>>
<1> DEFINE v == <<x>>
<1>1. /\ w \in Seq(WalkCalls) /\ IsInjective(w)
      /\ \A y : y \in ToSet(w) <=> InPart(s, "where", y)
  BY WhereClauseIs
<1>2. v \in Seq(WalkCalls) /\ Len(v) = 1 /\ v[1] = x
  BY OneCall DEF CallTypes
<1>3. a = w \o v
  OBVIOUS
<1> HIDE DEF v, w, x
<1>4. /\ a \in Seq(WalkCalls) /\ Len(a) = Len(w) + 1 /\ Len(w) \in Nat
      /\ DOMAIN w = 1 .. Len(w)
      /\ \A k \in 1 .. Len(w) : a[k] = w[k]
      /\ a[Len(w) + 1] = v[1]
  <2>1. /\ w \o v \in Seq(WalkCalls) /\ Len(w \o v) = Len(w) + Len(v) /\ DOMAIN w = 1 .. Len(w)
        /\ \A k \in 1 .. Len(w) : (w \o v)[k] = w[k]
        /\ \A k \in Len(w) + 1 .. Len(w) + Len(v) : (w \o v)[k] = v[k - Len(w)]
    <3>1. w \in Seq(WalkCalls) /\ v \in Seq(WalkCalls)
      BY <1>1, <1>2
    <3> QED BY <3>1, Concat
  <2>2. Len(w) \in Nat
    BY <1>1
  <2>3. Len(w) + 1 \in Len(w) + 1 .. Len(w) + Len(v) /\ Len(w) + 1 - Len(w) = 1
    BY <2>2, <1>2
  <2>4. (w \o v)[Len(w) + 1] = v[1]
    BY <2>1, <2>3
  <2> QED BY <2>1, <2>2, <2>4, <1>2, <1>3
<1>5. Len(a) - 1 = Len(w) /\ a # <<>> /\ a[Len(a)] = x
  BY <1>2, <1>4
<1>6. <<"cond", s>> \notin ToSet(filter_columns)
  <2> DEFINE y == <<"cond", s>>
  <2>1. y[2] = s
    OBVIOUS
  <2> HIDE DEF y
  <2>2. y \notin ToSet(filter_columns)
    BY <2>1 DEF Columns
  <2> QED BY <2>2 DEF y
<1>7. ASSUME NEW i \in 1 .. Len(w)
      PROVE  \/ a[i] = <<"cond", s>> /\ a[i] \notin ToSet(filter_columns)
             \/ a[i][1] = "stmt" /\ tree[a[i][2]].kind \in Queries
  <2>1. a[i] = w[i] /\ w[i] \in ToSet(w)
    BY <1>4 DEF ToSet
  <2>2. InPart(s, "where", w[i])
    BY <2>1, <1>1
  <2>3. CASE w[i] = <<"cond", s>>
    BY <2>1, <2>3, <1>6
  <2>4. ASSUME NEW c \in Statements, IsChild(s, "where", c), w[i] = ChildCall("where", c)
        PROVE  a[i][1] = "stmt" /\ tree[a[i][2]].kind \in Queries
    <3>1. a[i][1] = "stmt" /\ a[i][2] = c
      <4> DEFINE y == ChildCall("where", c)
      <4>1. y[1] = "stmt" /\ y[2] = c
        BY DEF ChildCall
      <4>2. a[i] = y
        BY <2>1, <2>4
      <4> HIDE DEF y
      <4> QED BY <4>1, <4>2
    <3>2. tree[c].part = "where"
      BY <2>4 DEF IsChild
    <3> QED BY <3>1, <3>2 DEF TreeInv
  <2> QED BY <2>2, <2>3, <2>4 DEF InPart
<1>8. \A i, j \in 1 .. Len(w) : a[i] = a[j] => i = j
  BY <1>1, <1>4 DEF IsInjective
<1> DEFINE F == E \cup {s}
<1>9. s \in F /\ a[Len(a)] = <<"saved", s>> /\ tree'[s].kind = "SelectStmt"
  BY <1>5 DEF x
<1>10. \A i \in 1 .. Len(a) - 1 :
           \/ a[i] = <<"cond", s>> /\ a[i] \notin ToSet(filter_columns')
           \/ a[i][1] = "stmt" /\ tree'[a[i][2]].kind \in Queries
  BY <1>5, <1>7
<1>11. \A i, j \in 1 .. Len(a) - 1 : a[i] = <<"cond", s>> /\ a[j] = <<"cond", s>> => i = j
  <2> TAKE i, j \in 1 .. Len(a) - 1
  <2>1. i \in 1 .. Len(w) /\ j \in 1 .. Len(w)
    BY <1>5
  <2> HAVE a[i] = <<"cond", s>> /\ a[j] = <<"cond", s>>
  <2>2. a[i] = a[j]
    OBVIOUS
  <2> QED BY <2>1, <2>2, <1>8
<1> HIDE DEF F
<1>12. Saving(F, a)'
  BY <1>5, <1>9, <1>10, <1>11 DEF Saving
<1> QED BY <1>4, <1>12 DEF F

\* Entering a statement as a whole.
LEMMA Enters ==
  ASSUME IInv, NEW E \in SUBSET Statements, NEW outer \in Seq(WalkCalls), outer # <<>>,
         Progress(E, <<>>, outer), todo = outer, NEW s \in Statements, outer[1] = <<"stmt", s>>,
         pc = "walk", VisitStmt
  PROVE  WalkInv'
<1> PICK F : F = E \cup {s}
  OBVIOUS
<1> PICK b : b = RawWalk(s) \o Tail(outer)
  OBVIOUS
<1>1. /\ Ahead(E, outer) /\ Columns(E) /\ Found(E, outer) /\ Relations(E, <<>>, outer)
      /\ TreeInv /\ WalkType /\ 1 \in Statements
      /\ ~save_filter_columns
  BY DEF Progress, IInv, WalkInv, Saving
<1>2. Call[2] = s
  BY DEF Call
<1>3. /\ tree' = tree /\ cte_names' = cte_names /\ functions' = functions
      /\ filter_columns' = filter_columns /\ tables' = tables /\ aliases' = aliases /\ pc' = pc
  BY DEF VisitStmt
<1>4. /\ range_vars' = IF tree[s].kind \in WithRelation THEN Append(range_vars, s)
                       ELSE range_vars
      /\ SavesColumns(s) =>
           /\ save_filter_columns' = TRUE
           /\ todo' = WhereClause(s) \o <<<<"saved", s>>>> \o RawWalk(s) \o Tail(todo)
      /\ ~SavesColumns(s) =>
           todo' = RawWalk(s) \o Tail(todo) /\ save_filter_columns' = save_filter_columns
  BY <1>1, <1>2 DEF VisitStmt, Stops
<1>5. b \in Seq(WalkCalls) /\ Ahead(F, b) /\ Found(F, b)
  BY <1>1, EnterAhead, EnterFound
<1>6. s \notin E
  <2> DEFINE x == <<"stmt", s>>
  <2>1. x[1] = "stmt" /\ x[2] = s /\ outer[1] = x
    OBVIOUS
  <2> HIDE DEF x
  <2>2. x \in ToSet(outer)
    BY <2>1, <1>1, NextCall
  <2> QED BY <2>1, <2>2, <1>1 DEF Ahead
<1>7. ASSUME NEW a PROVE Relations(F, a, b)'
  BY <1>1, <1>3, <1>4, <1>6, EnterRelations
<1>8. Ahead(F, b)' /\ Found(F, b)'
  BY <1>3, <1>5, SameTree DEF Ahead, Found, Due
<1>9. Columns(F)'
  BY <1>1, <1>3 DEF Columns
<1>10. F \in SUBSET Statements
  OBVIOUS
<1>11. CASE ~SavesColumns(s)
  <2> PICK a : a = <<>>
    OBVIOUS
  <2>1. a \in Seq(WalkCalls) /\ todo' = a \o b
    BY <1>4, <1>5, <1>11
  <2>2. Saving(F, a)'
    BY <1>1, <1>4, <1>11 DEF Saving
  <2>3. Progress(F, a, b)'
    BY <2>2, <1>7, <1>8, <1>9 DEF Progress
  <2> QED BY <2>1, <2>3, <1>1, <1>3, <1>5, <1>10, Onward
<1>12. CASE SavesColumns(s)
  <2> DEFINE w == WhereClause(s) \o <<<<"saved", s>>>>
  <2>1. PICK a : a = w
    OBVIOUS
  <2>2. a \in Seq(WalkCalls) /\ Saving(F, a)'
    BY <2>1, <1>1, <1>3, <1>4, <1>6, <1>12, EnterPass DEF SavesColumns
  <2>3. todo' = (a \o RawWalk(s)) \o Tail(outer)
    BY <2>1, <1>4, <1>12
  <2>4. RawWalk(s) \in Seq(WalkCalls) /\ Tail(outer) \in Seq(WalkCalls)
    BY <1>1, RawWalkIs, NextCall
  <2> HIDE DEF w
  <2>5. a \in Seq(WalkCalls)
    BY <2>2
  <2>6. \A t, u \in Seq(WalkCalls) : (a \o t) \o u = a \o (t \o u)
    BY <2>5, ConcatAssociative, SMTT(30)
  <2>7. (a \o RawWalk(s)) \o Tail(outer) = a \o (RawWalk(s) \o Tail(outer))
    BY <2>4, <2>6, Zenon
  <2>8. todo' = a \o b
    BY <2>3, <2>7
  <2>9. Progress(F, a, b)'
    BY <2>2, <1>7, <1>8, <1>9 DEF Progress
  <2> QED BY <2>2, <2>8, <2>9, <1>1, <1>3, <1>5, <1>10, Onward
<1> QED BY <1>11, <1>12

-----------------------------------------------------------------------------
(* The end of a pass.                                                        *)

\* In a pass the calls up to its end are of two kinds.
LEMMA PassCalls ==
  ASSUME NEW E \in SUBSET Statements, NEW inner \in Seq(WalkCalls), inner # <<>>,
         Saving(E, inner)
  PROVE  /\ save_filter_columns
         /\ inner[Len(inner)][1] = "saved"
         /\ \A i \in 1 .. Len(inner) - 1 :
              \/ inner[i][1] = "cond"
              \/ inner[i][1] = "stmt" /\ tree[inner[i][2]].kind \in Queries
<1>1. save_filter_columns
  BY DEF Saving
<1>2. PICK s \in E :
         /\ inner[Len(inner)] = <<"saved", s>>
         /\ \A i \in 1 .. Len(inner) - 1 :
              \/ inner[i] = <<"cond", s>>
              \/ inner[i][1] = "stmt" /\ tree[inner[i][2]].kind \in Queries
  BY DEF Saving
<1>3. <<"saved", s>>[1] = "saved" /\ <<"cond", s>>[1] = "cond"
  OBVIOUS
<1> QED BY <1>1, <1>2, <1>3

\* return true leaves what comes after the pass, beginning with its end.
LEMMA AbortLeaves ==
  ASSUME NEW E \in SUBSET Statements, NEW inner \in Seq(WalkCalls), inner # <<>>,
         NEW outer \in Seq(WalkCalls), Saving(E, inner), todo = inner \o outer,
         NEW a, a = <<inner[Len(inner)]>>
  PROVE  a \in Seq(WalkCalls) /\ Aborted = a \o outer
<1> DEFINE n == Len(inner)
<1>1. n \in Nat /\ n >= 1 /\ DOMAIN inner = 1 .. n
  BY InPass
<1>2. /\ todo \in Seq(WalkCalls) /\ Len(todo) = n + Len(outer) /\ Len(outer) \in Nat
      /\ DOMAIN todo = 1 .. n + Len(outer)
      /\ \A k \in 1 .. n : todo[k] = inner[k]
      /\ \A k \in n + 1 .. n + Len(outer) : todo[k] = outer[k - n]
  BY Concat
<1>3. inner[n] \in WalkCalls /\ inner[n][1] = "saved"
  BY <1>1, PassCalls
<1>4. \A i \in 1 .. n - 1 : inner[i][1] # "saved"
  BY PassCalls
<1> HIDE DEF n
<1> DEFINE At(i) == todo[i][1] = "saved" /\ \A j \in 1 .. i - 1 : todo[j][1] # "saved"
<1>5. n \in DOMAIN todo /\ At(n)
  <2>1. n \in 1 .. n /\ n \in 1 .. n + Len(outer) /\ \A j \in 1 .. n - 1 : j \in 1 .. n
    BY <1>1, <1>2
  <2>2. todo[n][1] = "saved"
    BY <2>1, <1>2, <1>3
  <2>3. \A j \in 1 .. n - 1 : todo[j][1] # "saved"
    BY <2>1, <1>2, <1>4
  <2> QED BY <2>1, <2>2, <2>3, <1>2
<1>6. ASSUME NEW i \in DOMAIN todo, At(i) PROVE i = n
  <2>1. i \in Nat /\ i >= 1
    BY <1>2
  <2>2. CASE i < n
    <3>1. i \in 1 .. n - 1 /\ i \in 1 .. n
      BY <2>1, <2>2, <1>1
    <3> QED BY <3>1, <1>2, <1>4, <1>6
  <2>3. CASE n < i
    <3>1. n \in 1 .. i - 1
      BY <2>1, <2>3, <1>1
    <3> QED BY <3>1, <1>5, <1>6
  <2> QED BY <2>1, <2>2, <2>3, <1>1
<1>7. Aborted = SubSeq(todo, n, Len(todo))
  <2>1. Aborted = SubSeq(todo, CHOOSE i \in DOMAIN todo : At(i), Len(todo))
    BY DEF Aborted
  <2> HIDE DEF At
  <2>2. (CHOOSE i \in DOMAIN todo : At(i)) = n
    BY <1>5, <1>6
  <2> QED BY <2>1, <2>2
<1> DEFINE u == SubSeq(todo, n, Len(todo))
<1> DEFINE v == a \o outer
<1> HIDE DEF At
<1>8. a \in Seq(WalkCalls) /\ Len(a) = 1 /\ a[1] = inner[n]
  BY <1>3 DEF n
<1>9. /\ u \in Seq(WalkCalls) /\ Len(u) = Len(outer) + 1
      /\ \A i \in 1 .. Len(outer) + 1 : u[i] = todo[n + i - 1]
  BY <1>1, <1>2
<1>10. /\ v \in Seq(WalkCalls) /\ Len(v) = 1 + Len(outer)
       /\ \A k \in 1 .. 1 : v[k] = a[k]
       /\ \A k \in 1 + 1 .. 1 + Len(outer) : v[k] = outer[k - 1]
  BY <1>8, Concat
<1> HIDE DEF u, v
<1>11. ASSUME NEW i \in 1 .. Len(u) PROVE u[i] = v[i]
  <2>1. i \in 1 .. Len(outer) + 1 /\ u[i] = todo[n + i - 1]
    BY <1>9
  <2>2. CASE i = 1
    <3>1. n + i - 1 = n /\ n \in 1 .. n /\ i \in 1 .. 1
      BY <2>2, <1>1
    <3> QED BY <3>1, <2>1, <2>2, <1>2, <1>8, <1>10
  <2>3. CASE i # 1
    <3>1. n + i - 1 \in n + 1 .. n + Len(outer) /\ n + i - 1 - n = i - 1
          /\ i \in 1 + 1 .. 1 + Len(outer)
      BY <2>1, <2>3, <1>1, <1>2
    <3>2. v[i] = outer[i - 1]
      BY <3>1, <1>10
    <3>3. todo[n + i - 1] = outer[n + i - 1 - n]
      BY <3>1, <1>1, <1>2
    <3> QED BY <3>1, <3>2, <3>3, <2>1
  <2> QED BY <2>2, <2>3
<1>12. u = v
  BY <1>2, <1>9, <1>10, <1>11, SeqEqual
<1> QED BY <1>7, <1>8, <1>12 DEF u, v

\* What a step of a pass leaves alone.
LEMMA SameAfterPass ==
  ASSUME NEW E \in SUBSET Statements, NEW inner, NEW outer, Progress(E, inner, outer),
         NEW a, inner # <<>>,
         tree' = tree, range_vars' = range_vars, cte_names' = cte_names,
         tables' = tables, aliases' = aliases
  PROVE  /\ Ahead(E, outer)' /\ Relations(E, a, outer)'
         /\ (functions' = functions => Found(E, outer)')
         /\ (filter_columns' = filter_columns => Columns(E)')
<1>1. Ahead(E, outer)'
  BY SameTree DEF Progress, Ahead, Due
<1>2. functions' = functions => Found(E, outer)'
  BY SameTree DEF Progress, Found
<1>3. filter_columns' = filter_columns => Columns(E)'
  BY DEF Progress, Columns
<1>4. \A s : Judged(s)' <=> Judged(s)
  BY SameTree DEF Judged
<1>5. Relations(E, a, outer)'
  BY <1>4, SameTree DEF Progress, Relations
<1> QED BY <1>1, <1>2, <1>3, <1>5

\* A SELECT met in a pass ends it.
LEMMA Aborts ==
  ASSUME IInv, NEW E \in SUBSET Statements, NEW inner \in Seq(WalkCalls),
         NEW outer \in Seq(WalkCalls), inner # <<>>, Progress(E, inner, outer),
         todo = inner \o outer, Walks("stmt"), VisitStmt
  PROVE  WalkInv'
<1>1. Saving(E, inner) /\ 1 \in Statements /\ pc = "walk"
  BY DEF Progress, IInv, WalkInv, Walks
<1>2. /\ todo[1] = inner[1] /\ Len(inner) \in Nat /\ Len(inner) >= 1
      /\ DOMAIN inner = 1 .. Len(inner)
  BY InPass
<1>3. inner[1][1] = "stmt" /\ Call = inner[1]
  BY <1>2 DEF Walks, Call
<1>4. Len(inner) # 1
  <2> SUFFICES ASSUME Len(inner) = 1 PROVE FALSE
    OBVIOUS
  <2>1. inner[1][1] = "saved"
    BY <1>1, PassCalls
  <2> QED BY <2>1, <1>3
<1>5. 1 \in 1 .. Len(inner) - 1
  BY <1>2, <1>4
<1>6. Stops(Call[2])
  BY <1>1, <1>3, <1>5, PassCalls DEF Stops
<1>7. todo' = Aborted /\ save_filter_columns' = save_filter_columns /\ range_vars' = range_vars
  BY <1>6 DEF VisitStmt
<1>8. /\ tree' = tree /\ cte_names' = cte_names /\ functions' = functions
      /\ filter_columns' = filter_columns /\ tables' = tables /\ aliases' = aliases /\ pc' = pc
  BY DEF VisitStmt
<1>9. PICK a : a = <<inner[Len(inner)]>>
  OBVIOUS
<1>10. a \in Seq(WalkCalls) /\ Aborted = a \o outer
  BY <1>1, <1>9, AbortLeaves
<1>11. Saving(E, a)'
  <2>1. PICK s \in E : inner[Len(inner)] = <<"saved", s>> /\ tree[s].kind = "SelectStmt"
    BY <1>1 DEF Saving
  <2>2. a # <<>> /\ Len(a) = 1 /\ a[1] = <<"saved", s>>
    BY <1>9, <2>1
  <2>3. \A i \in 1 .. Len(a) - 1 : FALSE
    BY <2>2
  <2>4. save_filter_columns'
    BY <1>1, <1>7, PassCalls
  <2> QED BY <2>1, <2>2, <2>3, <2>4, <1>8 DEF Saving
<1>12. Ahead(E, outer)' /\ Relations(E, a, outer)' /\ Found(E, outer)' /\ Columns(E)'
  <2>1. /\ tree' = tree /\ range_vars' = range_vars /\ cte_names' = cte_names
        /\ tables' = tables /\ aliases' = aliases /\ functions' = functions
        /\ filter_columns' = filter_columns
    BY <1>7, <1>8
  <2>2. Ahead(E, outer)'
    BY <2>1, SameAfterPass
  <2>3. Relations(E, a, outer)'
    BY <2>1, SameAfterPass
  <2>4. Found(E, outer)'
    BY <2>1, SameAfterPass
  <2>5. Columns(E)'
    BY <2>1, SameAfterPass
  <2> QED BY <2>2, <2>3, <2>4, <2>5
<1>13. Progress(E, a, outer)'
  BY <1>11, <1>12 DEF Progress
<1>14. pc' = "walk" /\ tree' = tree /\ todo' = a \o outer /\ a \in Seq(WalkCalls)
  BY <1>1, <1>7, <1>8, <1>10
<1> QED BY <1>1, <1>13, <1>14, Onward

\* The pass has come to its end.
LEMMA PassEnds ==
  ASSUME IInv, NEW E \in SUBSET Statements, NEW inner \in Seq(WalkCalls),
         NEW outer \in Seq(WalkCalls), inner # <<>>, Progress(E, inner, outer),
         todo = inner \o outer, WhereSaved
  PROVE  WalkInv'
<1>1. Saving(E, inner) /\ 1 \in Statements /\ pc = "walk"
  BY DEF Progress, IInv, WalkInv, WhereSaved, Saved, Walks
<1>2. /\ todo[1] = inner[1] /\ Len(inner) \in Nat /\ Len(inner) >= 1
      /\ Tail(todo) = Tail(inner) \o outer /\ Tail(inner) \in Seq(WalkCalls)
      /\ Len(Tail(inner)) = Len(inner) - 1
  BY InPass
<1>3. inner[1][1] = "saved"
  BY <1>2 DEF WhereSaved, Saved, Walks, Call
<1>4. Len(inner) = 1
  <2> SUFFICES ASSUME Len(inner) # 1 PROVE FALSE
    OBVIOUS
  <2>1. 1 \in 1 .. Len(inner) - 1
    BY <1>2
  <2> QED BY <2>1, <1>1, <1>3, PassCalls
<1>5. PICK a : a = Tail(inner)
  OBVIOUS
<1>6. a = <<>> /\ a \in Seq(WalkCalls)
  BY <1>2, <1>4, <1>5
<1>7. /\ todo' = a \o outer /\ save_filter_columns' = FALSE /\ range_vars' = range_vars
      /\ tree' = tree /\ cte_names' = cte_names /\ functions' = functions
      /\ filter_columns' = filter_columns /\ tables' = tables /\ aliases' = aliases /\ pc' = pc
  BY <1>2, <1>5 DEF WhereSaved, Saved
<1>8. Saving(E, a)'
  BY <1>6, <1>7 DEF Saving
<1>9. Ahead(E, outer)' /\ Relations(E, a, outer)' /\ Found(E, outer)' /\ Columns(E)'
  <2>1. Ahead(E, outer)'
    BY <1>7, SameAfterPass
  <2>2. Relations(E, a, outer)'
    BY <1>7, SameAfterPass
  <2>3. Found(E, outer)'
    BY <1>7, SameAfterPass
  <2>4. Columns(E)'
    BY <1>7, SameAfterPass
  <2> QED BY <2>1, <2>2, <2>3, <2>4
<1>10. Progress(E, a, outer)'
  BY <1>8, <1>9 DEF Progress
<1> QED BY <1>1, <1>6, <1>7, <1>10, Onward

LEMMA VisitStmtKeeps ==
  ASSUME IInv, VisitStmt
  PROVE  WalkInv'
<1>1. Walks("stmt") /\ pc = "walk" /\ todo # <<>> /\ WalkType /\ WalkInv
  BY DEF VisitStmt, Walks, IInv
<1>2. PICK E \in SUBSET Statements, inner, outer \in Seq(WalkCalls) :
        todo = inner \o outer /\ Progress(E, inner, outer)
  BY <1>1, Ongoing
<1>3. CASE inner # <<>>
  BY <1>1, <1>2, <1>3, Aborts
<1>4. CASE inner = <<>>
  <2>1. todo = outer /\ outer # <<>> /\ Progress(E, <<>>, outer)
    BY <1>1, <1>2, <1>4, NoPass
  <2>2. outer[1] \in WalkCalls
    BY <2>1, HeadTail
  <2>3. outer[1][1] = "stmt"
    BY <1>1, <2>1 DEF Walks, Call
  <2>4. PICK s \in Statements : outer[1] = <<"stmt", s>>
    BY <2>2, <2>3 DEF WalkCalls
  <2> QED BY <1>1, <2>1, <2>4, Enters
<1> QED BY <1>3, <1>4

\* A pass that has come to its end.
LEMMA WhereSavedKeeps ==
  ASSUME IInv, WhereSaved
  PROVE  WalkInv'
<1>1. Walks("saved") /\ pc = "walk" /\ todo # <<>> /\ WalkType /\ WalkInv
  BY DEF WhereSaved, Saved, Walks, IInv
<1>2. PICK E \in SUBSET Statements, inner, outer \in Seq(WalkCalls) :
        todo = inner \o outer /\ Progress(E, inner, outer)
  BY <1>1, Ongoing
<1>3. CASE inner # <<>>
  BY <1>2, <1>3, PassEnds
<1>4. CASE inner = <<>>
  <2>1. todo = outer /\ outer # <<>>
    BY <1>1, <1>2, <1>4, NoPass
  <2>2. outer[1] \in ToSet(outer) /\ outer[1][1] = "saved"
    BY <1>1, <1>2, <2>1, NextCall DEF Progress, Walks, Call
  <2> QED BY <1>2, <2>2 DEF Progress, Ahead
<1> QED BY <1>3, <1>4

-----------------------------------------------------------------------------
(* VisitCommonTableExpr and VisitColumnRef.                                  *)

LEMMA SameRelations ==
  ASSUME NEW E, NEW inner, NEW outer, inner # <<>> \/ outer # <<>>,
         Relations(E, inner, outer), NEW a, NEW b,
         tree' = tree, range_vars' = range_vars, tables' = tables, aliases' = aliases
  PROVE  Relations(E, a, b)'
<1>1. \A s : Judged(s)' <=> Judged(s)
  BY SameTree DEF Judged
<1> QED BY <1>1, SameTree DEF Relations

\* The name of a CTE is known from now on, and its query is due.
LEMMA NamesCte ==
  ASSUME WalkType, NEW E \in SUBSET Statements, NEW outer \in Seq(WalkCalls), outer # <<>>,
         Ahead(E, outer), Found(E, outer), NEW s \in Statements, outer[1] = <<"cte", s>>,
         cte_names' = Append(cte_names, s), tree' = tree, functions' = functions,
         NEW b, b = <<<<"stmt", s>>>> \o Tail(outer)
  PROVE  b \in Seq(WalkCalls) /\ Ahead(E, b)' /\ Found(E, b)'
<1> DEFINE rest == Tail(outer)
<1> DEFINE x == <<"cte", s>>
<1> DEFINE y == <<"stmt", s>>
<1> DEFINE h == <<y>>
<1>1. x[1] = "cte" /\ x[2] = s /\ y[1] = "stmt" /\ y[2] = s
  OBVIOUS
<1>2. h \in Seq(WalkCalls) /\ IsInjective(h) /\ ToSet(h) = {y}
  BY OneCall DEF CallTypes
<1>3. b = h \o rest
  OBVIOUS
<1>4. /\ x \in ToSet(outer) /\ x \notin ToSet(rest) /\ rest \in Seq(WalkCalls)
      /\ ToSet(outer) = {x} \cup ToSet(rest) /\ IsInjective(rest)
  <2>1. outer[1] = x
    OBVIOUS
  <2> HIDE DEF x, rest
  <2> QED BY <2>1, NextCall DEF rest
<1>5. y \notin ToSet(outer)
  BY <1>4, DueOnce
<1>6. \A t : <<"cond", t>> # x
  OBVIOUS
<1>7. \A t : (<<"stmt", t>> = x => FALSE) /\ (<<"cte", t>> = x => t = s)
  OBVIOUS
<1>8. \A z \in WalkCalls : z = <<z[1], z[2]>>
  BY DEF WalkCalls
<1>9. \A t : Due(b, t) <=> <<"stmt", t>> \in ToSet(b) \/ <<"cte", t>> \in ToSet(b)
  BY DEF Due
<1>10. \A t : Due(outer, t) <=> <<"stmt", t>> \in ToSet(outer) \/ <<"cte", t>> \in ToSet(outer)
  BY DEF Due
<1>11. s \notin E /\ Reachable(E, s) /\ tree[s].part = "cte" /\ s \notin ToSet(cte_names)
  <2> HIDE DEF x
  <2> QED BY <1>1, <1>4 DEF Ahead
<1> HIDE DEF rest, h
<1>12. b \in Seq(WalkCalls) /\ IsInjective(b) /\ ToSet(b) = {y} \cup ToSet(rest)
  <2>1. y \notin ToSet(rest)
    BY <1>4, <1>5
  <2> HIDE DEF y
  <2>2. ToSet(h) \cap ToSet(rest) = {}
    BY <1>2, <2>1
  <2>3. h \o rest \in Seq(WalkCalls)
    BY <1>2, <1>4, Concat
  <2>4. IsInjective(h \o rest)
    BY <1>2, <1>4, <2>2, ConcatOnce
  <2>5. ToSet(h \o rest) = ToSet(h) \cup ToSet(rest)
    BY <1>2, <1>4, ConcatSet
  <2> QED BY <1>2, <1>3, <2>3, <2>4, <2>5
<1>13. ToSet(cte_names') = ToSet(cte_names) \cup {s}
  BY OneMore DEF WalkType
<1>14. ASSUME NEW z \in ToSet(rest)
       PROVE  /\ z[1] # "saved"
              /\ z[1] \in {"target", "cond"} => z[2] \in E
              /\ z[1] \in {"stmt", "cte"} => z[2] \notin E /\ Reachable(E, z[2])
              /\ z[1] = "cte" => tree[z[2]].part = "cte" /\ z[2] \notin ToSet(cte_names')
              /\ z[1] = "stmt" /\ tree[z[2]].part = "cte" => z[2] \in ToSet(cte_names')
  <2>1. z \in ToSet(outer) /\ z # x /\ z \in WalkCalls
    <3> HIDE DEF x, y
    <3>1. z \in ToSet(outer) /\ z # x
      BY <1>4
    <3>2. z \in WalkCalls
      BY <1>4 DEF ToSet
    <3> QED BY <3>1, <3>2
  <2>2. z[1] = "cte" => z[2] # s
    BY <2>1, <1>8 DEF x
  <2> HIDE DEF x
  <2> QED BY <2>1, <2>2, <1>13 DEF Ahead
<1>15. ASSUME NEW z \in ToSet(b)
       PROVE  /\ z[1] # "saved"
              /\ z[1] \in {"target", "cond"} => z[2] \in E
              /\ z[1] \in {"stmt", "cte"} => z[2] \notin E /\ Reachable(E, z[2])
              /\ z[1] = "cte" => tree[z[2]].part = "cte" /\ z[2] \notin ToSet(cte_names')
              /\ z[1] = "stmt" /\ tree[z[2]].part = "cte" => z[2] \in ToSet(cte_names')
  <2> HIDE DEF y
  <2>1. CASE z = y
    BY <2>1, <1>1, <1>11, <1>13
  <2>2. CASE z \in ToSet(rest)
    BY <2>2, <1>14
  <2> QED BY <2>1, <2>2, <1>12
<1>16. ASSUME NEW c \in Statements, Reachable(E, c) PROVE c \in E \/ Due(b, c)
  <2>1. c \in E \/ <<"stmt", c>> \in ToSet(outer) \/ <<"cte", c>> \in ToSet(outer)
    BY <1>10, <1>16 DEF Ahead
  <2>2. CASE <<"stmt", c>> \in ToSet(outer)
    BY <2>2, <1>4, <1>7, <1>9, <1>12
  <2>3. CASE <<"cte", c>> \in ToSet(outer)
    BY <2>3, <1>4, <1>7, <1>9, <1>12
  <2> QED BY <2>1, <2>2, <2>3
<1> HIDE DEF x, y
<1>17. /\ IsInjective(b)
       /\ \A z \in ToSet(b) :
            /\ z[1] # "saved"
            /\ z[1] \in {"target", "cond"} => z[2] \in E
            /\ z[1] \in {"stmt", "cte"} => z[2] \notin E /\ Reachable(E, z[2])'
            /\ z[1] = "cte" => tree'[z[2]].part = "cte" /\ z[2] \notin ToSet(cte_names')
            /\ z[1] = "stmt" /\ tree'[z[2]].part = "cte" => z[2] \in ToSet(cte_names')
       /\ \A c \in Statements' : Reachable(E, c)' => c \in E \/ Due(b, c)
       /\ \A c \in E : Reachable(E, c)'
  BY <1>12, <1>15, <1>16, SameTree DEF Ahead
<1>18. Ahead(E, b)'
  BY <1>17 DEF Ahead, Due
<1>19. ASSUME NEW t \in E, tree[t].cond # "none", tree[t].kind # "CopyStmt"
       PROVE  t \in ToSet(functions) \/ <<"cond", t>> \in ToSet(b)
  <2>1. t \in ToSet(functions) \/ <<"cond", t>> \in ToSet(outer)
    BY <1>19 DEF Found
  <2> QED BY <2>1, <1>4, <1>6, <1>12
<1>20. /\ \A t \in ToSet(cte_names') : tree[t].part = "cte" /\ Reachable(E, t)
       /\ \A t \in E : tree[t].part = "cte" => t \in ToSet(cte_names')
  BY <1>11, <1>13 DEF Found
<1>21. Found(E, b)'
  BY <1>19, <1>20, SameTree DEF Found
<1> QED BY <1>12, <1>18, <1>21

LEMMA VisitCommonTableExprKeeps ==
  ASSUME IInv, VisitCommonTableExpr
  PROVE  WalkInv'
<1>1. Walks("cte") /\ pc = "walk" /\ todo # <<>> /\ WalkType /\ WalkInv /\ 1 \in Statements
  BY DEF VisitCommonTableExpr, Walks, IInv, WalkInv
<1>2. PICK E \in SUBSET Statements, inner, outer \in Seq(WalkCalls) :
        todo = inner \o outer /\ Progress(E, inner, outer)
  BY <1>1, Ongoing
<1>3. inner = <<>>
  <2> SUFFICES ASSUME inner # <<>> PROVE FALSE
    OBVIOUS
  <2>1. todo[1] = inner[1] /\ Len(inner) \in Nat /\ Len(inner) >= 1
    BY <1>2, InPass
  <2>2. inner[1][1] = "cte"
    BY <2>1, <1>1 DEF Walks, Call
  <2>3. Saving(E, inner)
    BY <1>2 DEF Progress
  <2>4. /\ inner[Len(inner)][1] = "saved"
        /\ \A i \in 1 .. Len(inner) - 1 : inner[i][1] \in {"cond", "stmt"}
    BY <2>3, PassCalls
  <2>5. 1 = Len(inner) \/ 1 \in 1 .. Len(inner) - 1
    <3>1. \A n \in Nat : n >= 1 => 1 = n \/ 1 \in 1 .. n - 1
      OBVIOUS
    <3> QED BY <2>1, <3>1
  <2>6. CASE 1 = Len(inner)
    BY <2>2, <2>4, <2>6
  <2>7. CASE 1 \in 1 .. Len(inner) - 1
    BY <2>2, <2>4, <2>7
  <2> QED BY <2>5, <2>6, <2>7
<1>4. todo = outer /\ outer # <<>>
  BY <1>1, <1>2, <1>3, NoPass
<1>5. outer[1] \in WalkCalls /\ outer[1][1] = "cte"
  BY <1>1, <1>4, HeadTail DEF Walks, Call
<1>6. PICK s \in Statements : outer[1] = <<"cte", s>>
  BY <1>5 DEF WalkCalls
<1>7. Call[2] = s
  BY <1>4, <1>6 DEF Call
<1> PICK b : b = <<<<"stmt", s>>>> \o Tail(outer)
  OBVIOUS
<1>8. /\ cte_names' = Append(cte_names, s) /\ todo' = b /\ tree' = tree /\ pc' = pc
      /\ save_filter_columns' = save_filter_columns /\ range_vars' = range_vars
      /\ functions' = functions /\ filter_columns' = filter_columns /\ tables' = tables
      /\ aliases' = aliases
  BY <1>4, <1>7 DEF VisitCommonTableExpr
<1>9. Saving(E, inner) /\ Ahead(E, outer) /\ Columns(E) /\ Found(E, outer)
      /\ Relations(E, inner, outer)
  BY <1>2 DEF Progress
<1>10. b \in Seq(WalkCalls) /\ Ahead(E, b)' /\ Found(E, b)'
  BY <1>1, <1>4, <1>6, <1>8, <1>9, NamesCte
<1>11. Saving(E, inner)'
  BY <1>3, <1>8, <1>9 DEF Saving
<1>12. Columns(E)'
  BY <1>8, <1>9 DEF Columns
<1>13. Relations(E, inner, b)'
  BY <1>4, <1>8, <1>9, SameRelations
<1>14. Progress(E, inner, b)'
  BY <1>10, <1>11, <1>12, <1>13 DEF Progress
<1>15. todo' = inner \o b
  BY <1>3, <1>8, <1>10
<1> QED BY <1>1, <1>8, <1>10, <1>14, <1>15, Onward

\* A column, or a condition, outside of a pass.
LEMMA ColumnAhead ==
  ASSUME WalkType, NEW E \in SUBSET Statements, NEW outer \in Seq(WalkCalls), outer # <<>>,
         Ahead(E, outer), Found(E, outer), NEW c \in {"target", "cond"}, NEW s \in Statements,
         outer[1] = <<c, s>>, tree' = tree, cte_names' = cte_names,
         functions' = IF c = "cond" THEN Append(functions, s) ELSE functions
  PROVE  Tail(outer) \in Seq(WalkCalls) /\ Ahead(E, Tail(outer))' /\ Found(E, Tail(outer))'
<1> DEFINE rest == Tail(outer)
<1> DEFINE x == <<c, s>>
<1>1. x[1] = c /\ x[2] = s
  OBVIOUS
<1>2. \A t : <<"stmt", t>> # x /\ <<"cte", t>> # x
  OBVIOUS
<1>3. \A t : <<"cond", t>> = x => t = s /\ c = "cond"
  OBVIOUS
<1>4. outer[1] = x
  OBVIOUS
<1> HIDE DEF x
<1>5. /\ rest \in Seq(WalkCalls) /\ IsInjective(rest) /\ ToSet(outer) = {x} \cup ToSet(rest)
  BY <1>4, NextCall
<1>6. ToSet(functions) \subseteq ToSet(functions') /\ (c = "cond" => s \in ToSet(functions'))
  BY OneMore DEF WalkType
<1> HIDE DEF rest
<1>7. /\ \A z \in ToSet(rest) :
           /\ z[1] # "saved"
           /\ z[1] \in {"target", "cond"} => z[2] \in E
           /\ z[1] \in {"stmt", "cte"} => z[2] \notin E /\ Reachable(E, z[2])
           /\ z[1] = "cte" => tree[z[2]].part = "cte" /\ z[2] \notin ToSet(cte_names)
           /\ z[1] = "stmt" /\ tree[z[2]].part = "cte" => z[2] \in ToSet(cte_names)
      /\ \A t \in E : Reachable(E, t)
  BY <1>5 DEF Ahead
<1>8. \A t \in Statements : Reachable(E, t) => t \in E \/ Due(rest, t)
  BY <1>2, <1>5 DEF Ahead, Due
<1>9. Ahead(E, rest)'
  BY <1>5, <1>7, <1>8, SameTree DEF Ahead, Due
<1>10. ASSUME NEW t \in E, tree[t].cond # "none", tree[t].kind # "CopyStmt"
       PROVE  t \in ToSet(functions') \/ <<"cond", t>> \in ToSet(rest)
  <2>1. t \in ToSet(functions) \/ <<"cond", t>> \in ToSet(outer)
    BY <1>10 DEF Found
  <2> QED BY <2>1, <1>3, <1>5, <1>6
<1>11. Found(E, rest)'
  BY <1>10, SameTree DEF Found
<1> QED BY <1>5, <1>9, <1>11 DEF rest

\* The condition of the SELECT whose WHERE clause is walked in a pass: it is recorded.
LEMMA ColumnInPass ==
  ASSUME WalkType, NEW E \in SUBSET Statements, NEW inner \in Seq(WalkCalls), inner # <<>>,
         Saving(E, inner), Columns(E), inner[1][1] \in {"target", "cond"}, tree' = tree,
         filter_columns' = Append(filter_columns, inner[1]),
         save_filter_columns' = save_filter_columns
  PROVE  Columns(E)' /\ Saving(E, Tail(inner))' /\ Tail(inner) # <<>>
<1> DEFINE n == Len(inner)
<1> DEFINE rest == Tail(inner)
<1>1. PICK s \in E :
         /\ inner[n] = <<"saved", s>> /\ tree[s].kind = "SelectStmt"
         /\ \A i \in 1 .. n - 1 :
              \/ inner[i] = <<"cond", s>> /\ inner[i] \notin ToSet(filter_columns)
              \/ inner[i][1] = "stmt" /\ tree[inner[i][2]].kind \in Queries
         /\ \A i, j \in 1 .. n - 1 :
              inner[i] = <<"cond", s>> /\ inner[j] = <<"cond", s>> => i = j
  BY DEF Saving
<1> DEFINE x == <<"cond", s>>
<1>2. /\ n \in Nat /\ n >= 1 /\ rest \in Seq(WalkCalls) /\ Len(rest) = n - 1
      /\ \A i \in 1 .. n - 1 : rest[i] = inner[i + 1]
  BY HeadTail
<1>3. save_filter_columns
  BY DEF Saving
<1>4. n # 1
  <2> SUFFICES ASSUME n = 1 PROVE FALSE
    OBVIOUS
  <2>1. inner[1][1] = "saved"
    BY <1>1
  <2> QED BY <2>1
<1>5. inner[1] = x /\ x \notin ToSet(filter_columns) /\ x[1] = "cond" /\ x[2] = s
  <2>1. 1 \in 1 .. n - 1
    BY <1>2, <1>4
  <2>2. inner[1][1] # "stmt"
    OBVIOUS
  <2>3. x[1] = "cond" /\ x[2] = s
    OBVIOUS
  <2> HIDE DEF n, x
  <2> QED BY <2>1, <2>2, <2>3, <1>1 DEF x
<1>6. /\ \A i \in 1 .. n - 1 :
           \/ inner[i] = x /\ inner[i] \notin ToSet(filter_columns)
           \/ inner[i][1] = "stmt" /\ tree[inner[i][2]].kind \in Queries
      /\ \A i, j \in 1 .. n - 1 : inner[i] = x /\ inner[j] = x => i = j
  BY <1>1
<1>7. x \in {"target", "cond"} \X Statements
  OBVIOUS
<1> HIDE DEF x, n, rest
<1>8. Columns(E)'
  <2>1. /\ ToSet(filter_columns') = ToSet(filter_columns) \cup {x}
        /\ IsInjective(filter_columns')
    <3>1. filter_columns \in Seq({"target", "cond"} \X Statements)
      BY DEF WalkType
    <3>2. IsInjective(filter_columns)
      BY DEF Columns
    <3>3. filter_columns' = Append(filter_columns, x)
      BY <1>5
    <3>4. ToSet(Append(filter_columns, x)) = ToSet(filter_columns) \cup {x}
      BY <1>7, <3>1, OneMore
    <3>5. IsInjective(Append(filter_columns, x))
      BY <1>5, <1>7, <3>1, <3>2, OneMore
    <3> QED BY <3>3, <3>4, <3>5
  <2>2. ASSUME NEW z \in ToSet(filter_columns')
        PROVE  z[1] = "cond" /\ z[2] \in E /\ tree[z[2]].kind = "SelectStmt"
    <3>1. CASE z = x
      BY <3>1, <1>1, <1>5
    <3>2. CASE z \in ToSet(filter_columns)
      BY <3>2 DEF Columns
    <3> QED BY <2>1, <3>1, <3>2
  <2> QED BY <2>1, <2>2 DEF Columns
<1>9. /\ rest # <<>> /\ Len(rest) = n - 1 /\ rest[Len(rest)] = inner[n]
  <2>1. n - 1 \in 1 .. n - 1 /\ n - 1 + 1 = n
    BY <1>2, <1>4
  <2>2. rest[n - 1] = inner[n]
    BY <2>1, <1>2
  <2> QED BY <2>1, <2>2, <1>2
<1>10. \A i \in 1 .. Len(rest) - 1 :
         rest[i][1] = "stmt" /\ tree[rest[i][2]].kind \in Queries /\ rest[i] # x
  <2> TAKE i \in 1 .. Len(rest) - 1
  <2>1. i \in 1 .. n - 1 /\ i + 1 \in 1 .. n - 1 /\ i + 1 # 1 /\ 1 \in 1 .. n - 1
    BY <1>2, <1>9, SMTT(30)
  <2>2. rest[i] = inner[i + 1]
    BY <2>1, <1>2
  <2>3. inner[i + 1] # x
    BY <2>1, <1>5, <1>6
  <2> QED BY <2>1, <2>2, <2>3, <1>6
<1>11. Saving(E, rest)'
  <2>1. /\ s \in E /\ rest[Len(rest)] = <<"saved", s>> /\ tree'[s].kind = "SelectStmt"
        /\ \A i \in 1 .. Len(rest) - 1 :
             rest[i][1] = "stmt" /\ tree'[rest[i][2]].kind \in Queries /\ rest[i] # <<"cond", s>>
    BY <1>1, <1>9, <1>10 DEF n, x
  <2>2. \A i \in 1 .. Len(rest) - 1 : rest[i] # <<"cond", s>>
    BY <2>1
  <2>3. \A i, j \in 1 .. Len(rest) - 1 :
          rest[i] = <<"cond", s>> /\ rest[j] = <<"cond", s>> => i = j
    BY <2>2
  <2> QED BY <2>1, <2>3, <1>3, <1>9 DEF Saving
<1> QED BY <1>8, <1>9, <1>11 DEF rest

LEMMA VisitColumnRefKeeps ==
  ASSUME IInv, VisitColumnRef
  PROVE  WalkInv'
<1>1. /\ pc = "walk" /\ todo # <<>> /\ WalkType /\ WalkInv /\ 1 \in Statements
      /\ Call[1] \in {"target", "cond"}
  BY DEF VisitColumnRef, Walks, IInv, WalkInv
<1>2. PICK E \in SUBSET Statements, inner, outer \in Seq(WalkCalls) :
        todo = inner \o outer /\ Progress(E, inner, outer)
  BY <1>1, Ongoing
<1>3. Saving(E, inner) /\ Ahead(E, outer) /\ Columns(E) /\ Found(E, outer)
      /\ Relations(E, inner, outer)
  BY <1>2 DEF Progress
<1>4. /\ functions' = IF Call[1] = "cond" THEN Append(functions, Call[2]) ELSE functions
      /\ filter_columns' = IF save_filter_columns THEN Append(filter_columns, Call)
                           ELSE filter_columns
      /\ todo' = Tail(todo) /\ tree' = tree /\ pc' = pc
      /\ save_filter_columns' = save_filter_columns /\ range_vars' = range_vars
      /\ cte_names' = cte_names /\ tables' = tables /\ aliases' = aliases
  BY DEF VisitColumnRef
<1>5. CASE inner = <<>>
  <2>1. todo = outer /\ outer # <<>>
    BY <1>1, <1>2, <1>5, NoPass
  <2>2. outer[1] \in WalkCalls /\ Call = outer[1]
    BY <2>1, HeadTail DEF Call
  <2>3. PICK c \in {"target", "cond"}, s \in Statements : outer[1] = <<c, s>>
    BY <1>1, <2>2 DEF WalkCalls
  <2>4. Call[1] = c /\ Call[2] = s
    BY <2>2, <2>3
  <2> PICK b : b = Tail(outer)
    OBVIOUS
  <2>5. b \in Seq(WalkCalls) /\ Ahead(E, b)' /\ Found(E, b)'
    BY <1>1, <1>3, <1>4, <2>1, <2>3, <2>4, ColumnAhead
  <2>6. filter_columns' = filter_columns
    BY <1>3, <1>4, <1>5 DEF Saving
  <2>7. Saving(E, inner)'
    BY <1>3, <1>4, <1>5 DEF Saving
  <2>8. Columns(E)'
    BY <1>3, <1>4, <2>6 DEF Columns
  <2>9. Relations(E, inner, b)'
    BY <1>3, <1>4, <2>1, SameRelations
  <2>10. Progress(E, inner, b)'
    BY <2>5, <2>7, <2>8, <2>9 DEF Progress
  <2>11. todo' = inner \o b
    BY <1>4, <1>5, <2>1, <2>5
  <2> QED BY <1>1, <1>4, <2>5, <2>10, <2>11, Onward
<1>6. CASE inner # <<>>
  <2>1. todo[1] = inner[1] /\ Tail(todo) = Tail(inner) \o outer
        /\ Tail(inner) \in Seq(WalkCalls)
    BY <1>2, <1>6, InPass
  <2>2. Call = inner[1] /\ inner[1] \in WalkCalls
    BY <2>1, <1>6, HeadTail DEF Call
  <2>3. inner[1][2] \in Statements /\ inner[1] = <<inner[1][1], inner[1][2]>>
    BY <2>2 DEF WalkCalls
  <2> PICK a : a = Tail(inner)
    OBVIOUS
  <2>4. filter_columns' = Append(filter_columns, inner[1])
    BY <1>3, <1>4, <1>6, <2>2 DEF Saving
  <2>5. Columns(E)' /\ Saving(E, a)' /\ a # <<>>
    BY <1>1, <1>3, <1>4, <1>6, <2>2, <2>4, ColumnInPass
  <2>6. Ahead(E, outer)'
    BY <1>2, <1>4, <1>6, SameAfterPass
  <2>7. Relations(E, a, outer)'
    BY <1>2, <1>4, <1>6, SameAfterPass
  <2>8. Found(E, outer)'
    <3>1. ToSet(functions) \subseteq ToSet(functions')
      BY <1>1, <1>4, <2>2, <2>3, OneMore DEF WalkType
    <3> QED BY <1>3, <1>4, <3>1, SameTree DEF Found
  <2>9. Progress(E, a, outer)'
    BY <2>5, <2>6, <2>7, <2>8 DEF Progress
  <2>10. todo' = a \o outer /\ a \in Seq(WalkCalls) /\ pc' = "walk"
    BY <1>1, <1>4, <2>1
  <2> QED BY <1>1, <1>4, <2>9, <2>10, Onward
<1> QED BY <1>5, <1>6

-----------------------------------------------------------------------------
(* The walk begins, and relations are looked up once it is over.             *)

LEMMA ParsedKeeps ==
  ASSUME IInv, Parsed
  PROVE  WalkInv'
<1>1. /\ TreeInv /\ pc = "parse" /\ tree # <<>> /\ pc' = "walk" /\ tree' = tree
      /\ todo' = <<<<"stmt", 1>>>>
      /\ save_filter_columns' = save_filter_columns /\ range_vars' = range_vars
      /\ cte_names' = cte_names /\ functions' = functions
      /\ filter_columns' = filter_columns /\ tables' = tables /\ aliases' = aliases
  BY DEF IInv, Parsed
<1>2. /\ ~save_filter_columns /\ tables = <<>> /\ range_vars = <<>> /\ cte_names = <<>>
      /\ functions = <<>> /\ filter_columns = <<>> /\ aliases = <<>>
  BY <1>1 DEF IInv, WalkInv
<1>3. 1 \in Statements
  BY <1>1 DEF TreeInv, Statements
<1> DEFINE x == <<"stmt", 1>>
<1> PICK a : a = <<>>
  OBVIOUS
<1> PICK b : b = <<x>>
  OBVIOUS
<1> PICK E : E = {}
  OBVIOUS
<1>4. b \in Seq(WalkCalls) /\ IsInjective(b) /\ ToSet(b) = {x}
  BY <1>3, OneCall DEF CallTypes
<1>5. a \in Seq(WalkCalls) /\ todo' = a \o b /\ E \in SUBSET Statements
  BY <1>1, <1>4
<1>6. x[1] = "stmt" /\ x[2] = 1 /\ tree[1].part # "cte"
  BY <1>1, <1>3 DEF TreeInv
<1>7. \A s \in Statements : Reachable(E, s) => s = 1
  BY DEF Reachable
<1>8. Reachable(E, 1)
  BY DEF Reachable
<1>9. <<"stmt", 1>> \in ToSet(b)
  BY <1>4
<1> HIDE DEF x
<1>10. Ahead(E, b)
  BY <1>4, <1>6, <1>7, <1>8, <1>9 DEF Ahead, Due
<1>11. \A s : s \notin ToSet(<<>>)
  BY DEF ToSet
<1>12. Ahead(E, b)'
  <2>1. ToSet(cte_names') = ToSet(cte_names)
    BY <1>1
  <2> QED BY <1>1, <1>10, <2>1, SameTree DEF Ahead, Due
<1>13. Found(E, b)'
  BY <1>1, <1>2, <1>11 DEF Found
<1>14. Columns(E)'
  BY <1>1, <1>2, <1>11 DEF Columns, IsInjective
<1>15. Saving(E, a)'
  BY <1>1, <1>2 DEF Saving
<1>16. Relations(E, a, b)'
  BY <1>1, <1>2, <1>11 DEF Relations, IsInjective
<1>17. Progress(E, a, b)'
  BY <1>12, <1>13, <1>14, <1>15, <1>16 DEF Progress
<1> QED BY <1>1, <1>3, <1>4, <1>5, <1>17, Onward

LEMMA LeastNat ==
  ASSUME NEW T \in SUBSET Nat, T # {}
  PROVE  \E m \in T : \A n \in T : m <= n
<1>1. PICK x \in T : \A y \in T : ~(<<y, x>> \in OpToRel(<, Nat))
  BY WFMin, NatLessThanWellFounded
<1>2. \A y \in T : ~(y < x)
  BY <1>1 DEF OpToRel
<1>3. x \in Nat /\ \A y \in T : y \in Nat
  OBVIOUS
<1>4. \A y \in T : x <= y
  BY <1>2, <1>3
<1> QED BY <1>4

\* When no call is left, every statement has been entered: the first one that was not would
\* be due, as its parent comes before it.
LEMMA AllEntered ==
  ASSUME TreeInv, NEW E \in SUBSET Statements, Ahead(E, <<>>)
  PROVE  E = Statements
<1> SUFFICES ASSUME Statements \ E # {} PROVE FALSE
  OBVIOUS
<1>1. Statements \ E \in SUBSET Nat
  BY NodeFields
<1>2. PICK m \in Statements \ E : \A n \in Statements \ E : m <= n
  BY <1>1, LeastNat
<1>3. /\ tree[m].parent < m /\ (tree[m].parent = 0 <=> m = 1) /\ tree[m].parent \in Nat
      /\ m \in Nat
  BY NodeFields DEF TreeInv
<1>4. Statements = 1 .. Len(tree) /\ Len(tree) \in Nat
  BY DEF TreeInv, Statements
<1>5. Reachable(E, m)
  <2>1. CASE m = 1
    BY <2>1 DEF Reachable
  <2>2. CASE m # 1
    <3>1. tree[m].parent \in Statements /\ ~(m <= tree[m].parent)
      BY <1>3, <1>4, <2>2
    <3> QED BY <3>1, <1>2 DEF Reachable
  <2> QED BY <2>1, <2>2
<1>6. ~Due(<<>>, m)
  BY NoCalls DEF Due
<1> QED BY <1>2, <1>5, <1>6 DEF Ahead

\* The names collected are then those of all CTEs.
LEMMA NamesKnown ==
  ASSUME WalkType, Found(Statements, <<>>)
  PROVE  {tree[c].cte : c \in ToSet(cte_names)} = CteNames
<1>1. ToSet(cte_names) \subseteq Statements
  BY DEF WalkType, ToSet
<1>2. ToSet(cte_names) = {d \in Statements : tree[d].part = "cte"}
  BY <1>1 DEF Found
<1> QED BY <1>2 DEF CteNames

LEMMA NothingAhead ==
  ASSUME NEW S, NEW inner \in Seq(S), NEW outer \in Seq(S)
  PROVE  inner \o outer = <<>> => inner = <<>> /\ outer = <<>>
<1>1. Len(inner \o outer) = Len(inner) + Len(outer)
  OBVIOUS
<1>2. HAVE inner \o outer = <<>>
<1>3. Len(inner) + Len(outer) = 0
  BY <1>1, <1>2
<1>4. Len(inner) = 0 /\ Len(outer) = 0
  BY <1>3
<1> QED BY <1>4

\* A relation is judged once.
LEMMA JudgesOne ==
  ASSUME WalkType, TreeInv, NEW E \in SUBSET Statements, Relations(E, <<>>, <<>>),
         range_vars # <<>>, NEW s, s = Head(range_vars), range_vars' = Tail(range_vars),
         tables' = IF tree[s].rel \in CteNames THEN tables
                   ELSE Append(tables, <<s, ContextOf(tree[s].kind)>>),
         aliases' = IF HasAlias(tree[s].kind) THEN Append(aliases, s) ELSE aliases,
         tree' = tree
  PROVE  Relations(E, <<>>, <<>>)'
<1>1. range_vars \in Seq(Statements) /\ aliases \in Seq(Statements)
      /\ tables \in Seq(Statements \X {"Select", "DML", "DDL"})
  BY DEF WalkType
<1>2. /\ ToSet(range_vars) = {s} \cup ToSet(range_vars') /\ IsInjective(range_vars')
      /\ s \notin ToSet(range_vars') /\ s \in Statements
  <2>1. IsInjective(range_vars)
    BY DEF Relations
  <2> QED BY <1>1, <2>1, HeadTail, HeadTailSet
<1>3. /\ \A t \in ToSet(range_vars) : t \in E /\ tree[t].kind \in WithRelation
      /\ \A t \in E : tree[t].kind \in WithRelation => t \in ToSet(range_vars) \/ Judged(t)
      /\ \A i \in DOMAIN tables :
           /\ tree[tables[i][1]].kind \in WithRelation /\ tree[tables[i][1]].rel \notin CteNames
           /\ tables[i][1] \notin ToSet(range_vars)
      /\ \A i, j \in DOMAIN tables : tables[i][1] = tables[j][1] => i = j
  BY DEF Relations
<1>4. ToSet(aliases') = ToSet(aliases) \cup IF HasAlias(tree[s].kind) THEN {s} ELSE {}
  <2>1. ToSet(Append(aliases, s)) = ToSet(aliases) \cup {s}
    BY <1>1, <1>2, OneMore
  <2> QED BY <2>1
<1> DEFINE x == <<s, ContextOf(tree[s].kind)>>
<1>5. x[1] = s /\ x \in Statements \X {"Select", "DML", "DDL"}
  BY <1>2 DEF ContextOf
<1> HIDE DEF x
<1>6. \/ tree[s].rel \in CteNames /\ tables' = tables
      \/ /\ tree[s].rel \notin CteNames
         /\ DOMAIN tables' = DOMAIN tables \cup {Len(tables) + 1}
         /\ Len(tables) + 1 \notin DOMAIN tables
         /\ \A i \in DOMAIN tables : tables'[i] = tables[i]
         /\ tables'[Len(tables) + 1][1] = s
  <2>1. CASE tree[s].rel \in CteNames
    BY <2>1
  <2>2. CASE tree[s].rel \notin CteNames
    <3>1. tables' = Append(tables, x)
      BY <2>2 DEF x
    <3>2. /\ DOMAIN tables = 1 .. Len(tables) /\ DOMAIN tables' = 1 .. Len(tables) + 1
          /\ Len(tables) \in Nat
          /\ \A i \in 1 .. Len(tables) : tables'[i] = tables[i]
          /\ tables'[Len(tables) + 1] = x
      BY <1>1, <1>5, <3>1, OneMore
    <3>3. /\ 1 .. Len(tables) + 1 = 1 .. Len(tables) \cup {Len(tables) + 1}
          /\ Len(tables) + 1 \notin 1 .. Len(tables)
      BY <3>2
    <3> QED BY <2>2, <1>5, <3>2, <3>3
  <2> QED BY <2>1, <2>2
<1> PICK n : n = Len(tables) + 1
  OBVIOUS
<1>7. DOMAIN tables \subseteq DOMAIN tables' /\ \A i \in DOMAIN tables : tables'[i] = tables[i]
  BY <1>6
<1>8. ASSUME NEW i \in DOMAIN tables'
      PROVE  \/ i \in DOMAIN tables /\ tables'[i] = tables[i]
             \/ i = n /\ n \notin DOMAIN tables /\ tables'[i][1] = s /\ tree[s].rel \notin CteNames
  BY <1>6
<1>9. ASSUME NEW i \in DOMAIN tables'
      PROVE  /\ tree[tables'[i][1]].kind \in WithRelation
             /\ tree[tables'[i][1]].rel \notin CteNames
             /\ tables'[i][1] \notin ToSet(range_vars')
  BY <1>2, <1>3, <1>8
<1>10. ASSUME NEW i \in DOMAIN tables', NEW j \in DOMAIN tables', tables'[i][1] = tables'[j][1]
       PROVE  i = j
  BY <1>2, <1>3, <1>8, <1>10
<1>11. \A t : Judged(t) => Judged(t)'
  <2> TAKE t
  <2> HAVE Judged(t)
  <2>1. tree[t].rel \in CteNames \/ \E i \in DOMAIN tables : tables[i][1] = t
    BY DEF Judged
  <2>2. tree[t].rel \in CteNames \/ \E i \in DOMAIN tables' : tables'[i][1] = t
    BY <2>1, <1>7
  <2>3. HasAlias(tree[t].kind) => t \in ToSet(aliases')
    BY <1>4 DEF Judged
  <2> QED BY <2>2, <2>3, SameTree DEF Judged, HasAlias
<1>12. Judged(s)'
  <2>1. tree[s].rel \in CteNames \/ \E i \in DOMAIN tables' : tables'[i][1] = s
    BY <1>6
  <2>2. HasAlias(tree[s].kind) => s \in ToSet(aliases')
    BY <1>4
  <2> QED BY <2>1, <2>2, SameTree DEF Judged, HasAlias
<1>13. \A t \in E : tree'[t].kind \in WithRelation => t \in ToSet(range_vars') \/ Judged(t)'
  BY <1>2, <1>3, <1>11, <1>12
<1>14. \A t \in ToSet(range_vars') : t \in E /\ tree'[t].kind \in WithRelation
  BY <1>2, <1>3
<1>15. /\ \A i \in DOMAIN tables' :
           /\ tree'[tables'[i][1]].kind \in WithRelation
           /\ tree'[tables'[i][1]].rel \notin CteNames'
           /\ tables'[i][1] \notin ToSet(range_vars')
       /\ \A i, j \in DOMAIN tables' : tables'[i][1] = tables'[j][1] => i = j
  BY <1>9, <1>10, SameTree
<1> QED BY <1>2, <1>13, <1>14, <1>15 DEF Relations

LEMMA HandleRangeVarKeeps ==
  ASSUME IInv, HandleRangeVar
  PROVE  WalkInv'
<1>1. /\ pc = "walk" /\ todo = <<>> /\ WalkType /\ TreeInv /\ WalkInv /\ 1 \in Statements
      /\ range_vars # <<>>
  BY DEF HandleRangeVar, LooksUp, IInv, WalkInv
<1>2. PICK E \in SUBSET Statements, inner, outer \in Seq(WalkCalls) :
        todo = inner \o outer /\ Progress(E, inner, outer)
  BY <1>1, Ongoing
<1>3. inner = <<>> /\ outer = <<>>
  BY <1>1, <1>2, NothingAhead
<1>4. Saving(E, <<>>) /\ Ahead(E, <<>>) /\ Columns(E) /\ Found(E, <<>>)
      /\ Relations(E, <<>>, <<>>)
  BY <1>2, <1>3 DEF Progress
<1>5. E = Statements
  BY <1>1, <1>4, AllEntered
<1>6. {tree[c].cte : c \in ToSet(cte_names)} = CteNames
  BY <1>1, <1>4, <1>5, NamesKnown
<1> PICK s : s = Head(range_vars)
  OBVIOUS
<1>7. /\ tables' = IF tree[s].rel \in CteNames THEN tables
                   ELSE Append(tables, <<s, ContextOf(tree[s].kind)>>)
      /\ aliases' = IF HasAlias(tree[s].kind) THEN Append(aliases, s) ELSE aliases
      /\ range_vars' = Tail(range_vars) /\ tree' = tree /\ todo' = todo /\ pc' = pc
      /\ save_filter_columns' = save_filter_columns /\ cte_names' = cte_names
      /\ functions' = functions /\ filter_columns' = filter_columns
  BY <1>6 DEF HandleRangeVar
<1>8. Relations(E, <<>>, <<>>)'
  BY <1>1, <1>4, <1>7, JudgesOne
<1> PICK e : e = <<>>
  OBVIOUS
<1>9. Saving(E, e)'
  BY <1>4, <1>7 DEF Saving
<1>10. Ahead(E, e)'
  BY <1>4, <1>7, SameTree DEF Ahead, Due
<1>11. Columns(E)'
  BY <1>4, <1>7 DEF Columns
<1>12. Found(E, e)'
  BY <1>4, <1>7, SameTree DEF Found
<1>13. Progress(E, e, e)'
  BY <1>8, <1>9, <1>10, <1>11, <1>12 DEF Progress
<1>14. e \in Seq(WalkCalls) /\ todo' = e \o e /\ pc' = "walk"
  BY <1>1, <1>7
<1> QED BY <1>1, <1>7, <1>13, <1>14, Onward

\* The walk is over, or does not go on.
LEMMA StandsStill ==
  ASSUME WalkInv, pc # "parse", pc' # "parse",
         pc' # "walk" => todo = <<>> /\ range_vars = <<>>,
         UNCHANGED <<tree, walk, tables, aliases>>
  PROVE  WalkInv'
<1>1. /\ todo \in Seq(WalkCalls) /\ 1 \in Statements
      /\ \E E \in SUBSET Statements, k \in 0 .. Len(todo) :
            \E inner \in {SubSeq(todo, 1, k)}, outer \in {SubSeq(todo, k + 1, Len(todo))} :
              Progress(E, inner, outer)
  BY DEF WalkInv
<1>2. PICK E \in SUBSET Statements, k \in 0 .. Len(todo) :
        \E inner \in {SubSeq(todo, 1, k)}, outer \in {SubSeq(todo, k + 1, Len(todo))} :
          Progress(E, inner, outer)
  BY <1>1
<1>3. PICK inner \in {SubSeq(todo, 1, k)}, outer \in {SubSeq(todo, k + 1, Len(todo))} :
        Progress(E, inner, outer)
  BY <1>2
<1>4. /\ tree' = tree /\ todo' = todo /\ save_filter_columns' = save_filter_columns
      /\ range_vars' = range_vars /\ cte_names' = cte_names /\ functions' = functions
      /\ filter_columns' = filter_columns /\ tables' = tables /\ aliases' = aliases
  BY DEF walk
<1>5. Saving(E, inner)'
  BY <1>3, <1>4 DEF Progress, Saving
<1>6. Ahead(E, outer)'
  BY <1>3, <1>4, SameTree DEF Progress, Ahead, Due
<1>7. Columns(E)'
  BY <1>3, <1>4 DEF Progress, Columns
<1>8. Found(E, outer)'
  BY <1>3, <1>4, SameTree DEF Progress, Found
<1>9. Relations(E, inner, outer)'
  <2>1. \A s : Judged(s)' <=> Judged(s)
    BY <1>4, SameTree DEF Judged
  <2> QED BY <1>3, <1>4, <2>1, SameTree DEF Progress, Relations
<1>10. Progress(E, inner, outer)'
  BY <1>5, <1>6, <1>7, <1>8, <1>9 DEF Progress
<1>11. /\ Statements' = Statements /\ todo' \in Seq(WalkCalls)' /\ k \in 0 .. Len(todo')
       /\ inner \in {SubSeq(todo', 1, k)} /\ outer \in {SubSeq(todo', k + 1, Len(todo'))}
  BY <1>1, <1>4, SameTree
<1>12. \E l \in 0 .. Len(todo') :
         \E i \in {SubSeq(todo', 1, l)}, o \in {SubSeq(todo', l + 1, Len(todo'))} :
           Progress(E, i, o)'
  BY <1>10, <1>11
<1> QED BY <1>1, <1>4, <1>11, <1>12, ZenonT(40) DEF WalkInv

\* The types of the lists that the walk makes.
LEMMA TypesKept ==
  ASSUME IInv, [Next]_vars, ~ParseNode
  PROVE  WalkType' /\ tree' = tree
<1>1. tree' = tree
  BY DEF Next, vars, Parsed, VisitStmt, WhereSaved, VisitCommonTableExpr, VisitColumnRef,
         HandleRangeVar, WalkEnds, Truncate, ApplyTruncation, TruncateHard
<1>2. Statements' = Statements
  BY <1>1, SameTree
<1>c. PICK C : C = {"target", "cond"} \X Statements
  OBVIOUS
<1>r. PICK R : R = Statements \X {"Select", "DML", "DDL"}
  OBVIOUS
<1>3. /\ save_filter_columns \in BOOLEAN
      /\ range_vars \in Seq(Statements) /\ cte_names \in Seq(Statements)
      /\ functions \in Seq(Statements) /\ filter_columns \in Seq(C)
      /\ tables \in Seq(R) /\ aliases \in Seq(Statements)
  BY <1>c, <1>r DEF IInv, WalkType
<1>4. ASSUME save_filter_columns' \in BOOLEAN,
             range_vars' \in Seq(Statements), cte_names' \in Seq(Statements),
             functions' \in Seq(Statements),
             filter_columns' \in Seq(C), tables' \in Seq(R),
             aliases' \in Seq(Statements)
      PROVE  WalkType'
  BY <1>2, <1>4, <1>c, <1>r DEF WalkType
<1>5. ASSUME save_filter_columns' = save_filter_columns, range_vars' = range_vars,
             cte_names' = cte_names, functions' = functions,
             filter_columns' = filter_columns, tables' = tables, aliases' = aliases
      PROVE  WalkType'
  BY <1>3, <1>4, <1>5
<1>6. ASSUME pc = "walk", todo # <<>>
      PROVE  /\ Call[2] \in Statements /\ Call = <<Call[1], Call[2]>>
             /\ Call[1] \in {"target", "cond"} => Call \in C
  <2>1. Call \in WalkCalls
    BY <1>6, HeadTail DEF IInv, WalkInv, Call
  <2> QED BY <2>1, <1>c DEF WalkCalls
<1>7. \A S : \A s \in Seq(S), e \in S : Append(s, e) \in Seq(S)
  OBVIOUS
<1>8. CASE VisitStmt
  <2>1. Call[2] \in Statements
    BY <1>6, <1>8 DEF VisitStmt, Walks
  <2>2. range_vars' = range_vars \/ range_vars' = Append(range_vars, Call[2])
    BY <1>8 DEF VisitStmt
  <2>3. range_vars' \in Seq(Statements)
    BY <1>3, <1>7, <2>1, <2>2
  <2>4. save_filter_columns' \in BOOLEAN
    BY <1>3, <1>8 DEF VisitStmt
  <2>5. /\ cte_names' = cte_names /\ functions' = functions
        /\ filter_columns' = filter_columns /\ tables' = tables
        /\ aliases' = aliases
    BY <1>8 DEF VisitStmt
  <2> QED BY <1>1, <1>3, <1>4, <2>3, <2>4, <2>5
<1>9. CASE WhereSaved
  <2>1. save_filter_columns' \in BOOLEAN
    BY <1>9 DEF WhereSaved, Saved
  <2>2. /\ range_vars' = range_vars /\ cte_names' = cte_names
        /\ functions' = functions /\ filter_columns' = filter_columns
        /\ tables' = tables /\ aliases' = aliases
    BY <1>9 DEF WhereSaved
  <2> QED BY <1>1, <1>3, <1>4, <2>1, <2>2
<1>10. CASE VisitCommonTableExpr
  <2>1. cte_names' = Append(cte_names, Call[2]) /\ Call[2] \in Statements
    BY <1>6, <1>10 DEF VisitCommonTableExpr, Walks
  <2>2. cte_names' \in Seq(Statements)
    BY <1>3, <1>7, <2>1
  <2>3. /\ save_filter_columns' = save_filter_columns
        /\ range_vars' = range_vars /\ functions' = functions
        /\ filter_columns' = filter_columns /\ tables' = tables
        /\ aliases' = aliases
    BY <1>10 DEF VisitCommonTableExpr
  <2> QED BY <1>1, <1>3, <1>4, <2>2, <2>3
<1>11. CASE VisitColumnRef
  <2>1. Call[2] \in Statements /\ Call \in C
    BY <1>6, <1>11 DEF VisitColumnRef, Walks
  <2>2. functions' = functions \/ functions' = Append(functions, Call[2])
    BY <1>11 DEF VisitColumnRef
  <2>3. filter_columns' = filter_columns \/ filter_columns' = Append(filter_columns, Call)
    BY <1>11 DEF VisitColumnRef
  <2>4. functions' \in Seq(Statements)
    BY <1>3, <1>7, <2>1, <2>2
  <2>5. filter_columns' \in Seq(C)
    BY <1>3, <1>7, <2>1, <2>3
  <2>6. /\ save_filter_columns' = save_filter_columns
        /\ range_vars' = range_vars /\ cte_names' = cte_names
        /\ tables' = tables /\ aliases' = aliases
    BY <1>11 DEF VisitColumnRef
  <2> QED BY <1>1, <1>3, <1>4, <2>4, <2>5, <2>6
<1>12. CASE HandleRangeVar
  <2> DEFINE s == Head(range_vars)
  <2>1. range_vars # <<>> /\ range_vars' = Tail(range_vars)
    BY <1>12 DEF HandleRangeVar
  <2>2. s \in Statements /\ range_vars' \in Seq(Statements)
    BY <1>3, <2>1, HeadTail
  <2> DEFINE x == <<s, ContextOf(tree[s].kind)>>
  <2>3. x \in R
    BY <2>2, <1>r DEF ContextOf
  <2>4. /\ tables' = tables \/ tables' = Append(tables, x)
        /\ aliases' = aliases \/ aliases' = Append(aliases, s)
    BY <1>12 DEF HandleRangeVar
  <2>5. /\ save_filter_columns' = save_filter_columns
        /\ cte_names' = cte_names /\ functions' = functions
        /\ filter_columns' = filter_columns
    BY <1>12 DEF HandleRangeVar
  <2> HIDE DEF x, s
  <2>6. tables' \in Seq(R)
    BY <1>3, <1>7, <2>3, <2>4
  <2>7. aliases' \in Seq(Statements)
    BY <1>3, <1>7, <2>2, <2>4
  <2> QED BY <1>1, <1>3, <1>4, <2>2, <2>5, <2>6, <2>7
<1>13. CASE Parsed \/ WalkEnds \/ Truncate \/ ApplyTruncation \/ TruncateHard \/ UNCHANGED vars
  <2>1. /\ save_filter_columns' = save_filter_columns
        /\ range_vars' = range_vars /\ cte_names' = cte_names
        /\ functions' = functions /\ filter_columns' = filter_columns
        /\ tables' = tables /\ aliases' = aliases
    BY <1>13 DEF Parsed, WalkEnds, Truncate, ApplyTruncation, TruncateHard, walk, vars
  <2> QED BY <1>1, <1>5, <2>1
<1> QED BY <1>1, <1>8, <1>9, <1>10, <1>11, <1>12, <1>13 DEF Next

-----------------------------------------------------------------------------
(* The parser keeps its trees in order.                                      *)

\* The statements of the tree in t, n being added to those in part p of its parent.
Extends(t, n, parent, p) ==
  \A s \in Statements :
    /\ t[s].kind = tree[s].kind /\ t[s].parent = tree[s].parent
    /\ t[s].part = tree[s].part /\ t[s].rel = tree[s].rel
    /\ t[s].cond = tree[s].cond
    /\ \A q \in Parts : t[s].children[q] =
         IF s = parent /\ q = p THEN Append(Children(s, q), n) ELSE Children(s, q)

\* The list of its parent that a new statement is added to.
LEMMA AboveIs ==
  ASSUME TreeInv, NEW parent \in Statements, NEW p \in Parts, NEW n \in 1 .. MaxStmts,
         NEW above, above = [tree EXCEPT ![parent].children[p] = Append(@, n)]
  PROVE  above \in Seq(NodeType) /\ Len(above) = Len(tree) /\ Extends(above, n, parent, p)
<1>1. tree \in Seq(NodeType) /\ Statements = 1 .. Len(tree) /\ Len(tree) \in Nat
  BY DEF TreeInv, Statements
<1>2. \A s \in Statements : tree[s] \in NodeType
  BY <1>1
<1> DEFINE old == tree[parent]
<1> DEFINE new == [old EXCEPT !.children[p] = Append(@, n)]
<1>3. above = [tree EXCEPT ![parent] = new]
  OBVIOUS
<1>4. old \in NodeType /\ old.children = [q \in Parts |-> Children(parent, q)]
  BY <1>2 DEF NodeType, Children
<1>5. /\ new.kind = old.kind /\ new.parent = old.parent /\ new.part = old.part
      /\ new.rel = old.rel /\ new.cond = old.cond
      /\ new.children = [old.children EXCEPT ![p] = Append(@, n)]
      /\ new \in NodeType
  <2> HIDE DEF old
  <2>1. /\ old \in [kind : Kinds, parent : 0 .. MaxStmts, part : Parts, rel : Names \cup {NoName},
                    cte : Names \cup {NoName}, cond : Conditions,
                    children : [Parts -> Seq(1 .. MaxStmts)]]
    BY <1>4 DEF NodeType
  <2>2. PICK x : x = [old.children EXCEPT ![p] = Append(@, n)]
    OBVIOUS
  <2>7. new = [old EXCEPT !.children = x]
    BY <2>2
  <2> HIDE DEF new
  <2>8. old = [kind |-> old.kind, parent |-> old.parent, part |-> old.part, rel |-> old.rel,
               cte |-> old.cte, cond |-> old.cond, children |-> old.children]
    BY <2>1
  <2>9. new = [kind |-> old.kind, parent |-> old.parent, part |-> old.part, rel |-> old.rel,
               cte |-> old.cte, cond |-> old.cond, children |-> x]
    BY <2>7, <2>8
  <2>10. /\ new.kind = old.kind /\ new.parent = old.parent /\ new.part = old.part
         /\ new.rel = old.rel /\ new.cond = old.cond /\ new.cte = old.cte
         /\ new.children = x
    BY <2>9
  <2>3. old.children[p] \in Seq(1 .. MaxStmts)
    BY <2>1
  <2>4. Append(old.children[p], n) \in Seq(1 .. MaxStmts)
    BY <2>3
  <2>5. x \in [Parts -> Seq(1 .. MaxStmts)]
    BY <2>1, <2>2, <2>4
  <2>6. new \in NodeType
    BY <2>1, <2>5, <2>9 DEF NodeType
  <2> QED BY <2>2, <2>6, <2>10
<1>6. \A q \in Parts : new.children[q] =
        IF q = p THEN Append(Children(parent, q), n) ELSE Children(parent, q)
  BY <1>4, <1>5
<1>7. \A s \in Statements \ {parent} : \A q \in Parts : tree[s].children[q] = Children(s, q)
  BY DEF Children
<1> HIDE DEF old, new
<1>8. above \in Seq(NodeType) /\ Len(above) = Len(tree)
  <2>1. above = [i \in 1 .. Len(tree) |-> IF i = parent THEN new ELSE tree[i]]
    BY <1>1, <1>3 DEF Statements
  <2>2. \A i \in 1 .. Len(tree) : (IF i = parent THEN new ELSE tree[i]) \in NodeType
    BY <1>1, <1>2, <1>5
  <2>3. above \in [1 .. Len(tree) -> NodeType]
    BY <2>1, <2>2
  <2>4. \A m \in Nat : \A u \in [1 .. m -> NodeType] : u \in Seq(NodeType) /\ Len(u) = m
    OBVIOUS
  <2> QED BY <1>1, <2>3, <2>4
<1>9. \A s \in Statements : above[s] = IF s = parent THEN new ELSE tree[s]
  BY <1>3 DEF Statements
<1> QED BY <1>5, <1>6, <1>7, <1>8, <1>9 DEF old, Extends

\* One more statement, after all others and last in its parent's list.
LEMMA TreeGrows ==
  ASSUME TreeInv, NEW n, n = Len(tree) + 1, NEW parent \in Statements, NEW p \in Parts,
         NEW kind, NEW rel, NEW cond,
         p = "where" => kind \in Queries, rel # NoName <=> kind \in WithRelation,
         cond # "none" => kind \in WithCondition,
         p \in ToSet(PartsOf(tree[parent].kind)),
         tree' \in Seq(NodeType), Len(tree') = n, n <= MaxStmts,
         Extends(tree', n, parent, p),
         tree'[n].kind = kind, tree'[n].parent = parent, tree'[n].part = p,
         tree'[n].rel = rel, tree'[n].cond = cond,
         \A q \in Parts : tree'[n].children[q] = <<>>
  PROVE  TreeInv'
<1>1. /\ Statements = 1 .. Len(tree) /\ Len(tree) \in Nat /\ Statements' = 1 .. n
      /\ Statements' = Statements \cup {n} /\ n \notin Statements /\ n # 1 /\ n \in Nat
      /\ parent < n /\ parent # 0 /\ parent # n /\ n \in Statements'
  <2>1. Statements = 1 .. Len(tree) /\ Len(tree) \in Nat /\ Statements' = 1 .. n
    BY DEF TreeInv, Statements
  <2>2. n \in Nat /\ 1 .. n = 1 .. Len(tree) \cup {n} /\ n \notin 1 .. Len(tree) /\ n >= 1
        /\ Len(tree) < n
    BY <2>1
  <2>3. parent \in 1 .. Len(tree)
    BY <2>1
  <2> QED BY <2>1, <2>2, <2>3
<1>2. ASSUME NEW s \in Statements'
      PROVE  /\ tree'[s].parent < s /\ (tree'[s].parent = 0 <=> s = 1)
             /\ s = 1 => tree'[s].part = "query"
             /\ s # 1 => tree'[s].part \in ToSet(PartsOf(tree'[tree'[s].parent].kind))
             /\ tree'[s].part = "where" => tree'[s].kind \in Queries
             /\ tree'[s].rel # NoName <=> tree'[s].kind \in WithRelation
             /\ tree'[s].cond # "none" => tree'[s].kind \in WithCondition
  <2>1. CASE s \in Statements
    <3>1. /\ tree[s].parent < s /\ (tree[s].parent = 0 <=> s = 1)
          /\ s = 1 => tree[s].part = "query"
          /\ s # 1 => tree[s].part \in ToSet(PartsOf(tree[tree[s].parent].kind))
          /\ tree[s].part = "where" => tree[s].kind \in Queries
          /\ tree[s].rel # NoName <=> tree[s].kind \in WithRelation
          /\ tree[s].cond # "none" => tree[s].kind \in WithCondition
      BY <2>1 DEF TreeInv
    <3>2. s # 1 => tree[s].parent \in Statements
      BY <2>1, <3>1, <1>1, NodeFields
    <3> QED BY <2>1, <3>1, <3>2 DEF Extends
  <2>2. CASE s = n
    BY <2>2, <1>1 DEF Extends
  <2> QED BY <2>1, <2>2, <1>1
<1> DEFINE Kids(s, q) == tree'[s].children[q]
<1> DEFINE Below(s, q) == {c \in Statements' : tree'[c].parent = s /\ tree'[c].part = q}
<1>3. ASSUME NEW s \in Statements', NEW q \in Parts
      PROVE  ToSet(Kids(s, q)) = Below(s, q) /\ IsInjective(Kids(s, q))
  <2>1. CASE s = n
    <3>1. Kids(s, q) = <<>>
      BY <2>1
    <3>2. \A c \in Statements' : tree'[c].parent # n
      <4> TAKE c \in Statements'
      <4>1. CASE c = n
        BY <4>1, <1>1
      <4>2. CASE c \in Statements
        <5>1. tree'[c].parent < c /\ c \in Nat /\ c < n
          BY <4>2, <1>1, <1>2
        <5>2. tree'[c].parent \in Nat
          BY <4>2, NodeFields DEF Extends
        <5> QED BY <5>1, <5>2, <1>1
      <4> QED BY <4>1, <4>2, <1>1
    <3> QED BY <2>1, <3>1, <3>2, NoCalls
  <2>2. CASE s \in Statements
    <3> DEFINE old == Children(s, q)
    <3>1. /\ old \in Seq(1 .. MaxStmts) /\ IsInjective(old)
          /\ ToSet(old) = {c \in Statements : tree[c].parent = s /\ tree[c].part = q}
      BY <2>2, NodeFields DEF TreeInv
    <3>2. \A c \in Statements : tree'[c].parent = tree[c].parent /\ tree'[c].part = tree[c].part
      BY DEF Extends
    <3>3. n \notin ToSet(old)
      BY <3>1, <1>1
    <3>4. Kids(s, q) = IF s = parent /\ q = p THEN Append(old, n) ELSE old
      BY <2>2 DEF Extends
    <3>5. n \in 1 .. MaxStmts
      BY <1>1
    <3> HIDE DEF old
    <3>6. CASE s = parent /\ q = p
      <4>1. ToSet(Append(old, n)) = ToSet(old) \cup {n} /\ IsInjective(Append(old, n))
        <5>1. old \in Seq(1 .. MaxStmts) /\ IsInjective(old)
          BY <3>1
        <5>2. ToSet(Append(old, n)) = ToSet(old) \cup {n}
          <6>1. PICK D : D = 1 .. MaxStmts
            OBVIOUS
          <6>2. old \in Seq(D) /\ n \in D
            BY <5>1, <3>5, <6>1
          <6> QED BY <6>2, OneMore
        <5>3. IsInjective(Append(old, n))
          BY <5>1, <3>3, <3>5, OneMore
        <5> QED BY <5>2, <5>3
      <4>2. Below(s, q) = ToSet(old) \cup {n}
        BY <1>1, <3>1, <3>2, <3>6
      <4> QED BY <3>4, <3>6, <4>1, <4>2
    <3>7. CASE ~(s = parent /\ q = p)
      <4>1. Below(s, q) = ToSet(old)
        BY <1>1, <3>1, <3>2, <3>7
      <4> QED BY <3>1, <3>4, <3>7, <4>1
    <3> QED BY <3>6, <3>7
  <2> QED BY <2>1, <2>2, <1>1
<1>4. TreeInv' =
        /\ tree' \in Seq(NodeType) /\ Len(tree') <= MaxStmts
        /\ \A s \in Statements' :
             /\ tree'[s].parent < s /\ (tree'[s].parent = 0 <=> s = 1)
             /\ s = 1 => tree'[s].part = "query"
             /\ s # 1 => tree'[s].part \in ToSet(PartsOf(tree'[tree'[s].parent].kind))
             /\ tree'[s].part = "where" => tree'[s].kind \in Queries
             /\ tree'[s].rel # NoName <=> tree'[s].kind \in WithRelation
             /\ tree'[s].cond # "none" => tree'[s].kind \in WithCondition
        /\ \A s \in Statements', q \in Parts :
             ToSet(Kids(s, q)) = Below(s, q) /\ IsInjective(Kids(s, q))
  BY DEF TreeInv, Children
<1> HIDE DEF Kids, Below
<1> QED BY <1>2, <1>3, <1>4

\* What FitsIn asks of a statement below another one.
LEMMA FitsBelow ==
  ASSUME TreeInv, NEW node, FitsIn(node), node.parent \in Statements
  PROVE  /\ node.part \in ToSet(PartsOf(tree[node.parent].kind))
         /\ node.part = "where" => node.kind \in Queries
<1>1. node.parent # 0
  BY NodeFields
<1>2. /\ node.part \in ToSet(PartsOf(tree[node.parent].kind))
      /\ node.kind \in Queries
           \cup IF node.part = "cte" \/ tree[node.parent].kind = "ExplainStmt" THEN Changes ELSE {}
  BY <1>1 DEF FitsIn
<1>3. ASSUME node.part = "where" PROVE tree[node.parent].kind # "ExplainStmt"
  <2>1. tree[node.parent].kind \in WithCondition
    BY <1>2, <1>3, NodeFields, PartsOfKind
  <2> QED BY <2>1 DEF WithCondition, WithRelation
<1> QED BY <1>2, <1>3

LEMMA ParseNodeKeeps ==
  ASSUME TreeInv, ParseNode
  PROVE  TreeInv'
<1> DEFINE Node(kind, p, cond, rel, cte, parent) ==
      [kind |-> kind, parent |-> parent, part |-> p, rel |-> rel,
       cte |-> cte, cond |-> cond, children |-> [q \in Parts |-> <<>>]]
<1>1. PICK kind \in Kinds, p \in Parts, cond \in Conditions, rel, cte \in Names \cup {NoName},
           parent \in IF tree = <<>> THEN {0} ELSE Statements :
        /\ FitsIn(Node(kind, p, cond, rel, cte, parent))
        /\ rel # NoName <=> kind \in WithRelation
        /\ cte # NoName <=> p = "cte"
        /\ kind \notin WithCondition => cond = "none"
        /\ tree' = Append(IF parent = 0 THEN tree
                          ELSE [tree EXCEPT ![parent].children[p] = Append(@, Len(tree) + 1)],
                          Node(kind, p, cond, rel, cte, parent))
  BY DEF ParseNode
<1>2. PICK node : node = Node(kind, p, cond, rel, cte, parent)
  OBVIOUS
<1>3. PICK n : n = Len(tree) + 1
  OBVIOUS
<1>4. /\ tree \in Seq(NodeType) /\ Len(tree) \in Nat /\ Len(tree) < MaxStmts
      /\ Statements = 1 .. Len(tree) /\ MaxStmts \in Nat
      /\ n \in 1 .. MaxStmts /\ n <= MaxStmts
  BY <1>3, SummaryAssumption DEF TreeInv, ParseNode, Statements
<1>5. parent \in 0 .. MaxStmts
  BY <1>1, <1>4
<1>6. node \in NodeType
  <2>1. [q \in Parts |-> <<>>] \in [Parts -> Seq(1 .. MaxStmts)]
    OBVIOUS
  <2> QED BY <2>1, <1>1, <1>2, <1>5 DEF NodeType
<1>7. /\ node.kind = kind /\ node.parent = parent /\ node.part = p /\ node.rel = rel
      /\ node.cond = cond /\ FitsIn(node)
      /\ \A q \in Parts : node.children[q] = <<>>
  BY <1>1, <1>2
<1> HIDE DEF Node
<1>8. CASE tree = <<>>
  <2>1. parent = 0 /\ tree' = <<node>>
    BY <1>1, <1>2, <1>8
  <2>2. p = "query"
    BY <1>7, <2>1 DEF FitsIn
  <2>3. /\ tree' \in Seq(NodeType) /\ Len(tree') <= MaxStmts
        /\ Statements' = {1} /\ tree'[1] = node
    BY <1>4, <1>6, <2>1 DEF Statements
  <2>4. \A q \in Parts :
          /\ Children(1, q)' = <<>>
          /\ {c \in Statements' : tree'[c].parent = 1 /\ tree'[c].part = q} = {}
    BY <1>7, <2>1, <2>3 DEF Children
  <2>5. cond # "none" => kind \in WithCondition
    BY <1>1
  <2>6. \A s \in Statements', q \in Parts :
          /\ ToSet(Children(s, q)') = {c \in Statements' : tree'[c].parent = s /\ tree'[c].part = q}
          /\ IsInjective(Children(s, q)')
    BY <2>3, <2>4, NoCalls
  <2>7. /\ tree'[1].parent = 0 /\ tree'[1].part = "query" /\ tree'[1].kind = kind
        /\ tree'[1].rel = rel /\ tree'[1].cond = cond
    BY <1>7, <2>1, <2>2, <2>3
  <2> QED BY <1>1, <2>3, <2>5, <2>6, <2>7 DEF TreeInv
<1>9. CASE tree # <<>>
  <2>1. parent \in Statements /\ parent # 0
    BY <1>1, <1>4, <1>9
  <2>2. PICK above : above = [tree EXCEPT ![parent].children[p] = Append(@, n)]
    OBVIOUS
  <2>3. above \in Seq(NodeType) /\ Len(above) = Len(tree) /\ Extends(above, n, parent, p)
    BY <1>1, <1>4, <2>1, <2>2, AboveIs
  <2>4. tree' = Append(above, node)
    BY <1>1, <1>2, <1>3, <2>1, <2>2
  <2>5. /\ tree' \in Seq(NodeType) /\ Len(tree') = n /\ tree'[n] = node
        /\ \A s \in Statements : tree'[s] = above[s]
    BY <1>3, <1>4, <1>6, <2>3, <2>4
  <2>6. Extends(tree', n, parent, p)
    BY <2>3, <2>5 DEF Extends
  <2>7. /\ p \in ToSet(PartsOf(tree[parent].kind)) /\ (p = "where" => kind \in Queries)
    BY <1>7, <2>1, FitsBelow
  <2>8. /\ tree'[n].kind = kind /\ tree'[n].parent = parent /\ tree'[n].part = p
        /\ tree'[n].rel = rel /\ tree'[n].cond = cond
        /\ \A q \in Parts : tree'[n].children[q] = <<>>
    BY <1>7, <2>5
  <2>9. (rel # NoName <=> kind \in WithRelation) /\ (cond # "none" => kind \in WithCondition)
    BY <1>1
  <2>10. n = Len(tree) + 1 /\ n <= MaxStmts
    BY <1>3, <1>4
  <2> QED BY <2>1, <2>5, <2>6, <2>7, <2>8, <2>9, <2>10, TreeGrows
<1> QED BY <1>8, <1>9

-----------------------------------------------------------------------------
LEMMA Initially == Init => IInv
<1> SUFFICES ASSUME Init PROVE IInv
  OBVIOUS
<1>1. tree = <<>> /\ DOMAIN tree = {} /\ Len(tree) = 0
  BY DEF Init
<1>2. TreeInv
  BY <1>1, SummaryAssumption DEF TreeInv, Statements
<1>3. WalkInv
  BY DEF Init, WalkInv
<1>4. WalkType
  <2>1. \A S : <<>> \in Seq(S)
    OBVIOUS
  <2> QED BY <2>1 DEF Init, WalkType
<1> QED BY <1>2, <1>3, <1>4 DEF IInv

LEMMA NextKeeps == IInv /\ [Next]_vars => IInv'
<1> SUFFICES ASSUME IInv, [Next]_vars PROVE IInv'
  OBVIOUS
<1>1. TreeInv /\ WalkInv /\ WalkType
  BY DEF IInv
<1>2. CASE ParseNode
  <2>1. TreeInv'
    BY <1>1, <1>2, ParseNodeKeeps
  <2>2. pc = "parse" /\ pc' = pc
    BY <1>2 DEF ParseNode
  <2>3. /\ todo' = todo /\ save_filter_columns' = save_filter_columns
        /\ range_vars' = range_vars /\ cte_names' = cte_names /\ functions' = functions
        /\ filter_columns' = filter_columns /\ tables' = tables /\ aliases' = aliases
    BY <1>2 DEF ParseNode, walk
  <2>4. WalkInv'
    BY <1>1, <2>2, <2>3 DEF WalkInv
  <2>5. WalkType'
    <3>1. \A S : <<>> \in Seq(S)
      OBVIOUS
    <3>2. /\ range_vars' = <<>> /\ cte_names' = <<>> /\ functions' = <<>>
          /\ filter_columns' = <<>> /\ tables' = <<>> /\ aliases' = <<>>
          /\ save_filter_columns' \in BOOLEAN
      BY <1>1, <2>2, <2>3 DEF WalkInv, WalkType
    <3> QED BY <3>1, <3>2 DEF WalkType
  <2> QED BY <2>1, <2>4, <2>5 DEF IInv
<1>3. CASE ~ParseNode
  <2>1. WalkType' /\ tree' = tree
    BY <1>3, TypesKept
  <2>2. TreeInv'
    BY <1>1, <2>1, SameTree DEF TreeInv, Children
  <2> SUFFICES WalkInv'
    BY <2>1, <2>2 DEF IInv
  <2>3. CASE VisitStmt
    BY <2>3, VisitStmtKeeps
  <2>4. CASE WhereSaved
    BY <2>4, WhereSavedKeeps
  <2>5. CASE VisitCommonTableExpr
    BY <2>5, VisitCommonTableExprKeeps
  <2>6. CASE VisitColumnRef
    BY <2>6, VisitColumnRefKeeps
  <2>7. CASE HandleRangeVar
    BY <2>7, HandleRangeVarKeeps
  <2>8. CASE Parsed
    BY <2>8, ParsedKeeps
  <2>9. CASE WalkEnds \/ Truncate \/ ApplyTruncation \/ TruncateHard
    <3>1. UNCHANGED <<tree, walk, tables, aliases>> /\ pc # "parse" /\ pc' # "parse"
      BY <2>9 DEF WalkEnds, Truncate, ApplyTruncation, TruncateHard
    <3>2. pc' # "walk" => todo = <<>> /\ range_vars = <<>>
      BY <1>1, <2>9 DEF WalkEnds, Truncate, ApplyTruncation, TruncateHard, WalkInv
    <3> QED BY <1>1, <3>1, <3>2, StandsStill
  <2>10. CASE UNCHANGED vars
    <3>1. UNCHANGED <<tree, walk, tables, aliases>> /\ pc' = pc
      BY <2>10 DEF vars
    <3>2. CASE pc = "parse"
      BY <1>1, <3>1, <3>2 DEF WalkInv, walk
    <3>3. CASE pc # "parse"
      <4>1. pc' # "parse" /\ (pc' # "walk" => todo = <<>> /\ range_vars = <<>>)
        BY <1>1, <3>1, <3>3 DEF WalkInv
      <4> QED BY <1>1, <3>1, <3>3, <4>1, StandsStill
    <3> QED BY <3>2, <3>3
  <2> QED BY <1>3, <2>3, <2>4, <2>5, <2>6, <2>7, <2>8, <2>9, <2>10 DEF Next
<1> QED BY <1>2, <1>3

\* The calls still to make are those of a pass and those after it, and what they leave
\* is known.
THEOREM WalkInvariance == Spec => []IInv
<1>1. Init => IInv
  BY Initially
<1>2. IInv /\ [Next]_vars => IInv'
  BY NextKeeps
<1> QED BY <1>1, <1>2, PTL DEF Spec

-----------------------------------------------------------------------------
(* What the run checks.                                                      *)

\* A filter column is one in the WHERE clause of a SELECT, at most once.
THEOREM FiltersRealTheorem == Spec => []FiltersReal
<1>1. ASSUME IInv PROVE FiltersReal
  <2> DEFINE f == filter_columns
  <2>1. f \in Seq({"target", "cond"} \X Statements)
    BY <1>1 DEF IInv, WalkType
  <2>2. DOMAIN f = 1 .. Len(f) /\ Len(f) \in Nat
    BY <2>1
  <2>3. /\ IsInjective(f)
        /\ \A x \in ToSet(f) : x[1] = "cond" /\ tree[x[2]].kind = "SelectStmt"
    <3>1. CASE pc = "parse"
      <4>1. f = <<>>
        BY <1>1, <3>1 DEF IInv, WalkInv
      <4> QED BY <4>1, NoCalls
    <3>2. CASE pc # "parse"
      <4>1. WalkInv
        BY <1>1 DEF IInv
      <4>2. PICK E \in SUBSET Statements, inner, outer \in Seq(WalkCalls) :
              todo = inner \o outer /\ Progress(E, inner, outer)
        BY <3>2, <4>1, Ongoing
      <4> QED BY <4>2 DEF Progress, Columns
    <3> QED BY <3>1, <3>2
  <2> HIDE DEF f
  <2>4. f \in Bijection(1 .. Len(f), ToSet(f))
    <3>1. f \in [1 .. Len(f) -> ToSet(f)]
      BY <2>1, <2>2 DEF ToSet
    <3>2. \A x \in ToSet(f) : \E i \in 1 .. Len(f) : f[i] = x
      BY <2>2 DEF ToSet
    <3>3. IsInjective(f)
      BY <2>3
    <3> QED BY <3>1, <3>2, <3>3 DEF Bijection, Injection, Surjection
  <2>5. Cardinality(ToSet(f)) = Len(f)
    BY <2>2, <2>4, FS_CountingElements DEF ExistsBijection
  <2>6. \A i \in DOMAIN f : f[i] \in ToSet(f)
    BY DEF ToSet
  <2> QED BY <2>3, <2>5, <2>6 DEF FiltersReal, f
<1> QED BY <1>1, WalkInvariance, PTL

\* The name of a CTE is never reported as a table.
THEOREM CtesHiddenTheorem == Spec => []CtesHidden
<1>1. ASSUME IInv PROVE CtesHidden
  <2>1. CASE pc = "parse"
    <3>1. tables = <<>>
      BY <1>1, <2>1 DEF IInv, WalkInv
    <3> QED BY <3>1 DEF CtesHidden
  <2>2. CASE pc # "parse"
    <3>1. WalkInv
      BY <1>1 DEF IInv
    <3>2. PICK E \in SUBSET Statements, inner, outer \in Seq(WalkCalls) :
            todo = inner \o outer /\ Progress(E, inner, outer)
      BY <2>2, <3>1, Ongoing
    <3> QED BY <3>2 DEF Progress, Relations, CtesHidden
  <2> QED BY <2>1, <2>2
<1> QED BY <1>1, WalkInvariance, PTL

\* In the end every statement has been entered, and what it has is known.
THEOREM EverythingFoundOnceTheorem == Spec => []EverythingFoundOnce
<1>1. ASSUME IInv, Walked PROVE EverythingFoundOnce
  <2>1. /\ WalkInv /\ WalkType /\ TreeInv /\ pc # "parse" /\ pc # "walk"
    BY <1>1 DEF IInv, Walked
  <2>2. todo = <<>> /\ range_vars = <<>>
    BY <2>1 DEF WalkInv
  <2>3. PICK E \in SUBSET Statements, inner, outer \in Seq(WalkCalls) :
          todo = inner \o outer /\ Progress(E, inner, outer)
    BY <2>1, Ongoing
  <2>4. inner = <<>> /\ outer = <<>>
    BY <2>2, <2>3, NothingAhead
  <2>5. Ahead(E, <<>>) /\ Found(E, <<>>) /\ Relations(E, <<>>, <<>>)
    BY <2>3, <2>4 DEF Progress
  <2>6. E = Statements
    BY <2>1, <2>5, AllEntered
  <2>7. \A x : x \notin ToSet(range_vars) /\ x \notin ToSet(<<>>)
    BY <2>2, NoCalls
  <2>8. \A s \in Statements : tree[s].kind \in WithRelation => Judged(s)
    BY <2>5, <2>6, <2>7 DEF Relations
  <2>9. \A i \in DOMAIN tables :
          tree[tables[i][1]].kind \in WithRelation /\ tree[tables[i][1]].rel \notin CteNames
    BY <2>5 DEF Relations
  <2>10. \A i, j \in DOMAIN tables : tables[i][1] = tables[j][1] => i = j
    BY <2>5 DEF Relations
  <2>11. ASSUME NEW s \in Statements
         PROVE  Cardinality({i \in DOMAIN tables : tables[i][1] = s})
                  = IF tree[s].rel \in CteNames \cup {NoName} THEN 0 ELSE 1
    <3>1. tree[s].rel # NoName <=> tree[s].kind \in WithRelation
      BY <2>1 DEF TreeInv
    <3>2. CASE tree[s].rel \in CteNames \cup {NoName}
      <4>1. {i \in DOMAIN tables : tables[i][1] = s} = {}
        BY <2>9, <3>1, <3>2
      <4> QED BY <3>2, <4>1, FS_EmptySet
    <3>3. CASE tree[s].rel \notin CteNames \cup {NoName}
      <4>1. PICK i \in DOMAIN tables : tables[i][1] = s
        BY <2>8, <3>1, <3>3 DEF Judged
      <4>2. {j \in DOMAIN tables : tables[j][1] = s} = {i}
        BY <2>10, <4>1
      <4> QED BY <3>3, <4>2, FS_Singleton
    <3> QED BY <3>2, <3>3
  <2>12. \A s \in Statements : tree[s].part = "cte" <=> s \in ToSet(cte_names)
    BY <2>5, <2>6 DEF Found
  <2>13. \A s \in Statements : HasAlias(tree[s].kind) => s \in ToSet(aliases)
    BY <2>8 DEF Judged, HasAlias
  <2>14. \A s \in Statements :
           tree[s].cond # "none" /\ tree[s].kind # "CopyStmt" => s \in ToSet(functions)
    BY <2>5, <2>6, <2>7 DEF Found
  <2> QED BY <2>11, <2>12, <2>13, <2>14 DEF EverythingFoundOnce
<1>2. IInv => EverythingFoundOnce
  BY <1>1 DEF EverythingFoundOnce
<1> QED BY <1>2, WalkInvariance, PTL

\* What the first m of some sequences make, for each m.
Sums(W, s, m, f) ==
  /\ f \in [0 .. m -> Seq(W)] /\ f[0] = <<>>
  /\ \A i \in 1 .. m : f[i] = f[i - 1] \o s[i]

LEMMA SumsExist ==
  ASSUME NEW W, NEW s \in Seq(Seq(W))
  PROVE  \A m \in 0 .. Len(s) : \E f : Sums(W, s, m, f)
<1>0. Len(s) \in Nat /\ \A i \in 1 .. Len(s) : s[i] \in Seq(W)
  OBVIOUS
<1> DEFINE T == {m \in 0 .. Len(s) : ~ \E f : Sums(W, s, m, f)}
<1>1. SUFFICES ASSUME T # {} PROVE FALSE
  OBVIOUS
<1>2. T \in SUBSET Nat
  OBVIOUS
<1>3. PICK m \in T : \A n \in T : m <= n
  BY <1>1, <1>2, LeastNat
<1>4. m # 0
  <2>1. Sums(W, s, 0, [i \in 0 .. 0 |-> <<>>])
    <3> DEFINE f == [i \in 0 .. 0 |-> <<>>]
    <3>1. f \in [0 .. 0 -> Seq(W)] /\ f[0] = <<>>
      OBVIOUS
    <3>2. 1 .. 0 = {}
      OBVIOUS
    <3> QED BY <3>1, <3>2 DEF Sums
  <2> QED BY <2>1
<1>5. m \in 1 .. Len(s) /\ m - 1 \in 0 .. Len(s) /\ ~(m <= m - 1)
  BY <1>0, <1>4
<1>6. PICK f : Sums(W, s, m - 1, f)
  BY <1>3, <1>5
<1> DEFINE g == [i \in 0 .. m |-> IF i = m THEN f[m - 1] \o s[m] ELSE f[i]]
<1>7. f[m - 1] \o s[m] \in Seq(W)
  <2>1. f[m - 1] \in Seq(W) /\ s[m] \in Seq(W)
    BY <1>0, <1>5, <1>6 DEF Sums
  <2> QED BY <2>1
<1>8. g \in [0 .. m -> Seq(W)]
  <2>1. \A i \in 0 .. m : i # m => f[i] \in Seq(W)
    BY <1>5, <1>6 DEF Sums
  <2> QED BY <2>1, <1>7
<1>9. g[0] = <<>>
  BY <1>5, <1>6 DEF Sums
<1>10. ASSUME NEW i \in 1 .. m PROVE g[i] = g[i - 1] \o s[i]
  <2>1. i \in 0 .. m /\ i - 1 \in 0 .. m /\ i - 1 # m
    BY <1>5
  <2>2. CASE i = m
    BY <2>1, <2>2
  <2>3. CASE i # m
    <3>1. i \in 1 .. m - 1
      BY <1>5, <2>3
    <3> QED BY <2>1, <2>3, <3>1, <1>6 DEF Sums
  <2> QED BY <2>2, <2>3
<1>11. Sums(W, s, m, g)
  <2> HIDE DEF g
  <2> QED BY <1>8, <1>9, <1>10 DEF Sums
<1> QED BY <1>3, <1>11

\* FlattenSeq is the last of these.
LEMMA Flattened ==
  ASSUME NEW W, NEW s \in Seq(Seq(W))
  PROVE  \E f : Sums(W, s, Len(s), f) /\ f[Len(s)] = FlattenSeq(s)
<1>0. Len(s) \in Nat /\ \A i \in 1 .. Len(s) : s[i] \in Seq(W)
  OBVIOUS
<1>1. PICK f : Sums(W, s, Len(s), f)
  <2>1. Len(s) \in 0 .. Len(s)
    BY <1>0
  <2> QED BY <2>1, SumsExist
<1>2. CASE Len(s) = 0
  <2>1. s = <<>>
    BY <1>2
  <2>2. FlattenSeq(s) = <<>>
    BY <1>2, <2>1 DEF FlattenSeq
  <2> QED BY <1>1, <1>2, <2>2 DEF Sums
<1>3. CASE Len(s) # 0
  <2> DEFINE fl == CHOOSE g : g = [i \in 1 .. Len(s) |-> IF i = 1 THEN s[i] ELSE g[i - 1] \o s[i]]
  <2> DEFINE h == [i \in 1 .. Len(s) |-> f[i]]
  <2>1. FlattenSeq(s) = fl[Len(s)]
    BY <1>3 DEF FlattenSeq
  <2>2. h = [i \in 1 .. Len(s) |-> IF i = 1 THEN s[i] ELSE h[i - 1] \o s[i]]
    <3> SUFFICES ASSUME NEW i \in 1 .. Len(s)
                 PROVE  h[i] = IF i = 1 THEN s[i] ELSE h[i - 1] \o s[i]
      OBVIOUS
    <3>1. f[i] = f[i - 1] \o s[i] /\ f[0] = <<>>
      BY <1>1 DEF Sums
    <3>2. CASE i = 1
      <4>1. <<>> \o s[1] = s[1]
        BY <1>0, <3>2
      <4>2. i - 1 = 0 /\ h[i] = f[i]
        BY <3>2
      <4> QED BY <3>1, <3>2, <4>1, <4>2
    <3>3. CASE i # 1
      <4>1. i - 1 \in 1 .. Len(s)
        BY <1>0, <3>3
      <4> QED BY <3>1, <3>3, <4>1
    <3> QED BY <3>2, <3>3
  <2>3. fl = [i \in 1 .. Len(s) |-> IF i = 1 THEN s[i] ELSE fl[i - 1] \o s[i]]
    <3> HIDE DEF h
    <3> QED BY <2>2
  <2> HIDE DEF fl
  <2> DEFINE T == {i \in 1 .. Len(s) : fl[i] # f[i]}
  <2>4. T = {}
    <3>1. SUFFICES ASSUME T # {} PROVE FALSE
      OBVIOUS
    <3>2. T \in SUBSET Nat
      OBVIOUS
    <3>3. PICK i \in T : \A j \in T : i <= j
      BY <3>1, <3>2, LeastNat
    <3>4. fl[i] = (IF i = 1 THEN s[i] ELSE fl[i - 1] \o s[i]) /\ h[i] = f[i]
      BY <2>3, <3>3
    <3>5. h[i] = IF i = 1 THEN s[i] ELSE h[i - 1] \o s[i]
      BY <2>2, <3>3
    <3>6. CASE i = 1
      BY <3>3, <3>4, <3>5, <3>6
    <3>7. CASE i # 1
      <4>1. i - 1 \in 1 .. Len(s) /\ ~(i <= i - 1)
        BY <1>0, <3>3, <3>7
      <4>2. fl[i - 1] = f[i - 1]
        BY <3>3, <4>1
      <4> QED BY <3>3, <3>4, <3>5, <3>7, <4>1, <4>2
    <3> QED BY <3>6, <3>7
  <2>5. Len(s) \in 1 .. Len(s)
    BY <1>0, <1>3
  <2> QED BY <1>1, <2>1, <2>4, <2>5
<1> QED BY <1>2, <1>3

-----------------------------------------------------------------------------
(* The deparsed text.                                                        *)

Text == Seq(1 .. 2)

\* The texts of the CTEs, of the target list and of the conditions of a statement.
CtesOf(applied, s, text) ==
  FlattenSeq([i \in DOMAIN Children(s, "cte") |->
                LET c == Children(s, "cte")[i]
                IN  IF <<c, "cte">> \in applied THEN Dots ELSE text[c]])
TargetsOf(applied, s, text) ==
  IF <<s, "target">> \in applied THEN CutTarget(s) ELSE TargetList(s, text)
WheresOf(applied, s, text) ==
  IF <<s, "where">> \in applied THEN Dots ELSE Where(s, text)

\* The text of a statement, given those of the statements in it.
TextOf(applied, s, text) ==
  CtesOf(applied, s, text) \o Ascii(3) \o TargetsOf(applied, s, text)
    \o Joined(Children(s, "from"), text) \o Joined(Children(s, "query"), text)
    \o WheresOf(applied, s, text)

LEMMA TextsChosen ==
  ASSUME NEW applied
  PROVE  Texts(applied) = CHOOSE text : text = [s \in Statements |-> TextOf(applied, s, text)]
BY DEF Texts, TextOf, CtesOf, TargetsOf, WheresOf

\* The statements in a part of another one come after it.
LEMMA KidsAre ==
  ASSUME TreeInv, NEW s \in Statements, NEW p \in Parts
  PROVE  /\ Children(s, p) \in Seq(Statements)
         /\ \A i \in DOMAIN Children(s, p) :
              /\ Children(s, p)[i] \in Statements /\ Children(s, p)[i] > s
              /\ tree[Children(s, p)[i]].parent = s /\ tree[Children(s, p)[i]].part = p
<1> DEFINE kids == Children(s, p)
<1>1. kids \in Seq(1 .. MaxStmts)
  BY NodeFields
<1>2. ToSet(kids) = {c \in Statements : tree[c].parent = s /\ tree[c].part = p}
  BY DEF TreeInv
<1>3. ASSUME NEW i \in DOMAIN kids
      PROVE  /\ kids[i] \in Statements /\ kids[i] > s
             /\ tree[kids[i]].parent = s /\ tree[kids[i]].part = p
  <2> HIDE DEF kids
  <2>1. kids[i] \in ToSet(kids)
    BY DEF ToSet
  <2>2. kids[i] \in Statements /\ tree[kids[i]].parent = s /\ tree[kids[i]].part = p
    BY <1>2, <2>1
  <2>3. tree[kids[i]].parent < kids[i] /\ kids[i] \in Nat /\ s \in Nat
    BY <2>2, NodeFields DEF TreeInv
  <2> QED BY <2>2, <2>3
<1> HIDE DEF kids
<1>4. kids \in Seq(Statements)
  <2>1. /\ DOMAIN kids = 1 .. Len(kids) /\ Len(kids) \in Nat
        /\ kids = [i \in 1 .. Len(kids) |-> kids[i]]
    BY <1>1
  <2> QED BY <1>3, <2>1
<1> QED BY <1>3, <1>4 DEF kids

LEMMA FlattenType ==
  ASSUME NEW s \in Seq(Text) PROVE FlattenSeq(s) \in Text
<1>1. s \in Seq(Seq(1 .. 2)) /\ Len(s) \in Nat
  BY DEF Text
<1> DEFINE W == 1 .. 2
<1> HIDE DEF W
<1>2. PICK f : Sums(W, s, Len(s), f) /\ f[Len(s)] = FlattenSeq(s)
  BY <1>1, Flattened DEF W
<1>3. Len(s) \in 0 .. Len(s)
  BY <1>1
<1> QED BY <1>2, <1>3 DEF Sums, Text, W

LEMMA AsciiType ==
  ASSUME NEW n \in Nat
  PROVE  Ascii(n) \in Text /\ Len(Ascii(n)) = n /\ \A i \in 1 .. n : Ascii(n)[i] = 1
BY DEF Ascii, Text

LEMMA ConcatType ==
  ASSUME NEW a \in Text, NEW b \in Text
  PROVE  a \o b \in Text
BY DEF Text

LEMMA CutTargetIs ==
  ASSUME NEW s
  PROVE  \/ CutTarget(s) = (Dots \o Ascii(3)) \o Dots
         \/ CutTarget(s) = (Dots \o Ascii(4)) \o Dots
         \/ CutTarget(s) = Dots
<1>1. CASE tree[s].kind = "UpdateStmt"
  BY <1>1 DEF CutTarget
<1>2. CASE tree[s].kind = "SelectStmt" /\ s \in Distinct
  BY <1>2 DEF CutTarget
<1>3. CASE tree[s].kind # "UpdateStmt" /\ ~(tree[s].kind = "SelectStmt" /\ s \in Distinct)
  BY <1>3 DEF CutTarget
<1> QED BY <1>1, <1>2, <1>3

LEMMA CutTargetType ==
  ASSUME NEW s
  PROVE  CutTarget(s) \in Text /\ Dots \in Text /\ ConditionText \in Text /\ <<>> \in Text
         /\ TargetText(s) \in Text
<1>1. Dots \in Text
  BY AsciiType DEF Dots
<1>2. <<>> \in Text /\ ConditionText \in Text
  BY DEF Text, ConditionText
<1>3. CutTarget(s) \in Text
  <2>1. \A n \in {3, 4} : (Dots \o Ascii(n)) \o Dots \in Text
    BY <1>1, AsciiType, ConcatType
  <2>2. \/ CutTarget(s) \in {(Dots \o Ascii(3)) \o Dots, (Dots \o Ascii(4)) \o Dots}
        \/ CutTarget(s) = Dots
    BY CutTargetIs
  <2> QED BY <1>1, <2>1, <2>2
<1>4. TargetText(s) \in Text
  BY AsciiType DEF TargetText
<1> QED BY <1>1, <1>2, <1>3, <1>4

LEMMA JoinedType ==
  ASSUME NEW kids \in Seq(Statements), NEW text \in [Statements -> Text]
  PROVE  Joined(kids, text) \in Text
<1> DEFINE j == [i \in DOMAIN kids |-> text[kids[i]]]
<1>1. DOMAIN kids = 1 .. Len(kids) /\ Len(kids) \in Nat
  OBVIOUS
<1>2. \A i \in 1 .. Len(kids) : text[kids[i]] \in Text
  BY <1>1
<1>3. j \in Seq(Text)
  BY <1>1, <1>2
<1> QED BY <1>3, FlattenType DEF Joined

\* Each of these is a text if those of the statements are.
LEMMA TextOfType ==
  ASSUME TreeInv, NEW s \in Statements, NEW applied, NEW text \in [Statements -> Text]
  PROVE  /\ CtesOf(applied, s, text) \in Text /\ TargetsOf(applied, s, text) \in Text
         /\ WheresOf(applied, s, text) \in Text
         /\ \A p \in Parts : Joined(Children(s, p), text) \in Text
         /\ TargetList(s, text) \in Text /\ Where(s, text) \in Text
         /\ TextOf(applied, s, text) \in Text
<1>1. \A p \in Parts : Joined(Children(s, p), text) \in Text
  BY KidsAre, JoinedType
<1>p. {"target", "from", "where", "cte", "query"} \subseteq Parts
  BY DEF Parts
<1>2. CtesOf(applied, s, text) \in Text
  <2> DEFINE kids == Children(s, "cte")
  <2> DEFINE j == [i \in DOMAIN kids |->
                     IF <<kids[i], "cte">> \in applied THEN Dots ELSE text[kids[i]]]
  <2>1. kids \in Seq(Statements)
    BY <1>p, KidsAre
  <2>2. CtesOf(applied, s, text) = FlattenSeq(j)
    BY DEF CtesOf
  <2> HIDE DEF kids
  <2>3. DOMAIN kids = 1 .. Len(kids) /\ Len(kids) \in Nat
    BY <2>1
  <2>4. \A i \in 1 .. Len(kids) : text[kids[i]] \in Text /\ Dots \in Text
    BY <2>1, CutTargetType
  <2>5. j \in Seq(Text)
    BY <2>3, <2>4
  <2> HIDE DEF j
  <2> QED BY <2>2, <2>5, FlattenType
<1>3. TargetList(s, text) \in Text
  BY <1>1, <1>p, CutTargetType, ConcatType DEF TargetList
<1>4. Where(s, text) \in Text
  BY <1>1, <1>p, CutTargetType, ConcatType DEF Where
<1>5. TargetsOf(applied, s, text) \in Text /\ WheresOf(applied, s, text) \in Text
  BY <1>3, <1>4, CutTargetType DEF TargetsOf, WheresOf
<1>6. TextOf(applied, s, text) \in Text
  <2>1. Ascii(3) \in Text
    BY AsciiType
  <2> QED BY <1>1, <1>p, <1>2, <1>5, <2>1, ConcatType DEF TextOf
<1> QED BY <1>1, <1>2, <1>3, <1>4, <1>5, <1>6

\* The text of a statement depends on those of later statements only.
LEMMA TextOfLater ==
  ASSUME TreeInv, NEW s \in Statements, NEW applied, NEW f, NEW g,
         \A c \in Statements : c > s => f[c] = g[c]
  PROVE  TextOf(applied, s, f) = TextOf(applied, s, g)
<1>p. {"target", "from", "where", "cte", "query"} \subseteq Parts
  BY DEF Parts
<1>1. \A p \in Parts : \A i \in DOMAIN Children(s, p) : f[Children(s, p)[i]] = g[Children(s, p)[i]]
  BY KidsAre
<1>2. ASSUME NEW p \in Parts
      PROVE  Joined(Children(s, p), f) = Joined(Children(s, p), g)
  <2>1. [i \in DOMAIN Children(s, p) |-> f[Children(s, p)[i]]]
          = [i \in DOMAIN Children(s, p) |-> g[Children(s, p)[i]]]
    BY <1>1
  <2> QED BY <2>1 DEF Joined
<1>3. CtesOf(applied, s, f) = CtesOf(applied, s, g)
  <2> DEFINE kids == Children(s, "cte")
  <2> DEFINE j(h) == [i \in DOMAIN kids |->
                        IF <<kids[i], "cte">> \in applied THEN Dots ELSE h[kids[i]]]
  <2>1. CtesOf(applied, s, f) = FlattenSeq(j(f)) /\ CtesOf(applied, s, g) = FlattenSeq(j(g))
    BY DEF CtesOf
  <2>2. \A i \in DOMAIN kids : f[kids[i]] = g[kids[i]]
    BY <1>1, <1>p
  <2> HIDE DEF kids
  <2>3. j(f) = j(g)
    BY <2>2
  <2> QED BY <2>1, <2>3
<1>4. TargetsOf(applied, s, f) = TargetsOf(applied, s, g)
  BY <1>2, <1>p DEF TargetsOf, TargetList
<1>5. WheresOf(applied, s, f) = WheresOf(applied, s, g)
  BY <1>2, <1>p DEF WheresOf, Where
<1> QED BY <1>2, <1>p, <1>3, <1>4, <1>5 DEF TextOf

\* The recursion of Texts ends.
LEMMA TextsAre ==
  ASSUME TreeInv, NEW applied
  PROVE  /\ Texts(applied) \in [Statements -> Text]
         /\ \A s \in Statements : Texts(applied)[s] = TextOf(applied, s, Texts(applied))
<1> DEFINE N == Len(tree)
<1>1. N \in Nat /\ Statements = 1 .. N
  BY DEF TreeInv, Statements
<1> HIDE DEF N
<1> DEFINE Solves(f, k) ==
      /\ f \in [Statements -> Text]
      /\ \A s \in Statements : s > k => f[s] = TextOf(applied, s, f)
<1> DEFINE T == {j \in 0 .. N : ~ \E f : Solves(f, N - j)}
<1>2. T = {}
  <2>1. SUFFICES ASSUME T # {} PROVE FALSE
    OBVIOUS
  <2>2. PICK j \in T : \A k \in T : j <= k
    <3>1. T \in SUBSET Nat
      OBVIOUS
    <3> HIDE DEF T
    <3> QED BY <2>1, <3>1, LeastNat
  <2>3. j # 0
    <3> DEFINE f == [s \in Statements |-> <<>>]
    <3>1. f \in [Statements -> Text]
      BY CutTargetType
    <3>2. \A s \in Statements : ~(s > N - 0)
      BY <1>1
    <3>3. Solves(f, N - 0)
      BY <3>1, <3>2
    <3> HIDE DEF Solves, f
    <3> QED BY <2>2, <3>3
  <2>4. /\ j \in Nat /\ j - 1 \in 0 .. N /\ ~(j <= j - 1) /\ N - j \in Nat
        /\ N - (j - 1) = (N - j) + 1 /\ (N - j) + 1 \in Statements
    BY <1>1, <2>2, <2>3
  <2>5. PICK f : Solves(f, (N - j) + 1)
    <3>1. j - 1 \notin T
      <4> HIDE DEF T
      <4> QED BY <2>2, <2>4
    <3> HIDE DEF Solves
    <3>2. \E f : Solves(f, N - (j - 1))
      BY <2>4, <3>1
    <3> QED BY <2>4, <3>2
  <2> DEFINE k == (N - j) + 1
  <2>6. k \in Statements /\ k \in Nat /\ N - j = k - 1 /\ Solves(f, k)
    BY <2>4, <2>5
  <2>7. ~ \E g : Solves(g, k - 1)
    <3> HIDE DEF Solves
    <3> QED BY <2>2, <2>6
  <2> HIDE DEF k, T
  <2> DEFINE g == [f EXCEPT ![k] = TextOf(applied, k, f)]
  <2>8. g \in [Statements -> Text] /\ g[k] = TextOf(applied, k, f)
        /\ \A c \in Statements : c > k => g[c] = f[c]
    <3>1. TextOf(applied, k, f) \in Text
      BY <2>6, TextOfType
    <3> QED BY <2>6, <3>1
  <2> HIDE DEF g
  <2>9. ASSUME NEW s \in Statements, s > k - 1 PROVE g[s] = TextOf(applied, s, g)
    <3>1. s \in Nat
      BY <1>1
    <3>2. \A c \in Statements : c > s => g[c] = f[c]
      BY <2>6, <2>8, <2>9, <3>1, <1>1
    <3>3. TextOf(applied, s, g) = TextOf(applied, s, f)
      BY <3>2, TextOfLater
    <3>4. CASE s = k
      BY <2>8, <3>3, <3>4
    <3>5. CASE s > k
      BY <2>6, <2>8, <3>3, <3>5
    <3> QED BY <2>6, <2>9, <3>1, <3>4, <3>5
  <2> QED BY <2>7, <2>8, <2>9
<1>3. PICK f : Solves(f, N - N)
  <2>1. N \in 0 .. N
    BY <1>1
  <2> HIDE DEF Solves
  <2> QED BY <1>2, <2>1
<1>4. f = [s \in Statements |-> TextOf(applied, s, f)]
  BY <1>1, <1>3
<1>5. PICK t : t = Texts(applied)
  OBVIOUS
<1>6. t = [s \in Statements |-> TextOf(applied, s, t)]
  BY <1>4, <1>5, TextsChosen
<1> DEFINE D == {j \in 0 .. N : j < N /\ t[N - j] # f[N - j]}
<1>7. D = {}
  <2>1. SUFFICES ASSUME D # {} PROVE FALSE
    OBVIOUS
  <2>2. PICK j \in D : \A k \in D : j <= k
    <3>1. D \in SUBSET Nat
      OBVIOUS
    <3> HIDE DEF D
    <3> QED BY <2>1, <3>1, LeastNat
  <2>3. /\ j \in Nat /\ j < N /\ N - j \in Statements /\ t[N - j] # f[N - j]
    BY <1>1, <2>2
  <2>4. ASSUME NEW c \in Statements, c > N - j PROVE t[c] = f[c]
    <3>1. N - c \in 0 .. N /\ N - c < N /\ N - (N - c) = c /\ ~(j <= N - c)
      BY <1>1, <2>3, <2>4
    <3>2. N - c \notin D
      <4> HIDE DEF D
      <4> QED BY <2>2, <3>1
    <3> QED BY <3>1, <3>2
  <2> HIDE DEF D
  <2>5. TextOf(applied, N - j, t) = TextOf(applied, N - j, f)
    BY <2>3, <2>4, TextOfLater
  <2>6. t[N - j] = TextOf(applied, N - j, t) /\ f[N - j] = TextOf(applied, N - j, f)
    BY <1>4, <1>6, <2>3
  <2> QED BY <2>3, <2>5, <2>6
<1>8. \A s \in Statements : t[s] = f[s]
  <2> TAKE s \in Statements
  <2>1. N - s \in 0 .. N /\ N - s < N /\ N - (N - s) = s
    BY <1>1
  <2>2. N - s \notin D
    BY <1>7
  <2> QED BY <2>1, <2>2
<1>9. t \in [Statements -> Text]
  BY <1>3, <1>6, <1>8
<1> QED BY <1>5, <1>6, <1>9

\* Characters of two bytes.
Wide(text, s) == {i \in s : text[i] = 2}

LEMMA BytesChosen ==
  ASSUME NEW text
  PROVE  Bytes(text) =
           (CHOOSE f : f = [s \in SUBSET DOMAIN text |->
                              IF s = {} THEN 0 ELSE f[s \ {Max(s)}] + text[Max(s)]])[DOMAIN text]
BY DEF Bytes, FoldLeft, MapThenFoldSet

LEMMA MaxOf ==
  ASSUME NEW n \in Nat, NEW s \in SUBSET (1 .. n), s # {}
  PROVE  Max(s) \in s /\ \A x \in s : Max(s) >= x
<1>1. \A x \in s : x <= n /\ x \in Nat
  OBVIOUS
<1> DEFINE T == {k \in Nat : \A x \in s : x <= k}
<1>2. PICK m \in T : \A k \in T : m <= k
  <2>1. n \in T /\ T \in SUBSET Nat
    BY <1>1
  <2> HIDE DEF T
  <2> QED BY <2>1, LeastNat
<1>3. m \in s
  <2>1. SUFFICES ASSUME m \notin s PROVE FALSE
    OBVIOUS
  <2>2. m \in Nat /\ \A x \in s : x <= m /\ x # m /\ x \in Nat
    BY <1>2, <2>1
  <2>3. m # 0
    <3>1. PICK x \in s : TRUE
      OBVIOUS
    <3> QED BY <2>2, <3>1, <1>1
  <2>4. m - 1 \in T /\ ~(m <= m - 1)
    BY <2>2, <2>3
  <2> HIDE DEF T
  <2> QED BY <1>2, <2>4
<1>4. \E x \in s : \A y \in s : x >= y
  BY <1>2, <1>3
<1> QED BY <1>4 DEF Max

\* One more character of the set.
LEMMA WideOne ==
  ASSUME NEW text \in Text, NEW s \in SUBSET DOMAIN text, s # {}
  PROVE  /\ Max(s) \in s /\ IsFiniteSet(s) /\ Cardinality(s) \in Nat
         /\ Cardinality(s \ {Max(s)}) = Cardinality(s) - 1
         /\ Cardinality(s) + Cardinality(Wide(text, s))
              = (Cardinality(s \ {Max(s)}) + Cardinality(Wide(text, s \ {Max(s)}))) + text[Max(s)]
<1>1. DOMAIN text = 1 .. Len(text) /\ Len(text) \in Nat /\ \A i \in DOMAIN text : text[i] \in 1 .. 2
  BY DEF Text
<1>2. IsFiniteSet(s)
  <2>1. IsFiniteSet(1 .. Len(text))
    BY <1>1, FS_Interval
  <2> QED BY <1>1, <2>1, FS_Subset
<1>3. Max(s) \in s
  BY <1>1, MaxOf
<1>4. PICK m \in s : m = Max(s)
  BY <1>3
<1>5. /\ IsFiniteSet(s \ {m}) /\ Cardinality(s \ {m}) = Cardinality(s) - 1
      /\ Cardinality(s) \in Nat
  BY <1>2, FS_RemoveElement, FS_CardinalityType
<1>6. /\ IsFiniteSet(Wide(text, s)) /\ IsFiniteSet(Wide(text, s \ {m}))
      /\ Cardinality(Wide(text, s)) \in Nat /\ Cardinality(Wide(text, s \ {m})) \in Nat
  <2>1. Wide(text, s) \subseteq s /\ Wide(text, s \ {m}) \subseteq s
    BY DEF Wide
  <2> QED BY <1>2, <2>1, FS_Subset, FS_CardinalityType
<1>7. text[m] \in 1 .. 2
  BY <1>1
<1>8. CASE text[m] = 2
  <2>1. m \in Wide(text, s) /\ Wide(text, s \ {m}) = Wide(text, s) \ {m}
    BY <1>8 DEF Wide
  <2>2. Cardinality(Wide(text, s \ {m})) = Cardinality(Wide(text, s)) - 1
    BY <1>6, <2>1, FS_RemoveElement, ZenonT(40)
  <2> QED BY <1>2, <1>4, <1>5, <1>6, <1>8, <2>2
<1>9. CASE text[m] = 1
  <2>1. Wide(text, s \ {m}) = Wide(text, s)
    BY <1>9 DEF Wide
  <2> QED BY <1>2, <1>4, <1>5, <1>6, <1>9, <2>1
<1> QED BY <1>7, <1>8, <1>9

\* The bytes of a text are its characters, and one more for each that is wide.
LEMMA BytesAre ==
  ASSUME NEW text \in Text
  PROVE  /\ Bytes(text) = Len(text) + Cardinality(Wide(text, DOMAIN text))
         /\ Len(text) \in Nat /\ Cardinality(Wide(text, DOMAIN text)) \in Nat
<1> DEFINE S == DOMAIN text
<1> DEFINE H == [s \in SUBSET S |-> Cardinality(s) + Cardinality(Wide(text, s))]
<1> DEFINE Sum(f) == [s \in SUBSET S |-> IF s = {} THEN 0 ELSE f[s \ {Max(s)}] + text[Max(s)]]
<1>1. S = 1 .. Len(text) /\ Len(text) \in Nat
  BY DEF Text
<1>2. ASSUME NEW s \in SUBSET S
      PROVE  H[s] = IF s = {} THEN 0 ELSE H[s \ {Max(s)}] + text[Max(s)]
  <2>1. CASE s = {}
    <3>1. Wide(text, {}) = {}
      BY DEF Wide
    <3> QED BY <2>1, <3>1, FS_EmptySet
  <2>2. CASE s # {}
    <3>1. s \ {Max(s)} \in SUBSET S
      OBVIOUS
    <3>2. H[s] = Cardinality(s) + Cardinality(Wide(text, s))
      OBVIOUS
    <3>3. H[s \ {Max(s)}] = Cardinality(s \ {Max(s)}) + Cardinality(Wide(text, s \ {Max(s)}))
      BY <3>1
    <3> HIDE DEF H
    <3> QED BY <2>2, <3>2, <3>3, WideOne
  <2> QED BY <2>1, <2>2
<1>3. H = Sum(H)
  <2>1. H = [s \in SUBSET S |-> H[s]]
    OBVIOUS
  <2> HIDE DEF H
  <2> QED BY <1>2, <2>1
<1>4. PICK f : f = CHOOSE g : g = Sum(g)
  OBVIOUS
<1>5. Bytes(text) = f[S]
  BY <1>4, BytesChosen
<1>6. f = Sum(f)
  <2> HIDE DEF Sum, H
  <2> QED BY <1>3, <1>4
<1> DEFINE T == {k \in Nat : \E s \in SUBSET S : Cardinality(s) = k /\ f[s] # H[s]}
<1>7. T = {}
  <2>1. SUFFICES ASSUME T # {} PROVE FALSE
    OBVIOUS
  <2>2. PICK k \in T : \A j \in T : k <= j
    <3>1. T \in SUBSET Nat
      OBVIOUS
    <3> HIDE DEF T
    <3> QED BY <2>1, <3>1, LeastNat
  <2>3. PICK s \in SUBSET S : Cardinality(s) = k /\ f[s] # H[s]
    BY <2>2
  <2>4. f[s] = IF s = {} THEN 0 ELSE f[s \ {Max(s)}] + text[Max(s)]
    BY <1>6
  <2> HIDE DEF H
  <2>5. s # {}
    BY <1>2, <2>3, <2>4
  <2>6. /\ s \ {Max(s)} \in SUBSET S /\ Cardinality(s \ {Max(s)}) = k - 1
        /\ k \in Nat /\ Cardinality(s \ {Max(s)}) \in Nat /\ ~(k <= k - 1)
    <3>1. /\ Cardinality(s \ {Max(s)}) = k - 1 /\ k \in Nat /\ IsFiniteSet(s)
      BY <2>3, <2>5, WideOne
    <3>2. Cardinality(s \ {Max(s)}) \in Nat
      BY <3>1, FS_RemoveElement, FS_Subset, FS_CardinalityType
    <3> QED BY <3>1, <3>2
  <2>7. f[s \ {Max(s)}] = H[s \ {Max(s)}]
    <3>1. k - 1 \notin T /\ k - 1 \in Nat
      <4> HIDE DEF T
      <4> QED BY <2>2, <2>6
    <3> QED BY <2>6, <3>1
  <2> QED BY <1>2, <2>3, <2>4, <2>5, <2>7
<1>8. S \in SUBSET S /\ IsFiniteSet(S) /\ Cardinality(S) = Len(text) /\ Cardinality(S) \in Nat
  <2> DEFINE n == Len(text)
  <2>1. n \in Nat
    BY <1>1
  <2> HIDE DEF n
  <2>2. IsFiniteSet(1 .. n) /\ Cardinality(1 .. n) = n
    BY <2>1, FS_Interval
  <2> QED BY <1>1, <2>1, <2>2 DEF n
<1>9. f[S] = H[S]
  BY <1>7, <1>8
<1>10. H[S] = Cardinality(S) + Cardinality(Wide(text, S))
  BY <1>8
<1>11. Cardinality(Wide(text, S)) \in Nat
  BY <1>8, FS_Subset, FS_CardinalityType DEF Wide
<1> QED BY <1>1, <1>5, <1>8, <1>9, <1>10, <1>11

-----------------------------------------------------------------------------
(* The hard cut.                                                             *)

\* What is kept of a text and the dots are within the limit.
LEMMA CutFits ==
  ASSUME NEW text \in Text, NEW max \in Nat, max >= 3
  PROVE  Len(TruncateMbstr(text, max)) <= max
<1>1. DOMAIN text = 1 .. Len(text) /\ Len(text) \in Nat
  BY DEF Text
<1>2. CASE Len(text) <= max
  BY <1>2 DEF TruncateMbstr
<1>3. CASE ~(Len(text) <= max)
  <2> DEFINE K == {i \in DOMAIN text : i <= max - 3 /\ Bytes(SubSeq(text, 1, i - 1)) < Len(text)}
  <2> DEFINE n == max - 3
  <2> DEFINE k == Kept(text, n)
  <2>1. k = Cardinality(K) /\ n \in Nat
    BY DEF Kept
  <2>2. K \subseteq 1 .. n
    BY <1>1
  <2> HIDE DEF K
  <2>3. TruncateMbstr(text, max) = SubSeq(text, 1, k) \o Dots
    <3>1. ~(max < 0 \/ Len(text) <= max)
      BY <1>3
    <3> QED BY <3>1, Zenon DEF TruncateMbstr
  <2> HIDE DEF k
  <2>4. IsFiniteSet(1 .. n) /\ Cardinality(1 .. n) = n
    <3> HIDE DEF n
    <3> QED BY <2>1, FS_Interval
  <2>5. k \in Nat /\ k <= n
    BY <2>1, <2>2, <2>4, FS_Subset, FS_CardinalityType, ZenonT(40)
  <2>6. k <= Len(text) /\ n + 3 = max
    BY <1>1, <1>3, <2>1, <2>5
  <2>7. SubSeq(text, 1, k) \in Text /\ Len(SubSeq(text, 1, k)) = k
    BY <1>1, <2>5, <2>6 DEF Text
  <2>8. Dots \in Text /\ Len(Dots) = 3
    BY AsciiType DEF Dots
  <2>9. Len(SubSeq(text, 1, k) \o Dots) = k + 3
    <3> DEFINE W == 1 .. 2
    <3>1. SubSeq(text, 1, k) \in Seq(W) /\ Dots \in Seq(W)
      BY <2>7, <2>8 DEF Text
    <3> HIDE DEF W
    <3>2. Len(SubSeq(text, 1, k) \o Dots) = Len(SubSeq(text, 1, k)) + Len(Dots)
      BY <3>1, Concat
    <3> QED BY <2>7, <2>8, <3>2
  <2> HIDE DEF n
  <2> QED BY <2>1, <2>3, <2>5, <2>6, <2>9
<1> QED BY <1>2, <1>3

\* A text has at least as many bytes as characters.
LEMMA FitsInBytes ==
  ASSUME NEW text \in Text, NEW max \in Nat, Bytes(text) <= max
  PROVE  Len(text) <= max
BY BytesAre

-----------------------------------------------------------------------------
(* Rounds of truncation.                                                     *)

\* A statement and those that it is in; the recursion of Above goes to the parent, which
\* comes before it.
LEMMA AboveAre ==
  ASSUME TreeInv
  PROVE  \A s \in Statements :
           /\ Above[s] = {s} \cup IF tree[s].parent = 0 THEN {} ELSE Above[tree[s].parent]
           /\ Above[s] \subseteq Statements
<1> DEFINE N == Len(tree)
<1>1. N \in Nat /\ Statements = 1 .. N
  BY DEF TreeInv, Statements
<1>2. ASSUME NEW s \in Statements
      PROVE  /\ tree[s].parent < s /\ tree[s].parent \in Nat /\ s \in Nat
             /\ tree[s].parent # 0 => tree[s].parent \in Statements
  <2>1. tree[s].parent < s /\ tree[s].parent \in Nat
    BY NodeFields DEF TreeInv
  <2> HIDE DEF N
  <2> QED BY <1>1, <2>1
<1> HIDE DEF N
<1> DEFINE Step(f, s) == {s} \cup IF tree[s].parent = 0 THEN {} ELSE f[tree[s].parent]
<1> DEFINE Solves(f, k) == DOMAIN f = Statements /\ \A s \in Statements : s <= k => f[s] = Step(f, s)
<1> DEFINE T == {k \in 0 .. N : ~ \E f : Solves(f, k)}
<1>3. T = {}
  <2>1. SUFFICES ASSUME T # {} PROVE FALSE
    OBVIOUS
  <2>2. PICK k \in T : \A j \in T : k <= j
    <3>1. T \in SUBSET Nat
      OBVIOUS
    <3> HIDE DEF T
    <3> QED BY <2>1, <3>1, LeastNat
  <2>3. k # 0
    <3> DEFINE f == [s \in Statements |-> {}]
    <3>1. Solves(f, 0)
      BY <1>1
    <3> HIDE DEF Solves, f
    <3> QED BY <2>2, <3>1
  <2>4. k \in Statements /\ k \in Nat /\ k - 1 \in 0 .. N /\ ~(k <= k - 1)
    BY <1>1, <2>2, <2>3
  <2>5. PICK f : Solves(f, k - 1)
    <3>1. k - 1 \notin T
      <4> HIDE DEF T
      <4> QED BY <2>2, <2>4
    <3> HIDE DEF Solves
    <3> QED BY <2>4, <3>1
  <2> DEFINE g == [f EXCEPT ![k] = Step(f, k)]
  <2>6. DOMAIN g = Statements /\ g[k] = Step(f, k) /\ \A s \in Statements : s # k => g[s] = f[s]
    BY <2>4, <2>5
  <2> HIDE DEF g
  <2>7. ASSUME NEW s \in Statements, s <= k PROVE g[s] = Step(g, s)
    <3>1. tree[s].parent # 0 => g[tree[s].parent] = f[tree[s].parent]
      BY <1>2, <2>4, <2>6, <2>7
    <3>2. Step(g, s) = Step(f, s)
      BY <3>1
    <3>3. CASE s = k
      BY <2>6, <3>2, <3>3
    <3>4. CASE s # k
      <4>1. s <= k - 1
        BY <1>2, <2>4, <2>7, <3>4
      <4> QED BY <2>5, <2>6, <3>2, <3>4, <4>1
    <3> QED BY <3>3, <3>4
  <2>8. Solves(g, k)
    BY <2>6, <2>7
  <2> HIDE DEF Solves
  <2> QED BY <2>2, <2>8
<1>4. PICK f : Solves(f, N)
  <2>1. N \in 0 .. N
    BY <1>1
  <2> HIDE DEF Solves
  <2> QED BY <1>3, <2>1
<1>5. Above = CHOOSE a : a = [s \in Statements |-> Step(a, s)]
  BY DEF Above
<1>6. \E a : a = [s \in Statements |-> Step(a, s)]
  <2> DEFINE g == [s \in Statements |-> f[s]]
  <2>1. \A s \in Statements : g[s] = Step(f, s)
    BY <1>1, <1>4
  <2>2. \A s \in Statements : Step(g, s) = Step(f, s)
    BY <1>2
  <2>3. g = [s \in Statements |-> Step(g, s)]
    <3>1. \A s \in Statements : g[s] = Step(g, s)
      BY <2>1, <2>2
    <3>2. g = [s \in Statements |-> g[s]]
      OBVIOUS
    <3> HIDE DEF g, Step
    <3> QED BY <3>1, <3>2
  <2> HIDE DEF g
  <2> QED BY <2>3
<1>7. PICK a : a = Above
  OBVIOUS
<1>8. a = [s \in Statements |-> Step(a, s)]
  <2> HIDE DEF Step
  <2> QED BY <1>5, <1>6, <1>7
<1>9. \A s \in Statements : a[s] = Step(a, s)
  <2> HIDE DEF Step
  <2> QED BY <1>8
<1> DEFINE B == {s \in Statements : ~(a[s] \subseteq Statements)}
<1>10. B = {}
  <2>1. SUFFICES ASSUME B # {} PROVE FALSE
    OBVIOUS
  <2>2. PICK s \in B : \A t \in B : s <= t
    <3>1. B \in SUBSET Nat
      BY <1>1
    <3> HIDE DEF B
    <3> QED BY <2>1, <3>1, LeastNat
  <2>3. tree[s].parent # 0
    BY <1>9, <2>2
  <2>4. tree[s].parent \in Statements /\ ~(s <= tree[s].parent)
    BY <1>2, <2>2, <2>3
  <2>5. a[tree[s].parent] \subseteq Statements
    BY <2>2, <2>4
  <2> QED BY <1>9, <2>2, <2>5
<1> QED BY <1>7, <1>9, <1>10

LEMMA SamePossible ==
  ASSUME tree' = tree
  PROVE  /\ PossibleTruncations' = PossibleTruncations
         /\ \A applied : Query(applied)' = Query(applied)
<1>1. Depths' = Depths
  BY DEF Depths, Statements, Levels, ConflictLevels, WhereClause, Calls, Children
<1>2. ASSUME NEW applied PROVE Texts(applied)' = Texts(applied)
  BY DEF Texts, Statements, Children, TargetList, CutTarget, Where, Joined
<1>3. ASSUME NEW applied PROVE Query(applied)' = Query(applied)
  BY <1>2 DEF Query
<1>4. PossibleTruncations' = PossibleTruncations
  BY <1>1, <1>2 DEF PossibleTruncations, Statements, TargetList, Where, Joined, Children, ConflictLevels
<1> QED BY <1>3, <1>4

LEMMA QueryNext ==
  ASSUME NEW x, cut' = x, tree' = tree
  PROVE  Query(cut)' = Query(x)
<1>1. Query(cut)' = Query(x)'
  BY DEF Query, Texts, Statements, Children, TargetList, CutTarget, Where, Joined
<1> QED BY <1>1, SamePossible

LEMMA LevelsType ==
  ASSUME NEW s, NEW p \in Parts
  PROVE  /\ ConflictLevels(s) \in {0, 2} /\ Levels(s, p) \in 1 .. 6
         /\ p = "target" => Levels(s, p) = 4
         /\ p = "cte" => Levels(s, p) = 4
         /\ p = "where" => Levels(s, p) >= ConflictLevels(s) + 2
<1>1. ConflictLevels(s) \in {0, 2}
  BY DEF ConflictLevels
<1> QED BY <1>1 DEF Levels, Parts

\* The recursion of Depths goes to the parent.
LEMMA DepthsAre ==
  ASSUME TreeInv
  PROVE  \A s \in Statements :
           /\ Depths[s] = IF s = 1 THEN 1
                          ELSE Depths[tree[s].parent] + Levels(tree[s].parent, tree[s].part)
           /\ Depths[s] \in Nat
<1> DEFINE N == Len(tree)
<1>1. N \in Nat /\ Statements = 1 .. N
  BY DEF TreeInv, Statements
<1>2. ASSUME NEW s \in Statements
      PROVE  /\ tree[s].parent < s /\ s \in Nat /\ tree[s].part \in Parts
             /\ s # 1 => tree[s].parent \in Statements
  <2>1. tree[s].parent < s /\ tree[s].parent \in Nat /\ (tree[s].parent = 0 <=> s = 1)
    BY NodeFields DEF TreeInv
  <2>2. tree[s].part \in Parts
    BY NodeFields
  <2> HIDE DEF N
  <2> QED BY <1>1, <2>1, <2>2
<1> HIDE DEF N
<1> DEFINE Step(f, s) ==
      IF s = 1 THEN 1 ELSE f[tree[s].parent] + Levels(tree[s].parent, tree[s].part)
<1> DEFINE Solves(f, k) == DOMAIN f = Statements /\ \A s \in Statements : s <= k => f[s] = Step(f, s)
<1> DEFINE T == {k \in 0 .. N : ~ \E f : Solves(f, k)}
<1>3. T = {}
  <2>1. SUFFICES ASSUME T # {} PROVE FALSE
    OBVIOUS
  <2>2. PICK k \in T : \A j \in T : k <= j
    <3>1. T \in SUBSET Nat
      OBVIOUS
    <3> HIDE DEF T
    <3> QED BY <2>1, <3>1, LeastNat
  <2>3. k # 0
    <3> DEFINE f == [s \in Statements |-> 0]
    <3>1. Solves(f, 0)
      BY <1>1
    <3> HIDE DEF Solves, f
    <3> QED BY <2>2, <3>1
  <2>4. k \in Statements /\ k \in Nat /\ k - 1 \in 0 .. N /\ ~(k <= k - 1)
    BY <1>1, <2>2, <2>3
  <2>5. PICK f : Solves(f, k - 1)
    <3>1. k - 1 \notin T
      <4> HIDE DEF T
      <4> QED BY <2>2, <2>4
    <3> HIDE DEF Solves
    <3> QED BY <2>4, <3>1
  <2> DEFINE g == [f EXCEPT ![k] = Step(f, k)]
  <2>6. DOMAIN g = Statements /\ g[k] = Step(f, k) /\ \A s \in Statements : s # k => g[s] = f[s]
    BY <2>4, <2>5
  <2> HIDE DEF g
  <2>7. ASSUME NEW s \in Statements, s <= k PROVE g[s] = Step(g, s)
    <3>1. s # 1 => g[tree[s].parent] = f[tree[s].parent]
      <4>1. s # 1 => tree[s].parent \in Statements /\ tree[s].parent < s
        BY <1>2
      <4>2. tree[s].parent < s => tree[s].parent # k
        BY <1>2, <2>4, <2>7
      <4> QED BY <2>6, <4>1, <4>2
    <3>2. Step(g, s) = Step(f, s)
      BY <3>1
    <3> HIDE DEF Step
    <3>3. CASE s = k
      BY <2>6, <3>2, <3>3
    <3>4. CASE s # k
      <4>1. s <= k - 1
        BY <1>2, <2>4, <2>7, <3>4
      <4> QED BY <2>5, <2>6, <3>2, <3>4, <4>1
    <3> QED BY <3>3, <3>4
  <2>8. Solves(g, k)
    BY <2>6, <2>7
  <2> HIDE DEF Solves
  <2> QED BY <2>2, <2>8
<1>4. PICK f : Solves(f, N)
  <2>1. N \in 0 .. N
    BY <1>1
  <2> HIDE DEF Solves
  <2> QED BY <1>3, <2>1
<1>5. Depths = CHOOSE a : a = [s \in Statements |-> Step(a, s)]
  BY DEF Depths
<1>6. \E a : a = [s \in Statements |-> Step(a, s)]
  <2> DEFINE g == [s \in Statements |-> f[s]]
  <2>1. \A s \in Statements : g[s] = Step(f, s)
    BY <1>1, <1>4
  <2>2. \A s \in Statements : Step(g, s) = Step(f, s)
    BY <1>2
  <2>3. g = [s \in Statements |-> Step(g, s)]
    <3>1. \A s \in Statements : g[s] = Step(g, s)
      BY <2>1, <2>2
    <3>2. g = [s \in Statements |-> g[s]]
      OBVIOUS
    <3> HIDE DEF g, Step
    <3> QED BY <3>1, <3>2
  <2> HIDE DEF g
  <2> QED BY <2>3
<1>7. PICK a : a = Depths
  OBVIOUS
<1>8. a = [s \in Statements |-> Step(a, s)]
  <2> HIDE DEF Step
  <2> QED BY <1>5, <1>6, <1>7
<1>9. \A s \in Statements : a[s] = Step(a, s)
  <2> HIDE DEF Step
  <2> QED BY <1>8
<1> DEFINE B == {s \in Statements : a[s] \notin Nat}
<1>10. B = {}
  <2>1. SUFFICES ASSUME B # {} PROVE FALSE
    OBVIOUS
  <2>2. PICK s \in B : \A t \in B : s <= t
    <3>1. B \in SUBSET Nat
      BY <1>1
    <3> HIDE DEF B
    <3> QED BY <2>1, <3>1, LeastNat
  <2>3. s # 1
    BY <1>9, <2>2
  <2>4. tree[s].parent \in Statements /\ ~(s <= tree[s].parent) /\ tree[s].part \in Parts
    BY <1>2, <2>2, <2>3
  <2>5. a[tree[s].parent] \in Nat
    BY <2>2, <2>4
  <2>6. Levels(tree[s].parent, tree[s].part) \in Nat
    BY <2>4, LevelsType
  <2>7. a[s] = a[tree[s].parent] + Levels(tree[s].parent, tree[s].part)
    BY <1>9, <2>2, <2>3
  <2> QED BY <2>2, <2>5, <2>6, <2>7
<1> QED BY <1>7, <1>9, <1>10

\* A statement is no deeper than those in it.
LEMMA AboveLess ==
  ASSUME TreeInv
  PROVE  \A s \in Statements : \A x \in Above[s] : Depths[x] <= Depths[s]
<1> DEFINE B == {s \in Statements : \E x \in Above[s] : ~(Depths[x] <= Depths[s])}
<1>1. SUFFICES ASSUME B # {} PROVE FALSE
  OBVIOUS
<1>2. Statements \subseteq Nat
  BY DEF TreeInv, Statements
<1>3. PICK s \in B : \A t \in B : s <= t
  <2>1. B \in SUBSET Nat
    BY <1>2
  <2> HIDE DEF B
  <2> QED BY <1>1, <2>1, LeastNat
<1>4. PICK x \in Above[s] : ~(Depths[x] <= Depths[s])
  BY <1>3
<1>5. s \in Statements /\ x \in Statements /\ Depths[s] \in Nat /\ Depths[x] \in Nat
  <2>1. s \in Statements
    BY <1>3
  <2> QED BY <2>1, <1>4, AboveAre, DepthsAre
<1>6. x # s
  BY <1>4, <1>5
<1>7. tree[s].parent # 0 /\ x \in Above[tree[s].parent]
  BY <1>4, <1>5, <1>6, AboveAre
<1>8. s # 1 /\ tree[s].parent < s /\ tree[s].parent \in Nat /\ tree[s].part \in Parts
  BY <1>5, <1>7, NodeFields DEF TreeInv
<1>9. tree[s].parent \in Statements /\ s \in Nat
  <2>1. Statements = 1 .. Len(tree) /\ Len(tree) \in Nat
    BY DEF TreeInv, Statements
  <2> QED BY <1>5, <1>7, <1>8, <2>1
<1>10. ~(s <= tree[s].parent)
  BY <1>8, <1>9
<1>11. Depths[x] <= Depths[tree[s].parent]
  BY <1>3, <1>7, <1>9, <1>10
<1>12. /\ Depths[s] = Depths[tree[s].parent] + Levels(tree[s].parent, tree[s].part)
       /\ Depths[tree[s].parent] \in Nat /\ Levels(tree[s].parent, tree[s].part) \in Nat
  BY <1>5, <1>8, <1>9, DepthsAre, LevelsType
<1> QED BY <1>4, <1>5, <1>11, <1>12

\* A truncation, where it is and what it would save.
IsTarget(t, s) ==
  /\ t.of = <<s, "target">> /\ t.depth = Depths[s]
  /\ t.length = Bytes(TargetList(s, Texts({})))
IsWhere(t, s) ==
  /\ t.of = <<s, "where">> /\ t.depth = Depths[s] + ConflictLevels(s)
  /\ t.length = Bytes(Where(s, Texts({})))
IsCte(t, s) ==
  /\ t.of = <<s, "cte">> /\ t.depth = Depths[s] - 1
  /\ t.length = Bytes(Texts({})[s]) /\ tree[s].part = "cte"

LEMMA PossibleAre ==
  ASSUME NEW t \in PossibleTruncations
  PROVE  /\ \E s \in Statements : IsTarget(t, s) \/ IsWhere(t, s) \/ IsCte(t, s)
         /\ t.length > 3
<1> DEFINE targets == {[of |-> <<s, "target">>, depth |-> Depths[s],
                        length |-> Bytes(TargetList(s, Texts({})))] : s \in Statements}
<1> DEFINE wheres == {[of |-> <<s, "where">>, depth |-> Depths[s] + ConflictLevels(s),
                       length |-> Bytes(Where(s, Texts({})))] : s \in Statements}
<1> DEFINE ctes == {[of |-> <<s, "cte">>, depth |-> Depths[s] - 1,
                     length |-> Bytes(Texts({})[s])] : s \in {c \in Statements : tree[c].part = "cte"}}
<1>1. t \in targets \cup wheres \cup ctes /\ t.length > 3
  BY DEF PossibleTruncations, Shorter
<1>2. CASE t \in targets
  <2>1. PICK s \in Statements : t = [of |-> <<s, "target">>, depth |-> Depths[s],
                                     length |-> Bytes(TargetList(s, Texts({})))]
    BY <1>2
  <2>2. IsTarget(t, s)
    BY <2>1 DEF IsTarget
  <2> QED BY <1>1, <2>2
<1>3. CASE t \in wheres
  <2>1. PICK s \in Statements : t = [of |-> <<s, "where">>, depth |-> Depths[s] + ConflictLevels(s),
                                     length |-> Bytes(Where(s, Texts({})))]
    BY <1>3
  <2>2. IsWhere(t, s)
    BY <2>1 DEF IsWhere
  <2> QED BY <1>1, <2>2
<1>4. CASE t \in ctes
  <2>1. PICK s \in Statements : /\ tree[s].part = "cte"
                                /\ t = [of |-> <<s, "cte">>, depth |-> Depths[s] - 1,
                                        length |-> Bytes(Texts({})[s])]
    BY <1>4
  <2>2. IsCte(t, s)
    BY <2>1 DEF IsCte
  <2> QED BY <1>1, <2>2
<1> QED BY <1>1, <1>2, <1>3, <1>4

\* What removes the rest of a truncation is less deep.
LEMMA WithinLessDeep ==
  ASSUME TreeInv, NEW t \in PossibleTruncations, NEW u \in PossibleTruncations,
         Within(t.of, u.of)
  PROVE  u.depth < t.depth
<1>1. PICK a \in Statements : IsTarget(t, a) \/ IsWhere(t, a) \/ IsCte(t, a)
  BY PossibleAre
<1>2. PICK b \in Statements : IsTarget(u, b) \/ IsWhere(u, b) \/ IsCte(u, b)
  BY PossibleAre
<1>3. t.of[1] = a /\ u.of[1] = b /\ t.of # u.of
  BY <1>1, <1>2 DEF IsTarget, IsWhere, IsCte, Within
<1>4. PICK s \in Above[a] : u.of = <<s, "cte">> \/ u.of = <<tree[s].parent, tree[s].part>>
  BY <1>3 DEF Within
<1>5. /\ Depths[a] \in Nat /\ Depths[b] \in Nat /\ Depths[s] \in Nat /\ Depths[s] <= Depths[a]
      /\ s \in Statements
  <2>1. s \in Statements
    BY <1>4, AboveAre
  <2> QED BY <2>1, <1>4, AboveLess, DepthsAre
<1>6. t.depth \in Int /\ t.depth >= Depths[a] - 1 /\ (~IsCte(t, a) => t.depth >= Depths[a])
  <2>1. ConflictLevels(a) \in {0, 2}
    BY LevelsType DEF Parts
  <2> QED BY <1>1, <1>5, <2>1 DEF IsTarget, IsWhere, IsCte
<1>7. ASSUME u.of = <<tree[s].parent, tree[s].part>>
      PROVE  u.depth < t.depth
  <2>1. tree[s].parent = b
    BY <1>3, <1>7
  <2>2. s # 1 /\ tree[s].part \in Parts
    <3>1. b # 0
      BY <1>2 DEF TreeInv, Statements
    <3> QED BY <2>1, <3>1, <1>5, NodeFields DEF TreeInv
  <2>3. Depths[s] = Depths[b] + Levels(b, tree[s].part)
    BY <1>5, <2>1, <2>2, DepthsAre
  <2>4. PICK l : l = Levels(b, tree[s].part)
    OBVIOUS
  <2>5. PICK c : c = ConflictLevels(b)
    OBVIOUS
  <2>6. /\ c \in {0, 2} /\ l \in 1 .. 6
        /\ tree[s].part = "target" => l = 4
        /\ tree[s].part = "cte" => l = 4
        /\ tree[s].part = "where" => l >= c + 2
    BY <2>2, <2>4, <2>5, LevelsType
  <2>7. u.depth < Depths[s] - 1 /\ u.depth \in Int
    <3>1. CASE IsTarget(u, b)
      <4>1. tree[s].part = "target" /\ u.depth = Depths[b]
        BY <1>7, <3>1 DEF IsTarget
      <4> QED BY <1>5, <2>3, <2>4, <2>6, <4>1
    <3>2. CASE IsWhere(u, b)
      <4>1. tree[s].part = "where" /\ u.depth = Depths[b] + c
        BY <1>7, <2>5, <3>2 DEF IsWhere
      <4> QED BY <1>5, <2>3, <2>4, <2>6, <4>1
    <3>3. CASE IsCte(u, b)
      <4>1. tree[s].part = "cte" /\ u.depth = Depths[b] - 1
        BY <1>7, <3>3 DEF IsCte
      <4> QED BY <1>5, <2>3, <2>4, <2>6, <4>1
    <3> QED BY <1>2, <3>1, <3>2, <3>3
  <2> QED BY <1>5, <1>6, <2>7
<1>8. ASSUME u.of = <<s, "cte">>
      PROVE  u.depth < t.depth
  <2>1. s = b /\ u.depth = Depths[s] - 1
    <3>1. s = b
      BY <1>3, <1>8
    <3>2. IsCte(u, b)
      BY <1>2, <1>8 DEF IsTarget, IsWhere
    <3> QED BY <3>1, <3>2 DEF IsCte
  <2>2. CASE ~IsCte(t, a)
    BY <1>5, <1>6, <2>1, <2>2
  <2>3. CASE IsCte(t, a)
    <3>1. s # a
      BY <1>3, <1>8, <2>3 DEF IsCte
    <3>2. tree[a].parent # 0 /\ s \in Above[tree[a].parent]
      BY <1>4, <3>1, AboveAre
    <3>3. a # 1 /\ tree[a].parent \in Statements /\ tree[a].part \in Parts
      <4>1. /\ tree[a].parent < a /\ tree[a].parent \in Nat /\ tree[a].part \in Parts
            /\ (tree[a].parent = 0 <=> a = 1)
        BY NodeFields DEF TreeInv
      <4>2. Statements = 1 .. Len(tree) /\ Len(tree) \in Nat
        BY DEF TreeInv, Statements
      <4> QED BY <3>2, <4>1, <4>2
    <3>4. Depths[s] <= Depths[tree[a].parent] /\ Depths[tree[a].parent] \in Nat
      BY <3>2, <3>3, AboveLess, DepthsAre
    <3>5. Depths[a] = Depths[tree[a].parent] + Levels(tree[a].parent, tree[a].part)
      BY <3>3, DepthsAre
    <3>6. Levels(tree[a].parent, tree[a].part) \in 1 .. 6
      BY <3>3, LevelsType
    <3>7. Depths[s] < Depths[a]
      BY <1>5, <3>4, <3>5, <3>6
    <3>8. t.depth = Depths[a] - 1
      BY <2>3 DEF IsCte
    <3> QED BY <1>5, <2>1, <3>7, <3>8
  <2> QED BY <2>2, <2>3
<1> QED BY <1>4, <1>7, <1>8

\* The rounds go from the deepest truncations to the least deep ones, each on the text that
\* those before it left.
RoundsInv ==
  /\ limit \in Limits \cup {NoTruncation, -2}
  /\ pc \in {"parse", "walk"} => limit = NoTruncation
  /\ pc \in {"parse", "walk", "truncate"} => cut = {} /\ truncations = {}
  /\ truncations \subseteq PossibleTruncations
  /\ \A a \in cut : \E u \in PossibleTruncations :
       u.of = a /\ \A t \in truncations : t.depth <= u.depth
  /\ pc = "apply" => output = Query(cut)
  /\ TextFits

LEMMA DepthType ==
  ASSUME TreeInv, NEW t \in PossibleTruncations
  PROVE  t.depth \in Int
<1>1. PICK s \in Statements : IsTarget(t, s) \/ IsWhere(t, s) \/ IsCte(t, s)
  BY PossibleAre
<1>2. Depths[s] \in Nat /\ ConflictLevels(s) \in {0, 2}
  BY DepthsAre, LevelsType DEF Parts
<1> QED BY <1>1, <1>2 DEF IsTarget, IsWhere, IsCte

LEMMA QueryType ==
  ASSUME TreeInv, 1 \in Statements, NEW x
  PROVE  Query(x) \in Text
BY TextsAre DEF Query

LEMMA LimitType ==
  ASSUME limit \in Limits \cup {NoTruncation, -2}
  PROVE  limit \in Int /\ (limit >= 0 => limit \in Nat)
BY SummaryAssumption DEF NoTruncation

\* Steps that leave the truncations alone.
LEMMA RoundsStay ==
  ASSUME RoundsInv, UNCHANGED <<tree, truncation, pc, limit>>
  PROVE  RoundsInv'
<1>1. tree' = tree /\ truncations' = truncations /\ cut' = cut /\ output' = output
      /\ pc' = pc /\ limit' = limit
  BY DEF truncation
<1>2. /\ PossibleTruncations' = PossibleTruncations
      /\ Query(cut)' = Query(cut)
  <2>1. PICK x : x = cut
    OBVIOUS
  <2> QED BY <2>1, <1>1, SamePossible, QueryNext
<1> QED BY <1>1, <1>2 DEF RoundsInv, TextFits

LEMMA TruncateKeeps ==
  ASSUME TreeInv, 1 \in Statements, RoundsInv, Truncate
  PROVE  RoundsInv'
<1>1. /\ pc = "truncate" /\ output' = Query({}) /\ tree' = tree /\ cut' = cut /\ limit' = limit
      /\ cut = {} /\ truncations = {}
  BY DEF Truncate, RoundsInv
<1>2. PossibleTruncations' = PossibleTruncations /\ Query(cut)' = Query({})
  BY <1>1, SamePossible, QueryNext
<1>3. truncations' \subseteq PossibleTruncations
  BY <1>1 DEF Truncate
<1>4. pc' \in {"apply", "done"}
  BY DEF Truncate
<1>5. TextFits'
  <2>1. SUFFICES ASSUME pc' = "done", limit >= 3 PROVE Len(output') <= limit
    BY <1>1 DEF TextFits
  <2>2. Bytes(output') <= limit
    BY <2>1 DEF Truncate
  <2>3. output' \in Text /\ limit \in Nat
    BY <1>1, <2>1, QueryType, LimitType DEF RoundsInv
  <2>4. PICK o : o = output'
    OBVIOUS
  <2> QED BY <2>2, <2>3, <2>4, FitsInBytes
<1> QED BY <1>1, <1>2, <1>3, <1>4, <1>5 DEF RoundsInv

LEMMA ApplyTruncationKeeps ==
  ASSUME TreeInv, 1 \in Statements, RoundsInv, ApplyTruncation
  PROVE  RoundsInv'
<1>1. PICK t \in truncations :
        /\ \A u \in truncations : NotAfter(t, u)
        /\ truncations' = truncations \ {t} /\ cut' = cut \cup {t.of}
  BY DEF ApplyTruncation
<1>2. /\ pc = "apply" /\ pc' \in {"apply", "done"} /\ tree' = tree /\ limit' = limit
      /\ output' = Query(cut')
      /\ (pc' = "done" => limit < 0 \/ Bytes(output') <= limit)
  BY DEF ApplyTruncation
<1>3. PICK x : x = cut'
  OBVIOUS
<1>4. PossibleTruncations' = PossibleTruncations /\ Query(cut)' = Query(x) /\ output' = Query(x)
  BY <1>2, <1>3, SamePossible, QueryNext
<1>5. t \in PossibleTruncations /\ truncations' \subseteq PossibleTruncations
  BY <1>1 DEF RoundsInv
<1>6. ASSUME NEW u \in truncations PROVE u.depth <= t.depth
  <2>1. NotAfter(t, u) /\ u \in PossibleTruncations
    BY <1>1 DEF RoundsInv
  <2>2. u.depth \in Int /\ t.depth \in Int
    BY <1>5, <2>1, DepthType
  <2> QED BY <2>1, <2>2 DEF NotAfter
<1>7. \A a \in cut' : \E u \in PossibleTruncations :
        u.of = a /\ \A v \in truncations' : v.depth <= u.depth
  <2> TAKE a \in cut'
  <2>1. CASE a = t.of
    BY <1>1, <1>5, <1>6, <2>1
  <2>2. CASE a \in cut
    BY <1>1, <2>2 DEF RoundsInv
  <2> QED BY <1>1, <2>1, <2>2
<1>8. TextFits'
  <2>1. SUFFICES ASSUME pc' = "done", limit >= 3 PROVE Len(output') <= limit
    BY <1>2 DEF TextFits
  <2>2. limit \in Nat
    BY <2>1, LimitType DEF RoundsInv
  <2>3. Bytes(output') <= limit
    BY <1>2, <2>1, <2>2
  <2>4. PICK o : o = output'
    OBVIOUS
  <2>5. o \in Text
    BY <1>4, <2>4, QueryType
  <2> QED BY <2>2, <2>3, <2>4, <2>5, FitsInBytes
<1> QED BY <1>2, <1>4, <1>5, <1>7, <1>8 DEF RoundsInv

LEMMA TruncateHardKeeps ==
  ASSUME TreeInv, 1 \in Statements, RoundsInv, TruncateHard
  PROVE  RoundsInv'
<1>1. /\ pc = "apply" /\ pc' = "done" /\ truncations' = truncations /\ cut' = cut /\ tree' = tree
      /\ limit' = limit /\ output' = TruncateMbstr(output, limit)
  BY DEF TruncateHard
<1>2. PossibleTruncations' = PossibleTruncations
  BY <1>1, SamePossible
<1>3. TextFits'
  <2>1. SUFFICES ASSUME limit >= 3 PROVE Len(output') <= limit
    BY <1>1 DEF TextFits
  <2>2. limit \in Nat
    BY <2>1, LimitType DEF RoundsInv
  <2>3. output \in Text
    BY <1>1, QueryType DEF RoundsInv
  <2> QED BY <1>1, <2>1, <2>2, <2>3, CutFits
<1> QED BY <1>1, <1>2, <1>3 DEF RoundsInv

LEMMA RoundsKept ==
  ASSUME IInv, RoundsInv, [Next]_vars
  PROVE  RoundsInv'
<1>1. TreeInv /\ (pc # "parse" => 1 \in Statements)
  BY DEF IInv, WalkInv
<1>2. CASE Truncate
  BY <1>1, <1>2, TruncateKeeps DEF Truncate
<1>3. CASE ApplyTruncation
  BY <1>1, <1>3, ApplyTruncationKeeps DEF ApplyTruncation
<1>4. CASE TruncateHard
  BY <1>1, <1>4, TruncateHardKeeps DEF TruncateHard
<1>5. CASE ParseNode \/ Parsed \/ WalkEnds
  <2>1. /\ pc \in {"parse", "walk"} /\ cut' = {} /\ truncations' = {}
        /\ limit' \in Limits \cup {NoTruncation, -2}
    BY <1>5 DEF ParseNode, Parsed, WalkEnds, truncation, RoundsInv
  <2>2. pc' \in {"parse", "walk"} => limit' = NoTruncation
    BY <1>5 DEF ParseNode, Parsed, WalkEnds, RoundsInv
  <2>3. pc' \in {"parse", "walk", "truncate", "done"} /\ (pc' = "done" => limit' = NoTruncation)
    BY <1>5 DEF ParseNode, Parsed, WalkEnds
  <2>4. TextFits'
    BY <2>3 DEF TextFits, NoTruncation
  <2> QED BY <2>1, <2>2, <2>3, <2>4 DEF RoundsInv
<1>6. CASE VisitStmt \/ WhereSaved \/ VisitCommonTableExpr \/ VisitColumnRef \/ HandleRangeVar
  <2>1. UNCHANGED <<tree, truncation, pc, limit>>
    BY <1>6 DEF VisitStmt, WhereSaved, VisitCommonTableExpr, VisitColumnRef, HandleRangeVar
  <2> QED BY <2>1, RoundsStay
<1>7. CASE UNCHANGED vars
  <2>1. UNCHANGED <<tree, truncation, pc, limit>>
    BY <1>7 DEF vars
  <2> QED BY <2>1, RoundsStay
<1> QED BY <1>2, <1>3, <1>4, <1>5, <1>6, <1>7 DEF Next

\* Rounds go from the deepest truncations to the least deep ones.
THEOREM RoundsInvariance == Spec => []RoundsInv
<1>1. Init => RoundsInv
  BY DEF Init, RoundsInv, TextFits, NoTruncation
<1>2. IInv /\ RoundsInv /\ [Next]_vars => RoundsInv'
  BY RoundsKept
<1> QED BY <1>1, <1>2, WalkInvariance, PTL DEF Spec

\* The truncated query is no longer than the limit, in characters.
THEOREM TextFitsTheorem == Spec => []TextFits
<1>1. RoundsInv => TextFits
  BY DEF RoundsInv
<1> QED BY <1>1, RoundsInvariance, PTL

LEMMA RoundIsDeepest ==
  ASSUME IInv, RoundsInv, [Next]_vars
  PROVE  [\A a \in cut' \ cut, b \in cut : ~Within(a, b)]_cut
<1>1. SUFFICES ASSUME cut' # cut PROVE \A a \in cut' \ cut, b \in cut : ~Within(a, b)
  OBVIOUS
<1>2. ApplyTruncation
  BY <1>1 DEF Next, vars, truncation, ParseNode, Parsed, VisitStmt, WhereSaved,
     VisitCommonTableExpr, VisitColumnRef, HandleRangeVar, WalkEnds, Truncate, TruncateHard
<1>3. PICK t \in truncations :
        /\ \A u \in truncations : NotAfter(t, u)
        /\ truncations' = truncations \ {t} /\ cut' = cut \cup {t.of}
  BY <1>2 DEF ApplyTruncation
<1>4. SUFFICES ASSUME NEW b \in cut, Within(t.of, b) PROVE FALSE
  BY <1>3
<1>5. PICK u \in PossibleTruncations : u.of = b /\ \A v \in truncations : v.depth <= u.depth
  BY <1>4 DEF RoundsInv
<1>6. t \in PossibleTruncations /\ t.depth <= u.depth /\ TreeInv
  BY <1>3, <1>5 DEF RoundsInv, IInv
<1>7. u.depth < t.depth
  BY <1>4, <1>5, <1>6, WithinLessDeep
<1>8. t.depth \in Int /\ u.depth \in Int
  BY <1>5, <1>6, DepthType
<1> QED BY <1>6, <1>7, <1>8

\* The deepest part is cut first: no round is spent on a part that is gone already.
THEOREM DeepestFirstTheorem == Spec => DeepestFirst
<1>1. IInv /\ RoundsInv /\ [Next]_vars => [\A a \in cut' \ cut, b \in cut : ~Within(a, b)]_cut
  BY RoundIsDeepest
<1> QED BY <1>1, WalkInvariance, RoundsInvariance, PTL DEF Spec, DeepestFirst

-----------------------------------------------------------------------------
(* The bytes of what texts are made of.                                      *)

LEMMA WideSet ==
  ASSUME NEW text \in Text
  PROVE  /\ DOMAIN text = 1 .. Len(text) /\ Len(text) \in Nat
         /\ Wide(text, DOMAIN text) \subseteq 1 .. Len(text)
         /\ IsFiniteSet(Wide(text, DOMAIN text))
<1>1. DOMAIN text = 1 .. Len(text) /\ Len(text) \in Nat
  BY DEF Text
<1>2. IsFiniteSet(1 .. Len(text))
  BY <1>1, FS_Interval
<1>3. Wide(text, DOMAIN text) \subseteq 1 .. Len(text)
  BY <1>1 DEF Wide
<1> QED BY <1>1, <1>2, <1>3, FS_Subset

LEMMA ConcatBytes ==
  ASSUME NEW a \in Text, NEW b \in Text
  PROVE  a \o b \in Text /\ Bytes(a \o b) = Bytes(a) + Bytes(b)
<1> DEFINE u == a \o b
<1> DEFINE n == Len(a)
<1> DEFINE m == Len(b)
<1> DEFINE A == Wide(a, DOMAIN a)
<1> DEFINE B == Wide(b, DOMAIN b)
<1> DEFINE C == Wide(u, DOMAIN u) \ A
<1>1. /\ u \in Text /\ Len(u) = n + m /\ DOMAIN u = 1 .. n + m
      /\ \A k \in 1 .. n : u[k] = a[k]
      /\ \A k \in n + 1 .. n + m : u[k] = b[k - n]
      /\ DOMAIN a = 1 .. n /\ DOMAIN b = 1 .. m /\ n \in Nat /\ m \in Nat
  <2> DEFINE W == 1 .. 2
  <2>1. a \in Seq(W) /\ b \in Seq(W)
    BY DEF Text
  <2> HIDE DEF W
  <2>2. /\ u \in Seq(W) /\ Len(u) = n + m /\ DOMAIN u = 1 .. n + m
        /\ \A k \in 1 .. n : u[k] = a[k]
        /\ \A k \in n + 1 .. n + m : u[k] = b[k - n]
        /\ DOMAIN a = 1 .. n /\ DOMAIN b = 1 .. m /\ n \in Nat /\ m \in Nat
    BY <2>1, Concat
  <2> HIDE DEF u, n, m
  <2> QED BY <2>2 DEF W, Text
<1> HIDE DEF u, n, m
<1>2. A \subseteq Wide(u, DOMAIN u)
  BY <1>1 DEF Wide
<1>3. C = {k \in n + 1 .. n + m : b[k - n] = 2}
  <2>1. \A k \in 1 .. n + m : k \in 1 .. n \/ k \in n + 1 .. n + m
    BY <1>1
  <2>2. \A k \in n + 1 .. n + m : k \in 1 .. n + m /\ k \notin 1 .. n
    BY <1>1
  <2> QED BY <1>1, <2>1, <2>2 DEF Wide
<1>4. IsFiniteSet(A) /\ IsFiniteSet(B) /\ IsFiniteSet(Wide(u, DOMAIN u)) /\ IsFiniteSet(C)
  BY <1>1, WideSet, FS_Subset
<1>5. B = {k \in 1 .. m : b[k] = 2}
  BY <1>1 DEF Wide
<1>6. Cardinality(C) = Cardinality(B)
  <2> DEFINE f == [k \in B |-> k + n]
  <2> HIDE DEF B, C
  <2>1. \A k \in B : k \in 1 .. m /\ b[k] = 2
    BY <1>5
  <2>2. \A k \in B : k + n \in C
    <3> TAKE k \in B
    <3>1. k \in 1 .. m /\ b[k] = 2
      BY <2>1
    <3>2. PICK j : j = k + n
      OBVIOUS
    <3>3. j \in n + 1 .. n + m /\ j - n = k
      BY <1>1, <3>1, <3>2
    <3>4. j \in C
      BY <1>3, <3>1, <3>3
    <3> QED BY <3>2, <3>4
  <2>3. \A k \in C : k - n \in B /\ (k - n) + n = k
    <3> TAKE k \in C
    <3>1. k \in n + 1 .. n + m /\ b[k - n] = 2
      BY <1>3
    <3>2. k - n \in 1 .. m /\ (k - n) + n = k
      BY <1>1, <3>1
    <3> QED BY <1>5, <3>1, <3>2
  <2>4. f \in [B -> C]
    BY <2>2
  <2>5. \A k, l \in B : f[k] = f[l] => k = l
    BY <1>1, <2>1
  <2>6. \A y \in C : \E k \in B : f[k] = y
    BY <2>3
  <2> HIDE DEF f
  <2>7. f \in Bijection(B, C)
    BY <2>4, <2>5, <2>6 DEF Bijection, Injection, Surjection, IsInjective
  <2>8. ExistsBijection(B, C)
    BY <2>7 DEF ExistsBijection
  <2> QED BY <1>4, <2>8, FS_Bijection
<1>7. Wide(u, DOMAIN u) = A \cup C /\ A \cap C = {}
  BY <1>2
<1>8. Cardinality(Wide(u, DOMAIN u)) = Cardinality(A) + Cardinality(B)
  <2> HIDE DEF A, B, C
  <2>1. Cardinality(A \cup C) = Cardinality(A) + Cardinality(C) - Cardinality(A \cap C)
    BY <1>4, FS_Union
  <2>2. Cardinality(A) \in Nat /\ Cardinality(B) \in Nat
    BY <1>4, FS_CardinalityType
  <2>3. Cardinality(A \cap C) = 0
    BY <1>7, FS_EmptySet
  <2>4. Cardinality(A \cup C) = Cardinality(Wide(u, DOMAIN u))
    BY <1>7
  <2> QED BY <1>6, <2>1, <2>2, <2>3, <2>4
<1>9. /\ Bytes(u) = (n + m) + Cardinality(Wide(u, DOMAIN u))
      /\ Bytes(a) = n + Cardinality(A) /\ Bytes(b) = m + Cardinality(B)
      /\ Cardinality(A) \in Nat /\ Cardinality(B) \in Nat
  <2>1. u \in Text /\ Len(u) = n + m
    BY <1>1
  <2> QED BY <2>1, BytesAre DEF n, m
<1> HIDE DEF A, B, C
<1> QED BY <1>1, <1>8, <1>9 DEF u

LEMMA AsciiBytes ==
  ASSUME NEW n \in Nat
  PROVE  Ascii(n) \in Text /\ Bytes(Ascii(n)) = n
<1>1. Ascii(n) \in Text /\ Len(Ascii(n)) = n /\ DOMAIN Ascii(n) = 1 .. n
      /\ \A i \in 1 .. n : Ascii(n)[i] = 1
  BY AsciiType DEF Ascii
<1>2. Wide(Ascii(n), DOMAIN Ascii(n)) = {}
  BY <1>1 DEF Wide
<1>3. Cardinality(Wide(Ascii(n), DOMAIN Ascii(n))) = 0
  BY <1>2, FS_EmptySet
<1>4. Bytes(Ascii(n)) = Len(Ascii(n)) + Cardinality(Wide(Ascii(n), DOMAIN Ascii(n)))
  BY <1>1, BytesAre
<1> QED BY <1>1, <1>3, <1>4

LEMMA SomeBytes ==
  /\ Bytes(<<>>) = 0 /\ Bytes(Dots) = 3 /\ Bytes(ConditionText) >= 4
  /\ \A s : Bytes(TargetText(s)) >= 1
<1>1. Bytes(Dots) = 3
  BY AsciiBytes DEF Dots
<1>2. <<>> = Ascii(0)
  <2>1. 1 .. 0 = {} /\ DOMAIN <<>> = {} /\ DOMAIN Ascii(0) = 1 .. 0
    BY DEF Ascii
  <2>2. Ascii(0) \in Seq(1 .. 2) /\ Len(Ascii(0)) = 0
    BY AsciiType DEF Text
  <2> QED BY <2>2
<1>3. Bytes(<<>>) = 0
  BY <1>2, AsciiBytes
<1>4. Bytes(ConditionText) >= 4
  <2>1. ConditionText \in Text /\ Len(ConditionText) = 4
    BY CutTargetType DEF ConditionText
  <2> DEFINE c == ConditionText
  <2>2. c \in Text /\ Len(c) = 4
    BY <2>1
  <2> HIDE DEF c
  <2>3. /\ Bytes(c) = Len(c) + Cardinality(Wide(c, DOMAIN c))
        /\ Cardinality(Wide(c, DOMAIN c)) \in Nat
    BY <2>2, BytesAre
  <2>4. Bytes(c) >= 4
    BY <2>2, <2>3
  <2> QED BY <2>4 DEF c
<1>5. \A s : Bytes(TargetText(s)) >= 1
  BY AsciiBytes DEF TargetText
<1> QED BY <1>1, <1>3, <1>4, <1>5

LEMMA BytesType ==
  ASSUME NEW text \in Text
  PROVE  Bytes(text) \in Nat
BY BytesAre

\* The prefixes of the texts that FlattenSeq puts together.
LEMMA FlattenedTexts ==
  ASSUME NEW s \in Seq(Text)
  PROVE  \E f : /\ f \in [0 .. Len(s) -> Text] /\ f[0] = <<>> /\ f[Len(s)] = FlattenSeq(s)
                /\ \A i \in 1 .. Len(s) : /\ f[i] = f[i - 1] \o s[i]
                                          /\ Bytes(f[i]) = Bytes(f[i - 1]) + Bytes(s[i])
<1>1. s \in Seq(Seq(1 .. 2)) /\ Len(s) \in Nat /\ \A i \in 1 .. Len(s) : s[i] \in Text
  BY DEF Text
<1> DEFINE W == 1 .. 2
<1> HIDE DEF W
<1>2. PICK f : Sums(W, s, Len(s), f) /\ f[Len(s)] = FlattenSeq(s)
  BY <1>1, Flattened DEF W
<1>3. /\ f \in [0 .. Len(s) -> Text] /\ f[0] = <<>>
      /\ \A i \in 1 .. Len(s) : f[i] = f[i - 1] \o s[i]
  BY <1>2 DEF Sums, Text, W
<1>4. ASSUME NEW i \in 1 .. Len(s) PROVE Bytes(f[i]) = Bytes(f[i - 1]) + Bytes(s[i])
  <2>1. f[i - 1] \in Text /\ s[i] \in Text
    BY <1>1, <1>3
  <2> QED BY <1>3, <2>1, ConcatBytes
<1> QED BY <1>2, <1>3, <1>4

\* Sequences of texts, each of one no longer than that of the other; one of them shorter.
LEMMA FlattenLess ==
  ASSUME NEW s \in Seq(Text), NEW t \in Seq(Text), Len(s) = Len(t),
         \A i \in 1 .. Len(s) : Bytes(s[i]) <= Bytes(t[i])
  PROVE  /\ Bytes(FlattenSeq(s)) <= Bytes(FlattenSeq(t))
         /\ (\E k \in 1 .. Len(s) : Bytes(s[k]) < Bytes(t[k])) =>
              Bytes(FlattenSeq(s)) < Bytes(FlattenSeq(t))
<1> DEFINE n == Len(s)
<1>0. n \in Nat /\ n = Len(t) /\ \A i \in 1 .. n : s[i] \in Text /\ t[i] \in Text
  OBVIOUS
<1>1. PICK f : /\ f \in [0 .. n -> Text] /\ f[0] = <<>> /\ f[n] = FlattenSeq(s)
               /\ \A i \in 1 .. n : Bytes(f[i]) = Bytes(f[i - 1]) + Bytes(s[i])
  BY FlattenedTexts
<1>2. PICK g : /\ g \in [0 .. n -> Text] /\ g[0] = <<>> /\ g[n] = FlattenSeq(t)
               /\ \A i \in 1 .. n : Bytes(g[i]) = Bytes(g[i - 1]) + Bytes(t[i])
  BY <1>0, FlattenedTexts
<1>3. \A i \in 1 .. n : Bytes(s[i]) \in Nat /\ Bytes(t[i]) \in Nat /\ Bytes(s[i]) <= Bytes(t[i])
  BY <1>0, BytesType
<1>4. \A i \in 0 .. n : Bytes(f[i]) \in Nat /\ Bytes(g[i]) \in Nat
  BY <1>1, <1>2, BytesType
<1> HIDE DEF n
<1> DEFINE Less(i) == \E k \in 1 .. i : Bytes(s[k]) < Bytes(t[k])
<1> DEFINE P(i) == Bytes(f[i]) <= Bytes(g[i]) /\ (Less(i) => Bytes(f[i]) < Bytes(g[i]))
<1> DEFINE T == {i \in 0 .. n : ~P(i)}
<1>5. T = {}
  <2>1. SUFFICES ASSUME T # {} PROVE FALSE
    OBVIOUS
  <2>2. PICK i \in T : \A j \in T : i <= j
    <3>1. T \in SUBSET Nat
      OBVIOUS
    <3> HIDE DEF T
    <3> QED BY <2>1, <3>1, LeastNat
  <2>3. i # 0
    <3>1. Bytes(f[0]) = Bytes(g[0]) /\ Bytes(f[0]) \in Nat /\ ~Less(0)
      BY <1>0, <1>1, <1>2, <1>4
    <3>2. P(0)
      BY <3>1
    <3> HIDE DEF P
    <3> QED BY <2>2, <3>2
  <2>4. i \in 1 .. n /\ i - 1 \in 0 .. n /\ i \in 0 .. n /\ ~(i <= i - 1)
    BY <1>0, <2>2, <2>3
  <2>5. P(i - 1) /\ ~P(i)
    <3> HIDE DEF P
    <3> QED BY <2>2, <2>4
  <2>6. /\ Bytes(f[i]) = Bytes(f[i - 1]) + Bytes(s[i])
        /\ Bytes(g[i]) = Bytes(g[i - 1]) + Bytes(t[i])
    BY <1>1, <1>2, <2>4
  <2>7. /\ Bytes(f[i - 1]) \in Nat /\ Bytes(g[i - 1]) \in Nat
        /\ Bytes(s[i]) \in Nat /\ Bytes(t[i]) \in Nat /\ Bytes(s[i]) <= Bytes(t[i])
    BY <1>3, <1>4, <2>4
  <2>8. Less(i) => Less(i - 1) \/ Bytes(s[i]) < Bytes(t[i])
    <3>1. \A k \in 1 .. i : k \in 1 .. i - 1 \/ k = i
      BY <2>4
    <3> QED BY <3>1
  <2> HIDE DEF Less
  <2> QED BY <2>5, <2>6, <2>7, <2>8
<1>6. P(n)
  <2>1. n \in 0 .. n
    BY <1>0
  <2> HIDE DEF P
  <2> QED BY <1>5, <2>1
<1> QED BY <1>1, <1>2, <1>6 DEF n

\* A text in front of others and behind them.
LEMMA FlattenHas ==
  ASSUME NEW s \in Seq(Text), NEW k \in 1 .. Len(s)
  PROVE  Bytes(FlattenSeq(s)) >= Bytes(s[k])
<1> DEFINE n == Len(s)
<1>0. n \in Nat /\ k \in 1 .. n /\ \A i \in 1 .. n : s[i] \in Text
  OBVIOUS
<1>1. PICK f : /\ f \in [0 .. n -> Text] /\ f[0] = <<>> /\ f[n] = FlattenSeq(s)
               /\ \A i \in 1 .. n : Bytes(f[i]) = Bytes(f[i - 1]) + Bytes(s[i])
  BY FlattenedTexts
<1>2. /\ \A i \in 1 .. n : Bytes(s[i]) \in Nat
      /\ \A i \in 0 .. n : Bytes(f[i]) \in Nat
  BY <1>0, <1>1, BytesType
<1> HIDE DEF n
<1> DEFINE T == {i \in 0 .. n : k <= i /\ ~(Bytes(f[i]) >= Bytes(s[k]))}
<1>3. T = {}
  <2>1. SUFFICES ASSUME T # {} PROVE FALSE
    OBVIOUS
  <2>2. PICK i \in T : \A j \in T : i <= j
    <3>1. T \in SUBSET Nat
      OBVIOUS
    <3> HIDE DEF T
    <3> QED BY <2>1, <3>1, LeastNat
  <2>3. i \in 1 .. n /\ i - 1 \in 0 .. n /\ ~(i <= i - 1) /\ k <= i /\ (i # k => k <= i - 1)
    BY <1>0, <2>2
  <2>4. i # k => Bytes(f[i - 1]) >= Bytes(s[k])
    BY <2>2, <2>3
  <2>5. /\ Bytes(f[i]) = Bytes(f[i - 1]) + Bytes(s[i]) /\ Bytes(f[i - 1]) \in Nat
        /\ Bytes(s[i]) \in Nat /\ Bytes(s[k]) \in Nat /\ ~(Bytes(f[i]) >= Bytes(s[k]))
    BY <1>0, <1>1, <1>2, <2>2, <2>3
  <2> QED BY <2>4, <2>5
<1>4. n \in 0 .. n /\ k <= n
  BY <1>0
<1> QED BY <1>1, <1>3, <1>4

\* The bytes of a statement are those of its parts.
LEMMA TextBytes ==
  ASSUME TreeInv, NEW s \in Statements, NEW applied, NEW text \in [Statements -> Text]
  PROVE  Bytes(TextOf(applied, s, text)) =
           ((((Bytes(CtesOf(applied, s, text)) + 3) + Bytes(TargetsOf(applied, s, text)))
             + Bytes(Joined(Children(s, "from"), text))) + Bytes(Joined(Children(s, "query"), text)))
             + Bytes(WheresOf(applied, s, text))
<1>1. PICK c \in Text : c = CtesOf(applied, s, text)
  BY TextOfType
<1>2. PICK t \in Text : t = TargetsOf(applied, s, text)
  BY TextOfType
<1>3. PICK f \in Text : f = Joined(Children(s, "from"), text)
  BY TextOfType DEF Parts
<1>4. PICK q \in Text : q = Joined(Children(s, "query"), text)
  BY TextOfType DEF Parts
<1>5. PICK w \in Text : w = WheresOf(applied, s, text)
  BY TextOfType
<1>6. PICK d \in Text : d = Ascii(3) /\ Bytes(d) = 3
  BY AsciiBytes
<1>7. TextOf(applied, s, text) = c \o d \o t \o f \o q \o w
  BY <1>1, <1>2, <1>3, <1>4, <1>5, <1>6 DEF TextOf
<1>8. c \o d \in Text /\ Bytes(c \o d) = Bytes(c) + 3
  BY <1>6, ConcatBytes
<1>9. (c \o d) \o t \in Text /\ Bytes((c \o d) \o t) = Bytes(c \o d) + Bytes(t)
  BY <1>8, ConcatBytes
<1>10. ((c \o d) \o t) \o f \in Text /\ Bytes(((c \o d) \o t) \o f) = Bytes((c \o d) \o t) + Bytes(f)
  BY <1>9, ConcatBytes
<1>11. /\ (((c \o d) \o t) \o f) \o q \in Text
       /\ Bytes((((c \o d) \o t) \o f) \o q) = Bytes(((c \o d) \o t) \o f) + Bytes(q)
  BY <1>10, ConcatBytes
<1>12. Bytes(((((c \o d) \o t) \o f) \o q) \o w) = Bytes((((c \o d) \o t) \o f) \o q) + Bytes(w)
  BY <1>11, ConcatBytes
<1>13. TextOf(applied, s, text) = ((((c \o d) \o t) \o f) \o q) \o w
  BY <1>7
<1> QED BY <1>1, <1>2, <1>3, <1>4, <1>5, <1>8, <1>9, <1>10, <1>11, <1>12, <1>13

LEMMA PartBytes ==
  ASSUME TreeInv, NEW s \in Statements, NEW applied, NEW text \in [Statements -> Text]
  PROVE  /\ Bytes(CtesOf(applied, s, text)) \in Nat
         /\ Bytes(TargetsOf(applied, s, text)) \in Nat
         /\ Bytes(WheresOf(applied, s, text)) \in Nat
         /\ Bytes(Joined(Children(s, "from"), text)) \in Nat
         /\ Bytes(Joined(Children(s, "query"), text)) \in Nat
         /\ \A c \in Statements : Bytes(text[c]) \in Nat
<1>1. "from" \in Parts /\ "query" \in Parts
  BY DEF Parts
<1> QED BY <1>1, TextOfType, BytesType

\* A statement has three bytes at least, cut or not.
LEMMA ThreeBytes ==
  ASSUME TreeInv, NEW applied, NEW s \in Statements
  PROVE  Bytes(Texts(applied)[s]) \in Nat /\ Bytes(Texts(applied)[s]) >= 3
<1>1. PICK text \in [Statements -> Text] :
        text = Texts(applied) /\ text[s] = TextOf(applied, s, text)
  BY TextsAre
<1>2. Bytes(text[s]) \in Nat
  BY BytesType
<1> QED BY <1>1, <1>2, TextBytes, PartBytes

\* What a part's texts are put together from.
LEMMA JoinedSeq ==
  ASSUME TreeInv, NEW s \in Statements, NEW p \in Parts, NEW text \in [Statements -> Text]
  PROVE  \E j \in Seq(Text) :
           /\ Len(j) = Len(Children(s, p)) /\ DOMAIN Children(s, p) = 1 .. Len(j)
           /\ \A i \in 1 .. Len(j) : j[i] = text[Children(s, p)[i]] /\ Children(s, p)[i] \in Statements
           /\ Joined(Children(s, p), text) = FlattenSeq(j)
<1> DEFINE kids == Children(s, p)
<1>1. kids \in Seq(Statements)
  BY KidsAre
<1>2. Joined(kids, text) = FlattenSeq([i \in DOMAIN kids |-> text[kids[i]]])
  BY DEF Joined
<1> HIDE DEF kids
<1> DEFINE j == [i \in DOMAIN kids |-> text[kids[i]]]
<1>3. DOMAIN kids = 1 .. Len(kids) /\ Len(kids) \in Nat /\ \A i \in 1 .. Len(kids) : kids[i] \in Statements
  BY <1>1
<1>4. \A i \in 1 .. Len(kids) : text[kids[i]] \in Text
  BY <1>3
<1>5. j \in Seq(Text) /\ Len(j) = Len(kids) /\ \A i \in 1 .. Len(kids) : j[i] = text[kids[i]]
  BY <1>3, <1>4
<1> HIDE DEF j
<1>6. Joined(kids, text) = FlattenSeq(j)
  BY <1>2 DEF j
<1> QED BY <1>3, <1>5, <1>6 DEF kids

\* The CTEs of a statement one by one.
CtesAre(j, applied, s, text) ==
  /\ Len(j) = Len(Children(s, "cte")) /\ DOMAIN Children(s, "cte") = 1 .. Len(j)
  /\ \A i \in 1 .. Len(j) :
       /\ Children(s, "cte")[i] \in Statements
       /\ j[i] = IF <<Children(s, "cte")[i], "cte">> \in applied THEN Dots
                 ELSE text[Children(s, "cte")[i]]
  /\ CtesOf(applied, s, text) = FlattenSeq(j)

LEMMA CtesSeq ==
  ASSUME TreeInv, NEW s \in Statements, NEW applied, NEW text \in [Statements -> Text]
  PROVE  \E j \in Seq(Text) : CtesAre(j, applied, s, text)
<1> DEFINE kids == Children(s, "cte")
<1> DEFINE j == [i \in DOMAIN kids |->
                   IF <<kids[i], "cte">> \in applied THEN Dots ELSE text[kids[i]]]
<1>1. kids \in Seq(Statements)
  BY KidsAre DEF Parts
<1>2. CtesOf(applied, s, text) = FlattenSeq(j)
  BY DEF CtesOf
<1> HIDE DEF kids
<1>3. DOMAIN kids = 1 .. Len(kids) /\ Len(kids) \in Nat /\ \A i \in 1 .. Len(kids) : kids[i] \in Statements
  BY <1>1
<1>4. \A i \in 1 .. Len(kids) : text[kids[i]] \in Text /\ Dots \in Text
  BY <1>3, CutTargetType
<1>5. /\ j \in Seq(Text) /\ Len(j) = Len(kids)
      /\ \A i \in 1 .. Len(kids) :
           j[i] = IF <<kids[i], "cte">> \in applied THEN Dots ELSE text[kids[i]]
  BY <1>3, <1>4
<1> HIDE DEF j
<1>6. CtesAre(j, applied, s, text)
  BY <1>2, <1>3, <1>5 DEF kids, CtesAre
<1> QED BY <1>5, <1>6

LEMMA CutTargetBytes ==
  ASSUME NEW s
  PROVE  CutTarget(s) \in Text /\ Bytes(CutTarget(s)) >= 3 /\ Bytes(CutTarget(s)) \in Nat
<1>1. PICK d \in Text : d = Dots /\ Bytes(d) = 3
  BY CutTargetType, SomeBytes
<1>2. PICK e \in Text : e = Ascii(3) /\ Bytes(e) = 3
  BY AsciiBytes
<1>3. d \o e \in Text /\ Bytes(d \o e) = 3 + 3
  BY <1>1, <1>2, ConcatBytes
<1>4. (d \o e) \o d \in Text /\ Bytes((d \o e) \o d) = (3 + 3) + 3
  BY <1>1, <1>3, ConcatBytes
<1>5. PICK u \in Text : u = (d \o e) \o d /\ Bytes(u) = 9
  <2>1. PICK v : v = (d \o e) \o d
    OBVIOUS
  <2>2. v \in Text /\ Bytes(v) = (3 + 3) + 3
    BY <1>4, <2>1
  <2>3. Bytes(v) = 9
    BY <2>2
  <2> QED BY <2>1, <2>2, <2>3
<1>6. PICK o \in Text : o = Ascii(4) /\ Bytes(o) = 4
  BY AsciiBytes
<1>7. d \o o \in Text /\ Bytes(d \o o) = 3 + 4
  BY <1>1, <1>6, ConcatBytes
<1>8. (d \o o) \o d \in Text /\ Bytes((d \o o) \o d) = (3 + 4) + 3
  BY <1>1, <1>7, ConcatBytes
<1>9. PICK w \in Text : w = (d \o o) \o d /\ Bytes(w) = 10
  <2>1. PICK v : v = (d \o o) \o d
    OBVIOUS
  <2>2. v \in Text /\ Bytes(v) = (3 + 4) + 3
    BY <1>8, <2>1
  <2>3. Bytes(v) = 10
    BY <2>2
  <2> QED BY <2>1, <2>2, <2>3
<1>10. CutTarget(s) = u \/ CutTarget(s) = w \/ CutTarget(s) = d
  BY <1>1, <1>2, <1>5, <1>6, <1>9, CutTargetIs
<1>11. CASE CutTarget(s) = u
  BY <1>5, <1>11
<1>12. CASE CutTarget(s) = w
  BY <1>9, <1>12
<1>13. CASE CutTarget(s) = d
  BY <1>1, <1>13
<1> QED BY <1>10, <1>11, <1>12, <1>13

\* Parts of less than three bytes have no statements in them, and nothing of them was cut.
LEMMA SmallParts ==
  ASSUME TreeInv, NEW s \in Statements, NEW applied,
         NEW f \in [Statements -> Text], NEW g \in [Statements -> Text],
         \A c \in Statements : Bytes(f[c]) >= 3
  PROVE  /\ \A p \in Parts : \/ Bytes(Joined(Children(s, p), f)) >= 3
                             \/ Joined(Children(s, p), f) = Joined(Children(s, p), g)
         /\ \/ Bytes(CtesOf(applied, s, f)) >= 3
            \/ CtesOf(applied, s, f) = CtesOf({}, s, g)
         /\ \/ Bytes(TargetsOf(applied, s, f)) >= 3
            \/ TargetsOf(applied, s, f) = TargetsOf({}, s, g)
         /\ \/ Bytes(WheresOf(applied, s, f)) >= 3
            \/ WheresOf(applied, s, f) = WheresOf({}, s, g)
<1>1. ASSUME NEW p \in Parts, ~(Bytes(Joined(Children(s, p), f)) >= 3)
      PROVE  Joined(Children(s, p), f) = Joined(Children(s, p), g)
  <2>1. PICK j \in Seq(Text) :
           /\ Len(j) = Len(Children(s, p)) /\ DOMAIN Children(s, p) = 1 .. Len(j)
           /\ \A i \in 1 .. Len(j) : j[i] = f[Children(s, p)[i]] /\ Children(s, p)[i] \in Statements
           /\ Joined(Children(s, p), f) = FlattenSeq(j)
    BY JoinedSeq
  <2>2. 1 .. Len(j) = {}
    <3>1. SUFFICES ASSUME NEW i \in 1 .. Len(j) PROVE FALSE
      OBVIOUS
    <3>2. Bytes(FlattenSeq(j)) >= Bytes(j[i]) /\ Bytes(j[i]) >= 3
      BY <2>1, FlattenHas
    <3>3. Bytes(FlattenSeq(j)) \in Nat /\ Bytes(j[i]) \in Nat
      BY FlattenType, BytesType
    <3> QED BY <1>1, <2>1, <3>2, <3>3
  <2>3. \A h : [i \in DOMAIN Children(s, p) |-> h[Children(s, p)[i]]] = [i \in {} |-> 0]
    BY <2>1, <2>2
  <2> QED BY <2>3 DEF Joined
<1>2. ASSUME ~(Bytes(CtesOf(applied, s, f)) >= 3)
      PROVE  CtesOf(applied, s, f) = CtesOf({}, s, g)
  <2>a. PICK j \in Seq(Text) : CtesAre(j, applied, s, f)
    BY CtesSeq
  <2>1. /\ Len(j) = Len(Children(s, "cte")) /\ DOMAIN Children(s, "cte") = 1 .. Len(j)
        /\ \A i \in 1 .. Len(j) :
             /\ Children(s, "cte")[i] \in Statements
             /\ j[i] = IF <<Children(s, "cte")[i], "cte">> \in applied THEN Dots
                       ELSE f[Children(s, "cte")[i]]
        /\ CtesOf(applied, s, f) = FlattenSeq(j)
    BY ONLY <2>a DEF CtesAre
  <2>2. 1 .. Len(j) = {}
    <3>1. SUFFICES ASSUME NEW i \in 1 .. Len(j) PROVE FALSE
      OBVIOUS
    <3>2. Bytes(FlattenSeq(j)) >= Bytes(j[i]) /\ Bytes(j[i]) >= 3
      <4>1. Bytes(Dots) >= 3
        BY SomeBytes
      <4> QED BY <2>1, <4>1, FlattenHas
    <3>3. Bytes(FlattenSeq(j)) \in Nat /\ Bytes(j[i]) \in Nat
      BY FlattenType, BytesType
    <3> QED BY <1>2, <2>1, <3>2, <3>3
  <2>3. DOMAIN Children(s, "cte") = {}
    BY <2>1, <2>2
  <2>4. \A h, x : CtesOf(x, s, h) = FlattenSeq([i \in {} |-> 0])
    <3> TAKE h, x
    <3> DEFINE kids == Children(s, "cte")
    <3> DEFINE k == [i \in DOMAIN kids |->
                       LET c == kids[i] IN IF <<c, "cte">> \in x THEN Dots ELSE h[c]]
    <3>1. CtesOf(x, s, h) = FlattenSeq(k)
      BY DEF CtesOf
    <3>2. k = [i \in {} |-> 0]
      BY <2>3
    <3> QED BY <3>1, <3>2
  <2> QED BY <2>4
<1>3. ASSUME ~(Bytes(TargetsOf(applied, s, f)) >= 3)
      PROVE  TargetsOf(applied, s, f) = TargetsOf({}, s, g)
  <2>1. <<s, "target">> \notin applied
    BY <1>3, CutTargetBytes DEF TargetsOf
  <2>2. TargetsOf(applied, s, f) = TargetList(s, f) /\ TargetsOf({}, s, g) = TargetList(s, g)
    BY <2>1 DEF TargetsOf
  <2>3. CASE tree[s].kind \notin WithTargets
    BY <2>2, <2>3 DEF TargetList
  <2>4. CASE tree[s].kind \in WithTargets
    <3>1. PICK a \in Text, b \in Text : a = TargetText(s) /\ b = Joined(Children(s, "target"), f)
      BY TextOfType, CutTargetType DEF Parts
    <3>2. TargetList(s, f) = a \o b
      BY <2>4, <3>1 DEF TargetList
    <3>3. Bytes(a \o b) = Bytes(a) + Bytes(b) /\ Bytes(a) \in Nat /\ Bytes(b) \in Nat
      BY ConcatBytes, BytesType
    <3>4. ~(Bytes(b) >= 3)
      BY <1>3, <2>2, <3>2, <3>3
    <3>5. "target" \in Parts
      BY DEF Parts
    <3>6. b = Joined(Children(s, "target"), g)
      BY <1>1, <3>1, <3>4, <3>5
    <3>7. TargetList(s, g) = a \o b
      BY <2>4, <3>1, <3>6 DEF TargetList
    <3> QED BY <2>2, <3>2, <3>7
  <2> QED BY <2>3, <2>4
<1>4. ASSUME ~(Bytes(WheresOf(applied, s, f)) >= 3)
      PROVE  WheresOf(applied, s, f) = WheresOf({}, s, g)
  <2>1. <<s, "where">> \notin applied
    BY <1>4, SomeBytes DEF WheresOf
  <2>2. WheresOf(applied, s, f) = Where(s, f) /\ WheresOf({}, s, g) = Where(s, g)
    BY <2>1 DEF WheresOf
  <2>3. PICK a \in Text, b \in Text :
          /\ a = IF tree[s].cond = "none" THEN <<>> ELSE ConditionText
          /\ b = Joined(Children(s, "where"), f)
    BY TextOfType, CutTargetType DEF Parts
  <2>4. Where(s, f) = a \o b
    BY <2>3 DEF Where
  <2>5. Bytes(a \o b) = Bytes(a) + Bytes(b) /\ Bytes(a) \in Nat /\ Bytes(b) \in Nat
    BY ConcatBytes, BytesType
  <2>6. ~(Bytes(b) >= 3)
    BY <1>4, <2>2, <2>4, <2>5
  <2>7. "where" \in Parts
    BY DEF Parts
  <2>8. b = Joined(Children(s, "where"), g)
    BY <1>1, <2>3, <2>6, <2>7
  <2>9. Where(s, g) = a \o b
    BY <2>3, <2>8 DEF Where
  <2> QED BY <2>2, <2>4, <2>9
<1> QED BY <1>1, <1>2, <1>3, <1>4

\* A statement in which something was cut still has six bytes.
LEMMA SameOrLong ==
  ASSUME TreeInv, NEW applied, NEW s \in Statements
  PROVE  Texts(applied)[s] = Texts({})[s] \/ Bytes(Texts(applied)[s]) >= 6
<1>1. PICK f \in [Statements -> Text] : f = Texts(applied) /\ f[s] = TextOf(applied, s, f)
  BY TextsAre
<1>2. PICK g \in [Statements -> Text] : g = Texts({}) /\ g[s] = TextOf({}, s, g)
  BY TextsAre
<1>3. \A c \in Statements : Bytes(f[c]) >= 3
  BY <1>1, ThreeBytes
<1>4. SUFFICES ASSUME ~(Bytes(f[s]) >= 6) PROVE f[s] = g[s]
  BY <1>1, <1>2
<1>5. /\ ~(Bytes(CtesOf(applied, s, f)) >= 3)
      /\ ~(Bytes(TargetsOf(applied, s, f)) >= 3)
      /\ ~(Bytes(WheresOf(applied, s, f)) >= 3)
      /\ ~(Bytes(Joined(Children(s, "from"), f)) >= 3)
      /\ ~(Bytes(Joined(Children(s, "query"), f)) >= 3)
  <2>1. PICK c, t, w, x, q : /\ c = Bytes(CtesOf(applied, s, f))
                             /\ t = Bytes(TargetsOf(applied, s, f))
                             /\ w = Bytes(WheresOf(applied, s, f))
                             /\ x = Bytes(Joined(Children(s, "from"), f))
                             /\ q = Bytes(Joined(Children(s, "query"), f))
    OBVIOUS
  <2>2. c \in Nat /\ t \in Nat /\ w \in Nat /\ x \in Nat /\ q \in Nat
    BY <2>1, PartBytes
  <2>3. Bytes(f[s]) = ((((c + 3) + t) + x) + q) + w
    BY <1>1, <2>1, TextBytes
  <2> QED BY <1>4, <2>1, <2>2, <2>3
<1>6. "from" \in Parts /\ "query" \in Parts
  BY DEF Parts
<1>7. /\ CtesOf(applied, s, f) = CtesOf({}, s, g)
      /\ TargetsOf(applied, s, f) = TargetsOf({}, s, g)
      /\ WheresOf(applied, s, f) = WheresOf({}, s, g)
      /\ Joined(Children(s, "from"), f) = Joined(Children(s, "from"), g)
      /\ Joined(Children(s, "query"), f) = Joined(Children(s, "query"), g)
  BY <1>3, <1>5, <1>6, SmallParts
<1>8. TextOf(applied, s, f) = TextOf({}, s, g)
  BY <1>7 DEF TextOf
<1> QED BY <1>1, <1>2, <1>8

\* What can still be cut is still longer than the dots, whatever was cut in it.
LEMMA LongStays ==
  ASSUME TreeInv, NEW applied, NEW t \in PossibleTruncations, NEW s \in Statements
  PROVE  /\ IsTarget(t, s) => Bytes(TargetList(s, Texts(applied))) > 3
         /\ IsWhere(t, s) => Bytes(Where(s, Texts(applied))) > 3
         /\ IsCte(t, s) => Bytes(Texts(applied)[s]) > 3
<1>1. PICK f \in [Statements -> Text] : f = Texts(applied)
  BY TextsAre
<1>2. PICK g \in [Statements -> Text] : g = Texts({})
  BY TextsAre
<1>3. \A c \in Statements : /\ Bytes(f[c]) \in Nat /\ Bytes(f[c]) >= 3
                            /\ f[c] = g[c] \/ Bytes(f[c]) >= 6
  BY <1>1, <1>2, ThreeBytes, SameOrLong
<1>4. t.length > 3
  BY PossibleAre
<1>5. "target" \in Parts /\ "where" \in Parts
  BY DEF Parts
<1>6. ASSUME IsTarget(t, s) PROVE Bytes(TargetList(s, f)) > 3
  <2>1. Bytes(TargetList(s, g)) > 3
    BY <1>2, <1>4, <1>6 DEF IsTarget
  <2>2. tree[s].kind \in WithTargets
    BY <2>1, SomeBytes DEF TargetList
  <2>3. PICK a \in Text, b \in Text : a = TargetText(s) /\ b = Joined(Children(s, "target"), f)
    BY <1>5, TextOfType, CutTargetType
  <2>4. TargetList(s, f) = a \o b
    BY <2>2, <2>3 DEF TargetList
  <2>5. /\ Bytes(a \o b) = Bytes(a) + Bytes(b) /\ Bytes(a) \in Nat /\ Bytes(b) \in Nat
        /\ Bytes(a) >= 1
    BY <2>3, ConcatBytes, BytesType, SomeBytes
  <2>6. CASE Bytes(b) >= 3
    BY <2>4, <2>5, <2>6
  <2>7. CASE ~(Bytes(b) >= 3)
    <3>1. b = Joined(Children(s, "target"), g)
      BY <1>3, <1>5, <2>3, <2>7, SmallParts
    <3>2. TargetList(s, g) = a \o b
      BY <2>2, <2>3, <3>1 DEF TargetList
    <3> QED BY <2>1, <2>4, <3>2
  <2> QED BY <2>6, <2>7
<1>7. ASSUME IsWhere(t, s) PROVE Bytes(Where(s, f)) > 3
  <2>1. Bytes(Where(s, g)) > 3
    BY <1>2, <1>4, <1>7 DEF IsWhere
  <2>2. PICK a \in Text, b \in Text :
          /\ a = IF tree[s].cond = "none" THEN <<>> ELSE ConditionText
          /\ b = Joined(Children(s, "where"), f)
    BY <1>5, TextOfType, CutTargetType
  <2>3. Where(s, f) = a \o b /\ Where(s, g) = a \o Joined(Children(s, "where"), g)
    BY <2>2 DEF Where
  <2>4. Bytes(a \o b) = Bytes(a) + Bytes(b) /\ Bytes(a) \in Nat /\ Bytes(b) \in Nat
    BY ConcatBytes, BytesType
  <2>5. CASE tree[s].cond # "none"
    <3>1. Bytes(a) >= 4
      BY <2>2, <2>5, SomeBytes
    <3> QED BY <2>3, <2>4, <3>1
  <2>6. CASE b = Joined(Children(s, "where"), g)
    BY <2>1, <2>3, <2>6
  <2>7. CASE b # Joined(Children(s, "where"), g)
    <3>1. PICK j \in Seq(Text) :
           /\ Len(j) = Len(Children(s, "where")) /\ DOMAIN Children(s, "where") = 1 .. Len(j)
           /\ \A i \in 1 .. Len(j) : /\ j[i] = f[Children(s, "where")[i]]
                                     /\ Children(s, "where")[i] \in Statements
           /\ Joined(Children(s, "where"), f) = FlattenSeq(j)
      BY <1>5, JoinedSeq
    <3>2. \E i \in 1 .. Len(j) : f[Children(s, "where")[i]] # g[Children(s, "where")[i]]
      <4>1. SUFFICES ASSUME \A i \in 1 .. Len(j) :
                              f[Children(s, "where")[i]] = g[Children(s, "where")[i]]
                     PROVE  FALSE
        OBVIOUS
      <4>2. [i \in DOMAIN Children(s, "where") |-> f[Children(s, "where")[i]]]
              = [i \in DOMAIN Children(s, "where") |-> g[Children(s, "where")[i]]]
        BY <3>1, <4>1
      <4> QED BY <2>2, <2>7, <4>2 DEF Joined
    <3>3. PICK i \in 1 .. Len(j) : f[Children(s, "where")[i]] # g[Children(s, "where")[i]]
      BY <3>2
    <3>4. Bytes(j[i]) >= 6 /\ Bytes(j[i]) \in Nat
      BY <1>3, <3>1, <3>3
    <3>5. Bytes(b) >= Bytes(j[i])
      BY <2>2, <3>1, FlattenHas
    <3> QED BY <2>3, <2>4, <3>4, <3>5
  <2> QED BY <2>6, <2>7
<1>8. ASSUME IsCte(t, s) PROVE Bytes(f[s]) > 3
  <2>1. Bytes(g[s]) > 3
    BY <1>2, <1>4, <1>8 DEF IsCte
  <2> QED BY <1>3, <2>1
<1> QED BY <1>1, <1>6, <1>7, <1>8

\* One truncation more: a statement whose text it is in, and where it is not gone already.
TakesOut(a, s, text) ==
  /\ a = <<s, "target">> => Bytes(TargetList(s, text)) > Bytes(CutTarget(s))
  /\ a = <<s, "where">> => Bytes(Where(s, text)) > 3
  /\ \A c \in Statements : a = <<c, "cte">> => Bytes(text[c]) > 3

LEMMA JoinedShrinks ==
  ASSUME TreeInv, NEW s \in Statements, NEW p \in Parts,
         NEW f \in [Statements -> Text], NEW g \in [Statements -> Text],
         \A c \in Statements : c > s => Bytes(f[c]) <= Bytes(g[c])
  PROVE  /\ Bytes(Joined(Children(s, p), f)) <= Bytes(Joined(Children(s, p), g))
         /\ (\E i \in DOMAIN Children(s, p) :
               Bytes(f[Children(s, p)[i]]) < Bytes(g[Children(s, p)[i]])) =>
              Bytes(Joined(Children(s, p), f)) < Bytes(Joined(Children(s, p), g))
<1>1. PICK j \in Seq(Text) :
        /\ Len(j) = Len(Children(s, p)) /\ DOMAIN Children(s, p) = 1 .. Len(j)
        /\ \A i \in 1 .. Len(j) : j[i] = f[Children(s, p)[i]] /\ Children(s, p)[i] \in Statements
        /\ Joined(Children(s, p), f) = FlattenSeq(j)
  BY JoinedSeq
<1>2. PICK k \in Seq(Text) :
        /\ Len(k) = Len(Children(s, p)) /\ DOMAIN Children(s, p) = 1 .. Len(k)
        /\ \A i \in 1 .. Len(k) : k[i] = g[Children(s, p)[i]] /\ Children(s, p)[i] \in Statements
        /\ Joined(Children(s, p), g) = FlattenSeq(k)
  BY JoinedSeq
<1>3. \A i \in DOMAIN Children(s, p) : Children(s, p)[i] \in Statements /\ Children(s, p)[i] > s
  BY KidsAre
<1>4. \A i \in 1 .. Len(j) : Bytes(j[i]) <= Bytes(k[i])
  BY <1>1, <1>2, <1>3
<1>5. /\ Bytes(FlattenSeq(j)) <= Bytes(FlattenSeq(k))
      /\ (\E i \in 1 .. Len(j) : Bytes(j[i]) < Bytes(k[i])) =>
           Bytes(FlattenSeq(j)) < Bytes(FlattenSeq(k))
  <2>1. Len(j) = Len(k)
    BY <1>1, <1>2
  <2> QED BY <1>4, <2>1, FlattenLess
<1>6. (\E i \in DOMAIN Children(s, p) :
         Bytes(f[Children(s, p)[i]]) < Bytes(g[Children(s, p)[i]])) =>
        \E i \in 1 .. Len(j) : Bytes(j[i]) < Bytes(k[i])
  BY <1>1, <1>2
<1> QED BY <1>1, <1>2, <1>5, <1>6

LEMMA CtesShrink ==
  ASSUME TreeInv, NEW s \in Statements, NEW x, NEW a,
         NEW f \in [Statements -> Text], NEW g \in [Statements -> Text],
         \A c \in Statements : c > s => Bytes(f[c]) <= Bytes(g[c]),
         TakesOut(a, s, g)
  PROVE  /\ Bytes(CtesOf(x \cup {a}, s, f)) <= Bytes(CtesOf(x, s, g))
         /\ (\E i \in DOMAIN Children(s, "cte") :
               /\ <<Children(s, "cte")[i], "cte">> \notin x
               /\ \/ a = <<Children(s, "cte")[i], "cte">>
                  \/ Bytes(f[Children(s, "cte")[i]]) < Bytes(g[Children(s, "cte")[i]])) =>
              Bytes(CtesOf(x \cup {a}, s, f)) < Bytes(CtesOf(x, s, g))
<1> DEFINE kids == Children(s, "cte")
<1>a. PICK j \in Seq(Text) : CtesAre(j, x \cup {a}, s, f)
  BY CtesSeq
<1>b. PICK k \in Seq(Text) : CtesAre(k, x, s, g)
  BY CtesSeq
<1>1. /\ Len(j) = Len(kids) /\ DOMAIN kids = 1 .. Len(j)
      /\ \A i \in 1 .. Len(j) :
           /\ kids[i] \in Statements
           /\ j[i] = IF <<kids[i], "cte">> \in x \cup {a} THEN Dots ELSE f[kids[i]]
      /\ CtesOf(x \cup {a}, s, f) = FlattenSeq(j)
  BY ONLY <1>a DEF CtesAre
<1>2. /\ Len(k) = Len(kids) /\ DOMAIN kids = 1 .. Len(k)
      /\ \A i \in 1 .. Len(k) :
           /\ kids[i] \in Statements
           /\ k[i] = IF <<kids[i], "cte">> \in x THEN Dots ELSE g[kids[i]]
      /\ CtesOf(x, s, g) = FlattenSeq(k)
  BY ONLY <1>b DEF CtesAre
<1>3. \A i \in DOMAIN kids : kids[i] \in Statements /\ kids[i] > s
  BY KidsAre DEF Parts
<1>4. Bytes(Dots) = 3
  BY SomeBytes
<1> HIDE DEF kids
<1>5. ASSUME NEW i \in 1 .. Len(j)
      PROVE  /\ Bytes(j[i]) <= Bytes(k[i])
             /\ <<kids[i], "cte">> \notin x
                  /\ (a = <<kids[i], "cte">> \/ Bytes(f[kids[i]]) < Bytes(g[kids[i]])) =>
                  Bytes(j[i]) < Bytes(k[i])
  <2>1. kids[i] \in Statements /\ Bytes(f[kids[i]]) <= Bytes(g[kids[i]])
        /\ Bytes(g[kids[i]]) \in Nat /\ Bytes(f[kids[i]]) \in Nat
    BY <1>1, <1>3, BytesType
  <2>2. CASE <<kids[i], "cte">> \in x
    <3>1. j[i] = Dots /\ k[i] = Dots
      BY <1>1, <1>2, <2>2
    <3> QED BY <1>4, <2>2, <3>1
  <2>3. CASE <<kids[i], "cte">> \notin x /\ a = <<kids[i], "cte">>
    <3>1. j[i] = Dots /\ k[i] = g[kids[i]]
      BY <1>1, <1>2, <2>3
    <3>2. Bytes(g[kids[i]]) > 3
      BY <2>1, <2>3 DEF TakesOut
    <3> QED BY <1>4, <2>1, <3>1, <3>2
  <2>4. CASE <<kids[i], "cte">> \notin x /\ a # <<kids[i], "cte">>
    <3>1. j[i] = f[kids[i]] /\ k[i] = g[kids[i]]
      BY <1>1, <1>2, <2>4
    <3> QED BY <2>1, <2>4, <3>1
  <2> QED BY <2>2, <2>3, <2>4
<1>6. /\ Bytes(FlattenSeq(j)) <= Bytes(FlattenSeq(k))
      /\ (\E i \in 1 .. Len(j) : Bytes(j[i]) < Bytes(k[i])) =>
           Bytes(FlattenSeq(j)) < Bytes(FlattenSeq(k))
  <2>1. Len(j) = Len(k)
    BY <1>1, <1>2
  <2> QED BY <1>5, <2>1, FlattenLess
<1>7. (\E i \in DOMAIN kids :
         /\ <<kids[i], "cte">> \notin x
         /\ a = <<kids[i], "cte">> \/ Bytes(f[kids[i]]) < Bytes(g[kids[i]])) =>
        \E i \in 1 .. Len(j) : Bytes(j[i]) < Bytes(k[i])
  BY <1>1, <1>5
<1> QED BY <1>1, <1>2, <1>6, <1>7 DEF kids

LEMMA TargetsShrink ==
  ASSUME TreeInv, NEW s \in Statements, NEW x, NEW a,
         NEW f \in [Statements -> Text], NEW g \in [Statements -> Text],
         \A c \in Statements : c > s => Bytes(f[c]) <= Bytes(g[c]),
         TakesOut(a, s, g)
  PROVE  /\ Bytes(TargetsOf(x \cup {a}, s, f)) <= Bytes(TargetsOf(x, s, g))
         /\ <<s, "target">> \notin x
              /\ (\/ a = <<s, "target">>
                  \/ /\ tree[s].kind \in WithTargets
                     /\ \E i \in DOMAIN Children(s, "target") :
                          Bytes(f[Children(s, "target")[i]]) < Bytes(g[Children(s, "target")[i]])) =>
              Bytes(TargetsOf(x \cup {a}, s, f)) < Bytes(TargetsOf(x, s, g))
<1> DEFINE Strict == \E i \in DOMAIN Children(s, "target") :
                       Bytes(f[Children(s, "target")[i]]) < Bytes(g[Children(s, "target")[i]])
<1>1. CASE <<s, "target">> \in x
  <2>1. TargetsOf(x \cup {a}, s, f) = CutTarget(s) /\ TargetsOf(x, s, g) = CutTarget(s)
    BY <1>1 DEF TargetsOf
  <2> QED BY <1>1, <2>1, CutTargetBytes
<1>2. CASE <<s, "target">> \notin x /\ a = <<s, "target">>
  <2>1. TargetsOf(x \cup {a}, s, f) = CutTarget(s) /\ TargetsOf(x, s, g) = TargetList(s, g)
    BY <1>2 DEF TargetsOf
  <2>2. Bytes(TargetList(s, g)) > Bytes(CutTarget(s))
    BY <1>2 DEF TakesOut
  <2>3. Bytes(TargetList(s, g)) \in Nat /\ Bytes(CutTarget(s)) \in Nat
    BY TextOfType, BytesType, CutTargetBytes
  <2>4. Bytes(TargetsOf(x \cup {a}, s, f)) < Bytes(TargetsOf(x, s, g))
    BY <2>1, <2>2, <2>3
  <2>5. Bytes(TargetsOf(x \cup {a}, s, f)) <= Bytes(TargetsOf(x, s, g))
    BY <2>1, <2>2, <2>3
  <2> QED BY <2>4, <2>5
<1>3. CASE <<s, "target">> \notin x /\ a # <<s, "target">>
  <2>1. TargetsOf(x \cup {a}, s, f) = TargetList(s, f) /\ TargetsOf(x, s, g) = TargetList(s, g)
    BY <1>3 DEF TargetsOf
  <2>2. CASE tree[s].kind \notin WithTargets
    <3>1. TargetList(s, f) = <<>> /\ TargetList(s, g) = <<>>
      BY <2>2 DEF TargetList
    <3> QED BY <1>3, <2>1, <2>2, <3>1, SomeBytes
  <2>3. CASE tree[s].kind \in WithTargets
    <3>1. "target" \in Parts
      BY DEF Parts
    <3>2. PICK t \in Text, b \in Text, c \in Text :
            /\ t = TargetText(s) /\ b = Joined(Children(s, "target"), f)
            /\ c = Joined(Children(s, "target"), g)
      BY <3>1, TextOfType, CutTargetType
    <3>3. TargetList(s, f) = t \o b /\ TargetList(s, g) = t \o c
      BY <2>3, <3>2 DEF TargetList
    <3>4. /\ Bytes(t \o b) = Bytes(t) + Bytes(b) /\ Bytes(t \o c) = Bytes(t) + Bytes(c)
          /\ Bytes(t) \in Nat /\ Bytes(b) \in Nat /\ Bytes(c) \in Nat
      BY ConcatBytes, BytesType
    <3>5. Bytes(b) <= Bytes(c) /\ (Strict => Bytes(b) < Bytes(c))
      BY <3>1, <3>2, JoinedShrinks
    <3> HIDE DEF Strict
    <3>6. Bytes(t \o b) <= Bytes(t \o c) /\ (Strict => Bytes(t \o b) < Bytes(t \o c))
      BY <3>4, <3>5
    <3>7. /\ Bytes(TargetsOf(x \cup {a}, s, f)) <= Bytes(TargetsOf(x, s, g))
          /\ (Strict => Bytes(TargetsOf(x \cup {a}, s, f)) < Bytes(TargetsOf(x, s, g)))
      BY <2>1, <3>3, <3>6
    <3> QED BY <1>3, <3>7 DEF Strict
  <2> QED BY <2>2, <2>3
<1> QED BY <1>1, <1>2, <1>3

LEMMA WheresShrink ==
  ASSUME TreeInv, NEW s \in Statements, NEW x, NEW a,
         NEW f \in [Statements -> Text], NEW g \in [Statements -> Text],
         \A c \in Statements : c > s => Bytes(f[c]) <= Bytes(g[c]),
         TakesOut(a, s, g)
  PROVE  /\ Bytes(WheresOf(x \cup {a}, s, f)) <= Bytes(WheresOf(x, s, g))
         /\ <<s, "where">> \notin x
              /\ (\/ a = <<s, "where">>
                  \/ \E i \in DOMAIN Children(s, "where") :
                       Bytes(f[Children(s, "where")[i]]) < Bytes(g[Children(s, "where")[i]])) =>
              Bytes(WheresOf(x \cup {a}, s, f)) < Bytes(WheresOf(x, s, g))
<1> DEFINE Strict == \E i \in DOMAIN Children(s, "where") :
                       Bytes(f[Children(s, "where")[i]]) < Bytes(g[Children(s, "where")[i]])
<1>1. CASE <<s, "where">> \in x
  <2>1. WheresOf(x \cup {a}, s, f) = Dots /\ WheresOf(x, s, g) = Dots
    BY <1>1 DEF WheresOf
  <2> QED BY <1>1, <2>1, SomeBytes
<1>2. CASE <<s, "where">> \notin x /\ a = <<s, "where">>
  <2>1. WheresOf(x \cup {a}, s, f) = Dots /\ WheresOf(x, s, g) = Where(s, g)
    BY <1>2 DEF WheresOf
  <2>2. Bytes(Where(s, g)) > 3 /\ Bytes(Dots) = 3
    BY <1>2, SomeBytes DEF TakesOut
  <2>3. Bytes(Where(s, g)) \in Nat
    BY TextOfType, BytesType
  <2>4. Bytes(WheresOf(x \cup {a}, s, f)) < Bytes(WheresOf(x, s, g))
    BY <2>1, <2>2, <2>3
  <2>5. Bytes(WheresOf(x \cup {a}, s, f)) <= Bytes(WheresOf(x, s, g))
    BY <2>1, <2>2, <2>3
  <2> QED BY <2>4, <2>5
<1>3. CASE <<s, "where">> \notin x /\ a # <<s, "where">>
  <2>1. WheresOf(x \cup {a}, s, f) = Where(s, f) /\ WheresOf(x, s, g) = Where(s, g)
    BY <1>3 DEF WheresOf
  <2>2. "where" \in Parts
    BY DEF Parts
  <2>3. PICK t \in Text, b \in Text, c \in Text :
          /\ t = IF tree[s].cond = "none" THEN <<>> ELSE ConditionText
          /\ b = Joined(Children(s, "where"), f) /\ c = Joined(Children(s, "where"), g)
    BY <2>2, TextOfType, CutTargetType
  <2>4. Where(s, f) = t \o b /\ Where(s, g) = t \o c
    BY <2>3 DEF Where
  <2>5. /\ Bytes(t \o b) = Bytes(t) + Bytes(b) /\ Bytes(t \o c) = Bytes(t) + Bytes(c)
        /\ Bytes(t) \in Nat /\ Bytes(b) \in Nat /\ Bytes(c) \in Nat
    BY ConcatBytes, BytesType
  <2>6. Bytes(b) <= Bytes(c) /\ (Strict => Bytes(b) < Bytes(c))
    BY <2>2, <2>3, JoinedShrinks
  <2> HIDE DEF Strict
  <2>7. Bytes(t \o b) <= Bytes(t \o c) /\ (Strict => Bytes(t \o b) < Bytes(t \o c))
    BY <2>5, <2>6
  <2>8. /\ Bytes(WheresOf(x \cup {a}, s, f)) <= Bytes(WheresOf(x, s, g))
        /\ (Strict => Bytes(WheresOf(x \cup {a}, s, f)) < Bytes(WheresOf(x, s, g)))
    BY <2>1, <2>4, <2>7
  <2> QED BY <1>3, <2>8 DEF Strict
<1> QED BY <1>1, <1>2, <1>3

\* A text gets no longer, and shorter if the truncation is in it or if a text in it, which is
\* not gone, does.
Shrinks(s, x, a, f, g) ==
  \/ /\ a \notin x
     /\ \/ a = <<s, "target">> \/ a = <<s, "where">>
        \/ \E i \in DOMAIN Children(s, "cte") : a = <<Children(s, "cte")[i], "cte">>
  \/ \E p \in Parts : \E i \in DOMAIN Children(s, p) :
       /\ Bytes(f[Children(s, p)[i]]) < Bytes(g[Children(s, p)[i]])
       /\ <<s, p>> \notin x /\ <<Children(s, p)[i], "cte">> \notin x
       /\ p = "target" => tree[s].kind \in WithTargets

LEMMA TextShrinks ==
  ASSUME TreeInv, NEW s \in Statements, NEW x, NEW a,
         NEW f \in [Statements -> Text], NEW g \in [Statements -> Text],
         \A c \in Statements : c > s => Bytes(f[c]) <= Bytes(g[c]),
         TakesOut(a, s, g)
  PROVE  /\ Bytes(TextOf(x \cup {a}, s, f)) <= Bytes(TextOf(x, s, g))
         /\ Shrinks(s, x, a, f, g) => Bytes(TextOf(x \cup {a}, s, f)) < Bytes(TextOf(x, s, g))
<1>1. PICK c1, t1, w1, f1, q1 : /\ c1 = Bytes(CtesOf(x \cup {a}, s, f))
                                /\ t1 = Bytes(TargetsOf(x \cup {a}, s, f))
                                /\ w1 = Bytes(WheresOf(x \cup {a}, s, f))
                                /\ f1 = Bytes(Joined(Children(s, "from"), f))
                                /\ q1 = Bytes(Joined(Children(s, "query"), f))
  OBVIOUS
<1>2. PICK c2, t2, w2, f2, q2 : /\ c2 = Bytes(CtesOf(x, s, g))
                                /\ t2 = Bytes(TargetsOf(x, s, g))
                                /\ w2 = Bytes(WheresOf(x, s, g))
                                /\ f2 = Bytes(Joined(Children(s, "from"), g))
                                /\ q2 = Bytes(Joined(Children(s, "query"), g))
  OBVIOUS
<1>3. c1 \in Nat /\ t1 \in Nat /\ w1 \in Nat /\ f1 \in Nat /\ q1 \in Nat
  BY <1>1, PartBytes
<1>4. c2 \in Nat /\ t2 \in Nat /\ w2 \in Nat /\ f2 \in Nat /\ q2 \in Nat
  BY <1>2, PartBytes
<1>5. /\ Bytes(TextOf(x \cup {a}, s, f)) = ((((c1 + 3) + t1) + f1) + q1) + w1
      /\ Bytes(TextOf(x, s, g)) = ((((c2 + 3) + t2) + f2) + q2) + w2
  BY <1>1, <1>2, TextBytes
<1>p. "from" \in Parts /\ "query" \in Parts
  BY DEF Parts
<1>6. c1 <= c2 /\ t1 <= t2 /\ w1 <= w2 /\ f1 <= f2 /\ q1 <= q2
  BY <1>1, <1>2, <1>p, CtesShrink, TargetsShrink, WheresShrink, JoinedShrinks
<1>7. ASSUME Shrinks(s, x, a, f, g)
      PROVE  c1 < c2 \/ t1 < t2 \/ w1 < w2 \/ f1 < f2 \/ q1 < q2
  <2>1. CASE a \notin x /\ a = <<s, "target">>
    BY <1>1, <1>2, <2>1, TargetsShrink
  <2>2. CASE a \notin x /\ a = <<s, "where">>
    BY <1>1, <1>2, <2>2, WheresShrink
  <2>3. CASE a \notin x /\ \E i \in DOMAIN Children(s, "cte") : a = <<Children(s, "cte")[i], "cte">>
    BY <1>1, <1>2, <2>3, CtesShrink
  <2>4. ASSUME NEW p \in Parts, NEW i \in DOMAIN Children(s, p),
               Bytes(f[Children(s, p)[i]]) < Bytes(g[Children(s, p)[i]]),
               <<s, p>> \notin x, <<Children(s, p)[i], "cte">> \notin x,
               p = "target" => tree[s].kind \in WithTargets
        PROVE  c1 < c2 \/ t1 < t2 \/ w1 < w2 \/ f1 < f2 \/ q1 < q2
    <3>1. CASE p = "cte"
      BY <1>1, <1>2, <2>4, <3>1, CtesShrink
    <3>2. CASE p = "target"
      BY <1>1, <1>2, <2>4, <3>2, TargetsShrink
    <3>3. CASE p = "where"
      BY <1>1, <1>2, <2>4, <3>3, WheresShrink
    <3>4. CASE p = "from"
      BY <1>1, <1>2, <2>4, <3>4, JoinedShrinks
    <3>5. CASE p = "query"
      BY <1>1, <1>2, <2>4, <3>5, JoinedShrinks
    <3> QED BY <3>1, <3>2, <3>3, <3>4, <3>5 DEF Parts
  <2> QED BY <1>7, <2>1, <2>2, <2>3, <2>4 DEF Shrinks
<1>8. Bytes(TextOf(x \cup {a}, s, f)) <= Bytes(TextOf(x, s, g))
  BY <1>3, <1>4, <1>5, <1>6
<1>9. ASSUME c1 < c2 \/ t1 < t2 \/ w1 < w2 \/ f1 < f2 \/ q1 < q2
      PROVE  Bytes(TextOf(x \cup {a}, s, f)) < Bytes(TextOf(x, s, g))
  BY <1>3, <1>4, <1>5, <1>6, <1>9
<1> QED BY <1>7, <1>8, <1>9

LEMMA GreatestStatement ==
  ASSUME TreeInv, NEW B \in SUBSET Statements, B # {}
  PROVE  \E s \in B : \A c \in Statements : c > s => c \notin B
<1>1. PICK n \in Nat : n = Len(tree) /\ Statements = 1 .. n
  BY DEF TreeInv, Statements
<1>2. Max(B) \in B /\ \A y \in B : Max(B) >= y
  BY <1>1, MaxOf
<1>3. PICK s \in B : \A y \in B : s >= y
  BY <1>2
<1>4. ASSUME NEW c \in Statements, c > s, c \in B PROVE FALSE
  <2>1. s >= c /\ c \in Nat /\ s \in Nat
    BY <1>1, <1>3, <1>4
  <2> QED BY <1>4, <2>1
<1> QED BY <1>4

\* No text gets longer by a truncation, ...
LEMMA NoneLonger ==
  ASSUME TreeInv, NEW x, NEW a, \A s \in Statements : TakesOut(a, s, Texts(x))
  PROVE  \A s \in Statements : Bytes(Texts(x \cup {a})[s]) <= Bytes(Texts(x)[s])
<1>1. PICK f \in [Statements -> Text] :
        f = Texts(x \cup {a}) /\ \A s \in Statements : f[s] = TextOf(x \cup {a}, s, f)
  BY TextsAre
<1>2. PICK g \in [Statements -> Text] :
        g = Texts(x) /\ \A s \in Statements : g[s] = TextOf(x, s, g)
  BY TextsAre
<1> DEFINE B == {s \in Statements : ~(Bytes(f[s]) <= Bytes(g[s]))}
<1>3. SUFFICES ASSUME B # {} PROVE FALSE
  BY <1>1, <1>2
<1>4. PICK s \in B : \A c \in Statements : c > s => c \notin B
  <2>1. B \in SUBSET Statements
    OBVIOUS
  <2> HIDE DEF B
  <2> QED BY <1>3, <2>1, GreatestStatement
<1>5. s \in Statements /\ ~(Bytes(f[s]) <= Bytes(g[s]))
      /\ \A c \in Statements : c > s => Bytes(f[c]) <= Bytes(g[c])
  BY <1>4
<1>6. TakesOut(a, s, g)
  BY <1>2, <1>5
<1>7. Bytes(TextOf(x \cup {a}, s, f)) <= Bytes(TextOf(x, s, g))
  BY <1>5, <1>6, TextShrinks
<1> QED BY <1>1, <1>2, <1>5, <1>7

\* The way from a statement up goes over statements that it is in.
LEMMA NextBelow ==
  ASSUME TreeInv, NEW h \in Statements, NEW s \in Above[h], s # h
  PROVE  \E c \in Above[h] : tree[c].parent = s
<1> DEFINE B == {k \in Statements : \E y \in Above[k] : y # k /\ ~ \E c \in Above[k] : tree[c].parent = y}
<1>1. B = {}
  <2>1. SUFFICES ASSUME B # {} PROVE FALSE
    OBVIOUS
  <2>2. PICK k \in B : \A j \in B : k <= j
    <3>1. B \in SUBSET Nat
      BY DEF TreeInv, Statements
    <3> HIDE DEF B
    <3> QED BY <2>1, <3>1, LeastNat
  <2>3. PICK y \in Above[k] : y # k /\ ~ \E c \in Above[k] : tree[c].parent = y
    BY <2>2
  <2>4. k \in Statements
    BY <2>2
  <2>5. tree[k].parent # 0 /\ y \in Above[tree[k].parent] /\ k \in Above[k]
        /\ Above[tree[k].parent] \subseteq Above[k]
    BY <2>3, <2>4, AboveAre
  <2>6. tree[k].parent \in Statements /\ ~(k <= tree[k].parent)
    <3>1. tree[k].parent < k /\ tree[k].parent \in Nat
      BY <2>4, NodeFields DEF TreeInv
    <3>2. Statements = 1 .. Len(tree) /\ Len(tree) \in Nat
      BY DEF TreeInv, Statements
    <3> QED BY <2>4, <2>5, <3>1, <3>2
  <2>7. tree[k].parent \notin B
    <3> HIDE DEF B
    <3> QED BY <2>2, <2>6
  <2>8. y # tree[k].parent
    BY <2>3, <2>5
  <2> QED BY <2>3, <2>5, <2>6, <2>7, <2>8
<1> QED BY <1>1

LEMMA FirstAbove ==
  ASSUME TreeInv
  PROVE  \A s \in Statements : 1 \in Above[s]
<1> DEFINE B == {k \in Statements : 1 \notin Above[k]}
<1>1. SUFFICES ASSUME B # {} PROVE FALSE
  OBVIOUS
<1>2. PICK k \in B : \A j \in B : k <= j
  <2>1. B \in SUBSET Nat
    BY DEF TreeInv, Statements
  <2> HIDE DEF B
  <2> QED BY <1>1, <2>1, LeastNat
<1>3. k \in Statements /\ k # 1
  BY <1>2, AboveAre
<1>4. tree[k].parent < k /\ tree[k].parent \in Nat /\ tree[k].parent # 0
  BY <1>3, NodeFields DEF TreeInv
<1>5. tree[k].parent \in Statements /\ ~(k <= tree[k].parent)
  <2>1. Statements = 1 .. Len(tree) /\ Len(tree) \in Nat
    BY DEF TreeInv, Statements
  <2> QED BY <1>3, <1>4, <2>1
<1>6. 1 \in Above[tree[k].parent]
  BY <1>2, <1>5
<1> QED BY <1>2, <1>3, <1>4, <1>6, AboveAre

\* Only the kinds that have a list the truncation knows hold children there.
LEMMA TargetsOfKind ==
  ASSUME NEW kind \in Kinds
  PROVE  "target" \in ToSet(PartsOf(kind)) => kind \in WithTargets
<1> USE DEF ToSet, WithTargets, Kinds, Queries, Changes, Wrappers
<1>1. CASE kind = "SelectStmt"
  <2>1. PartsOf(kind) = <<"target", "from", "where", "cte">>
    BY <1>1 DEF PartsOf
  <2> QED BY <2>1, <1>1
<1>2. CASE kind = "SetOperation"
  <2>1. PartsOf(kind) = <<"cte", "query">>
    BY <1>2 DEF PartsOf
  <2> QED BY <2>1, <1>2
<1>3. CASE kind = "ValuesStmt"
  <2>1. PartsOf(kind) = <<"target", "cte">>
    BY <1>3 DEF PartsOf
  <2> QED BY <2>1, <1>3
<1>4. CASE kind = "UpdateStmt"
  <2>1. PartsOf(kind) = <<"target", "where", "from", "cte">>
    BY <1>4 DEF PartsOf
  <2> QED BY <2>1, <1>4
<1>5. CASE kind = "InsertStmt"
  <2>1. PartsOf(kind) = <<"query", "where", "cte">>
    BY <1>5 DEF PartsOf
  <2> QED BY <2>1, <1>5
<1>6. CASE kind = "DeleteStmt"
  <2>1. PartsOf(kind) = <<"from", "where", "cte">>
    BY <1>6 DEF PartsOf
  <2> QED BY <2>1, <1>6
<1>7. CASE kind = "IndexStmt"
  <2>1. PartsOf(kind) = <<"where">>
    BY <1>7 DEF PartsOf
  <2> QED BY <2>1, <1>7
<1>8. CASE kind = "CopyStmt"
  <2>1. PartsOf(kind) = <<>>
    BY <1>8 DEF PartsOf
  <2> QED BY <2>1, <1>8
<1>9. CASE kind \in {"ViewStmt", "ExplainStmt"}
  <2>1. PartsOf(kind) = <<"query">>
    BY <1>9 DEF PartsOf
  <2> QED BY <2>1, <1>9
<1> QED BY <1>1, <1>2, <1>3, <1>4, <1>5, <1>6, <1>7, <1>8, <1>9

\* A statement that others are in is among the children of its parent, in a part that shows.
LEMMA ChildAt ==
  ASSUME TreeInv, NEW c \in Statements, NEW s \in Statements, tree[c].parent = s
  PROVE  /\ tree[c].part \in Parts
         /\ \E i \in DOMAIN Children(s, tree[c].part) : Children(s, tree[c].part)[i] = c
         /\ tree[c].part = "target" => tree[s].kind \in WithTargets
<1>1. tree[c].part \in Parts /\ tree[s].kind \in Kinds /\ c # 1
  <2>1. s # 0 /\ tree[c].part \in Parts /\ tree[s].kind \in Kinds
    BY NodeFields
  <2> QED BY <2>1 DEF TreeInv
<1>2. c \in ToSet(Children(s, tree[c].part))
  BY <1>1 DEF TreeInv
<1>3. \E i \in DOMAIN Children(s, tree[c].part) : Children(s, tree[c].part)[i] = c
  BY <1>2 DEF ToSet
<1>4. ASSUME tree[c].part = "target" PROVE tree[s].kind \in WithTargets
  <2>1. "target" \in ToSet(PartsOf(tree[s].kind))
    BY <1>1, <1>4 DEF TreeInv
  <2> QED BY <1>1, <2>1, TargetsOfKind
<1> QED BY <1>1, <1>3, <1>4

\* ... and all that the truncation is in get shorter.
LEMMA OuterShorter ==
  ASSUME TreeInv, NEW x, NEW a, a \notin x, \A s \in Statements : TakesOut(a, s, Texts(x)),
         NEW h \in Statements, h \in Above[a[1]], a[1] \in Statements,
         \/ a = <<h, "target">> \/ a = <<h, "where">>
         \/ \E i \in DOMAIN Children(h, "cte") : a = <<Children(h, "cte")[i], "cte">>,
         Above[h] \subseteq Above[a[1]],
         \A c \in Above[h] : /\ <<tree[c].parent, tree[c].part>> \notin x
                             /\ <<c, "cte">> \notin x
  PROVE  \A s \in Above[h] : Bytes(Texts(x \cup {a})[s]) < Bytes(Texts(x)[s])
<1>1. PICK f \in [Statements -> Text] :
        f = Texts(x \cup {a}) /\ \A s \in Statements : f[s] = TextOf(x \cup {a}, s, f)
  BY TextsAre
<1>2. PICK g \in [Statements -> Text] :
        g = Texts(x) /\ \A s \in Statements : g[s] = TextOf(x, s, g)
  BY TextsAre
<1>3. \A s \in Statements : Bytes(f[s]) <= Bytes(g[s])
  BY <1>1, <1>2, NoneLonger
<1>4. ASSUME NEW s \in Statements, Shrinks(s, x, a, f, g) PROVE Bytes(f[s]) < Bytes(g[s])
  <2>1. TakesOut(a, s, g)
    BY <1>2
  <2>2. Bytes(TextOf(x \cup {a}, s, f)) < Bytes(TextOf(x, s, g))
    BY <1>3, <1>4, <2>1, TextShrinks
  <2> QED BY <1>1, <1>2, <2>2
<1> DEFINE B == {s \in Above[h] : ~(Bytes(f[s]) < Bytes(g[s]))}
<1>5. SUFFICES ASSUME B # {} PROVE FALSE
  BY <1>1, <1>2
<1>6. Above[h] \subseteq Statements
  BY AboveAre
<1>7. PICK s \in B : \A c \in Statements : c > s => c \notin B
  <2>1. B \in SUBSET Statements
    BY <1>6
  <2> HIDE DEF B
  <2> QED BY <1>5, <2>1, GreatestStatement
<1>8. s \in Statements /\ s \in Above[h] /\ ~(Bytes(f[s]) < Bytes(g[s]))
  BY <1>6, <1>7
<1>9. CASE s = h
  <2>1. Shrinks(s, x, a, f, g)
    BY <1>9 DEF Shrinks
  <2> QED BY <1>4, <1>8, <2>1
<1>10. CASE s # h
  <2>1. PICK c \in Above[h] : tree[c].parent = s
    BY <1>8, <1>10, NextBelow
  <2>2. c \in Statements /\ c > s
    <3>1. c \in Statements
      BY <1>6, <2>1
    <3>2. tree[c].parent < c /\ tree[c].parent \in Nat /\ c \in Nat
      BY <3>1, NodeFields DEF TreeInv
    <3> QED BY <2>1, <3>1, <3>2
  <2>3. Bytes(f[c]) < Bytes(g[c])
    BY <1>7, <2>1, <2>2
  <2>4. PICK p \in Parts : p = tree[c].part
    BY <1>8, <2>1, <2>2, ChildAt
  <2>5. PICK i \in DOMAIN Children(s, p) : Children(s, p)[i] = c
    BY <1>8, <2>1, <2>2, <2>4, ChildAt
  <2>6. p = "target" => tree[s].kind \in WithTargets
    BY <1>8, <2>1, <2>2, <2>4, ChildAt
  <2>7. <<s, p>> \notin x /\ <<c, "cte">> \notin x
    BY <2>1, <2>4
  <2>8. Shrinks(s, x, a, f, g)
    BY <2>3, <2>5, <2>6, <2>7 DEF Shrinks
  <2> QED BY <1>4, <1>8, <2>8
<1> QED BY <1>9, <1>10

\* One round.
LEMMA RoundShorter ==
  ASSUME TreeInv, 1 \in Statements, NEW x, NEW t \in PossibleTruncations, t.of \notin x,
         \A b \in x : ~Within(t.of, b),
         \/ t.of[2] # "target"
         \/ CutTarget(t.of[1]) = Dots
         \/ Bytes(TargetList(t.of[1], Texts(x))) > Bytes(CutTarget(t.of[1]))
  PROVE  Bytes(Query(x \cup {t.of})) < Bytes(Query(x))
<1>1. PICK a : a = t.of
  OBVIOUS
<1>2. PICK s \in Statements : IsTarget(t, s) \/ IsWhere(t, s) \/ IsCte(t, s)
  BY PossibleAre
<1>3. a[1] = s
  BY <1>1, <1>2 DEF IsTarget, IsWhere, IsCte
<1>4. \A c \in Statements : TakesOut(a, c, Texts(x))
  <2> TAKE c \in Statements
  <2>1. ASSUME a = <<c, "target">>
        PROVE  Bytes(TargetList(c, Texts(x))) > Bytes(CutTarget(c))
    <3>1. IsTarget(t, c)
      BY <1>1, <1>2, <2>1 DEF IsTarget, IsWhere, IsCte
    <3>2. a[1] = c /\ a[2] = "target"
      BY <2>1
    <3>3. CASE CutTarget(c) = Dots
      <4>1. Bytes(TargetList(c, Texts(x))) > 3 /\ Bytes(Dots) = 3
        BY <3>1, LongStays, SomeBytes
      <4> QED BY <3>3, <4>1
    <3> QED BY <1>1, <3>2, <3>3
  <2>2. ASSUME a = <<c, "where">> PROVE Bytes(Where(c, Texts(x))) > 3
    <3>1. IsWhere(t, c)
      BY <1>1, <1>2, <2>2 DEF IsTarget, IsWhere, IsCte
    <3> QED BY <3>1, LongStays
  <2>3. ASSUME NEW d \in Statements, a = <<d, "cte">> PROVE Bytes(Texts(x)[d]) > 3
    <3>1. IsCte(t, d)
      BY <1>1, <1>2, <2>3 DEF IsTarget, IsWhere, IsCte
    <3> QED BY <3>1, LongStays
  <2> QED BY <2>1, <2>2, <2>3 DEF TakesOut
<1>5. \A b \in x : b # a /\ ~Within(a, b)
  BY <1>1
<1>6. \A c \in Above[s] : \A b \in x : b # <<c, "cte">> /\ b # <<tree[c].parent, tree[c].part>>
  BY <1>3, <1>5 DEF Within
<1>7. s \in Above[s] /\ Above[s] \subseteq Statements
  BY AboveAre
<1>8. PICK h \in Statements :
        /\ h \in Above[s] /\ Above[h] \subseteq Above[s]
        /\ \/ a = <<h, "target">> \/ a = <<h, "where">>
           \/ \E i \in DOMAIN Children(h, "cte") : a = <<Children(h, "cte")[i], "cte">>
  <2>1. CASE IsTarget(t, s) \/ IsWhere(t, s)
    BY <1>1, <1>7, <2>1 DEF IsTarget, IsWhere
  <2>2. CASE IsCte(t, s)
    <3>1. tree[s].part = "cte" /\ a = <<s, "cte">>
      BY <1>1, <2>2 DEF IsCte
    <3>2. PICK h : h = tree[s].parent
      OBVIOUS
    <3>3. h \in Statements /\ h # 0
      <4>1. s # 1
        BY <3>1 DEF TreeInv
      <4>2. tree[s].parent < s /\ tree[s].parent \in Nat /\ tree[s].parent # 0
        BY <4>1, NodeFields DEF TreeInv
      <4>3. Statements = 1 .. Len(tree) /\ Len(tree) \in Nat
        BY DEF TreeInv, Statements
      <4> QED BY <3>2, <4>2, <4>3
    <3>4. Above[h] \subseteq Above[s] /\ h \in Above[h]
      BY <3>2, <3>3, AboveAre
    <3>5. \E i \in DOMAIN Children(h, "cte") : Children(h, "cte")[i] = s
      BY <3>1, <3>2, <3>3, ChildAt
    <3> QED BY <3>1, <3>3, <3>4, <3>5
  <2> QED BY <1>2, <2>1, <2>2
<1>9. \A c \in Above[h] : <<tree[c].parent, tree[c].part>> \notin x /\ <<c, "cte">> \notin x
  BY <1>6, <1>8
<1>10. \A c \in Above[h] : Bytes(Texts(x \cup {a})[c]) < Bytes(Texts(x)[c])
  <2>1. a \notin x
    BY <1>1
  <2> QED BY <1>3, <1>4, <1>8, <1>9, <2>1, OuterShorter
<1>11. 1 \in Above[h]
  BY FirstAbove
<1> QED BY <1>1, <1>10, <1>11 DEF Query

LEMMA RoundIsShorter ==
  ASSUME IInv, RoundsInv, [Next]_vars
  PROVE  [\A a \in cut' \ cut : Worthwhile(a) => Bytes(output') < Bytes(output)]_cut
<1>1. SUFFICES ASSUME NEW a \in cut' \ cut, Worthwhile(a)
               PROVE  Bytes(output') < Bytes(output)
  OBVIOUS
<1>2. ApplyTruncation
  BY <1>1 DEF Next, vars, truncation, ParseNode, Parsed, VisitStmt, WhereSaved,
     VisitCommonTableExpr, VisitColumnRef, HandleRangeVar, WalkEnds, Truncate, TruncateHard
<1>3. PICK t \in truncations :
        /\ \A u \in truncations : NotAfter(t, u)
        /\ truncations' = truncations \ {t} /\ cut' = cut \cup {t.of}
  BY <1>2 DEF ApplyTruncation
<1>4. t.of = a /\ a \notin cut /\ cut' # cut
  BY <1>1, <1>3
<1>5. \A b \in cut : ~Within(a, b)
  BY <1>1, <1>4, RoundIsDeepest
<1>6. PICK x, y : x = cut /\ y = cut \cup {a}
  OBVIOUS
<1>7. cut' = y /\ y = x \cup {a}
  BY <1>3, <1>4, <1>6
<1>8. output' = Query(y) /\ output = Query(x)
  BY <1>2, <1>6, <1>7 DEF ApplyTruncation, RoundsInv
<1>9. t \in PossibleTruncations /\ TreeInv /\ 1 \in Statements
  <2>1. pc = "apply"
    BY <1>2 DEF ApplyTruncation
  <2> QED BY <1>3, <2>1 DEF RoundsInv, IInv, WalkInv
<1>10. Bytes(Query(x \cup {t.of})) < Bytes(Query(x))
  <2>1. \/ t.of[2] # "target"
        \/ CutTarget(t.of[1]) = Dots
        \/ Bytes(TargetList(t.of[1], Texts(x))) > Bytes(CutTarget(t.of[1]))
    BY <1>1, <1>4, <1>6 DEF Worthwhile
  <2> QED BY <1>4, <1>5, <1>6, <1>9, <2>1, RoundShorter
<1> QED BY <1>4, <1>7, <1>8, <1>10

\* A round makes the query shorter unless it is on a SET list or the list of a SELECT
\* DISTINCT that is no longer than what takes its place: what has been measured as longer
\* than the dots still is, and is in nothing that was cut.
THEOREM RoundsShortenTheorem == Spec => RoundsShorten
<1>1. IInv /\ RoundsInv /\ [Next]_vars =>
        [\A a \in cut' \ cut : Worthwhile(a) => Bytes(output') < Bytes(output)]_cut
  BY RoundIsShorter
<1> QED BY <1>1, WalkInvariance, RoundsInvariance, PTL DEF Spec, RoundsShorten
=============================================================================
