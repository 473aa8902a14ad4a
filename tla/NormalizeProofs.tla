-------------------------- MODULE NormalizeProofs --------------------------
(***************************************************************************)
(* What TLAPS proves of Normalize, for every input, as long as expressions   *)
(* are no deeper than their fingerprints look (~DeepTrees). A GROUP BY item  *)
(* gives back the numbers of its constants by subtracting their count; that  *)
(* this undoes what its walk added rests on Plain: no item whose fingerprint *)
(* shows no SELECT contains a GROUP BY that gave numbers back itself.        *)
(***************************************************************************)
EXTENDS Normalize, FiniteSetTheorems, TLAPS

\* The numbers of our own in s are below h; all of 1 .. h - 1 are among the first n.
Below(s, h) == \A j \in DOMAIN s : s[j] < 0 => -s[j] < h
Covered(h, n) == \A k \in 1 .. h - 1 : \E i \in 1 .. n : i \in DOMAIN ids /\ ids[i] = -k

Numbering == highest >= 1 /\ Below(ids, highest) /\ Covered(highest, Len(ids))

\* The present param_refs, if any, belong to the innermost target list element, and
\* no SELECT with a target list has been walked inside it.
Recorded ==
  /\ IF Recording THEN Len(refs) < bufSize ELSE refs = <<>>
  /\ Below(refs, highest)
  /\ Recording => \E r \in Levels : r <= depth /\ phase[r] = "target" /\ r \notin sub

Listed ==
  /\ Len(fps) = Len(lists)
  /\ \A k \in DOMAIN lists : Below(lists[k], highest)
  /\ \A k \in DOMAIN lists : fps[k] \in SelectFps => lists[k] = <<>>

Owned ==
  \A d \in Levels : d <= depth =>
    /\ own[d] \subseteq DOMAIN lists
    /\ own[d] # {} \/ phase[d] = "target" => 1 .. d - 1 \subseteq sub
    /\ phase[d] = "item" /\ match[d] # 0 => match[d] \in own[d] /\ fps[match[d]] = itemFp[d]

PlainItem(d) == d <= depth /\ phase[d] = "item" /\ itemFp[d] \notin SelectFps

Plain ==
  \A d \in Levels : PlainItem(d) =>
    \A e \in Levels : d < e /\ e <= depth => own[e] = {} /\ phase[e] \notin {"target", "targets"}

\* highest_normalize_param_id when the item at level d began, while it is plain.
Base(d) == highest - (Len(ids) - first[d])

Matched ==
  \A d \in Levels : PlainItem(d) /\ match[d] # 0 =>
    /\ first[d] <= Len(ids) /\ Base(d) >= 1
    /\ \A k \in DOMAIN lists : Below(lists[k], Base(d))
    /\ \A i \in 1 .. first[d] : ids[i] < 0 => -ids[i] < Base(d)
    /\ Covered(Base(d), first[d])

Distinct == NumbersDistinct /\ \A i \in DOMAIN ids : i \notin copied => ids[i] < 0

Outer == \A j \in DOMAIN walked : walked[j] <= extern

IInv ==
  /\ TypeOK /\ Numbering /\ Recorded /\ Listed /\ Owned /\ Plain /\ Matched
  /\ Distinct /\ Outer

-----------------------------------------------------------------------------

\* Part of a sequence.
LEMMA PartSeq ==
  ASSUME NEW S, NEW s \in Seq(S), NEW m \in Nat
  PROVE  SubSeq(s, m + 1, Len(s)) \in Seq(S)
OBVIOUS

\* The rest of a sequence.
LEMMA PartElements ==
  ASSUME NEW S, NEW s \in Seq(S), NEW m \in Nat, m <= Len(s)
  PROVE  /\ Len(SubSeq(s, m + 1, Len(s))) = Len(s) - m
         /\ \A j \in 1 .. Len(s) - m : SubSeq(s, m + 1, Len(s))[j] = s[m + j]
OBVIOUS

\* The elements of a sequence with one more.
LEMMA Appended ==
  ASSUME NEW S, NEW s \in Seq(S), NEW x \in S
  PROVE  /\ Append(s, x) \in Seq(S) /\ Len(s) \in Nat /\ Len(Append(s, x)) = Len(s) + 1
         /\ DOMAIN s = 1 .. Len(s) /\ DOMAIN Append(s, x) = 1 .. Len(s) + 1
         /\ \A j \in 1 .. Len(s) : s[j] \in S /\ Append(s, x)[j] = s[j]
         /\ Append(s, x)[Len(s) + 1] = x
OBVIOUS

\* A bound on the numbers of a sequence can be raised.
LEMMA BelowUp ==
  ASSUME NEW s \in Seq(Int), NEW h \in Int, NEW k \in Int, h <= k, Below(s, h)
  PROVE  Below(s, k)
<1>1. \A j \in DOMAIN s : s[j] \in Int
  OBVIOUS
<1> QED BY <1>1 DEF Below

\* One more number below the bound.
LEMMA BelowAppend ==
  ASSUME NEW s \in Seq(Int), NEW h \in Int, Below(s, h), NEW x \in Int, x < 0 => -x < h
  PROVE  Below(Append(s, x), h)
<1>1. \A j \in DOMAIN Append(s, x) : (j \in DOMAIN s /\ Append(s, x)[j] = s[j])
                                     \/ Append(s, x)[j] = x
  OBVIOUS
<1> QED BY <1>1 DEF Below

\* The initial state numbers nothing.
LEMMA InitHolds == Init => IInv
<1> SUFFICES ASSUME Init PROVE IInv
  OBVIOUS
<1> USE NormalizeAssumption
<1>1. (CHOOSE fp \in Fps : TRUE) \in Fps
  OBVIOUS
<1>2. TypeOK
  BY <1>1 DEF Init, TypeOK, Levels, Phases
<1>3. Numbering /\ Recorded /\ Listed /\ Distinct /\ Outer
  BY DEF Init, Numbering, Below, Covered, Recorded, Recording, Listed, Distinct,
         NumbersDistinct, Outer
<1>4. Owned /\ Plain /\ Matched
  BY DEF Init, Owned, Plain, Matched, PlainItem, Levels
<1> QED BY <1>2, <1>3, <1>4 DEF IInv

\* Recording a param ref keeps it below the next number and the buffer large enough.
LEMMA RecordRefHolds ==
  ASSUME TypeOK, Recorded, NEW id \in Int, id < 0 => -id < highest', highest' \in Int,
         highest <= highest', RecordRef(id), UNCHANGED <<depth, phase, sub>>
  PROVE  Recorded' /\ refs' \in Seq(Int) /\ bufSize' \in Nat
<1> USE DEF Recording
<1>1. CASE Recording
  <2>1. refs' = Append(refs, id) /\ bufSize' \in Nat /\ bufSize' > 0
    BY <1>1 DEF RecordRef, TypeOK
  <2>2. Len(refs') < bufSize' /\ refs' \in Seq(Int)
    BY <1>1, <2>1, SMTT(20) DEF RecordRef, TypeOK, Recorded
  <2>3. Below(refs', highest')
    <3>1. refs \in Seq(Int) /\ highest \in Int /\ Below(refs, highest)
      BY DEF TypeOK, Recorded
    <3>2. Below(refs, highest')
      BY <3>1, BelowUp
    <3> QED BY <2>1, <3>1, <3>2, BelowAppend
  <2> QED BY <1>1, <2>1, <2>2, <2>3 DEF Recorded
<1>2. CASE ~Recording
  BY <1>2 DEF RecordRef, buffer, TypeOK, Recorded, Below
<1> QED BY <1>1, <1>2

\* A constant gets a number no other constant has.
LEMMA ConstStep ==
  ASSUME IInv, RecordConstLocation
  PROVE  IInv'
<1> USE DEF IInv
<1>0. /\ ids' = Append(ids, -highest) /\ highest' = highest + 1
      /\ RecordRef(-highest) /\ walked' = Append(walked, CONST)
      /\ UNCHANGED <<extern, depth, phase, own, fps, lists, walks, offsets, used, match,
                     first, sub, itemFp, walkFrom, stage, params, bound, copied>>
  BY DEF RecordConstLocation, elements, element
<1>1. highest \in Int /\ highest >= 1 /\ ids \in Seq(Int)
  BY DEF TypeOK, Numbering
<1>2. Recorded' /\ refs' \in Seq(Int) /\ bufSize' \in Nat
  BY <1>0, <1>1, RecordRefHolds
<1>3. /\ ids' \in Seq(Int) /\ Len(ids') = Len(ids) + 1
      /\ \A i \in DOMAIN ids : i \in DOMAIN ids' /\ ids'[i] = ids[i]
      /\ ids'[Len(ids) + 1] = -highest
      /\ DOMAIN ids' = DOMAIN ids \cup {Len(ids) + 1}
      /\ DOMAIN ids = 1 .. Len(ids)
  BY <1>0, <1>1
<1>4. walked' \in Seq(Params \cup {CONST, OPEN, CLOSE}) /\ copied' \subseteq DOMAIN ids'
  BY <1>0, <1>3 DEF TypeOK
<1>5. TypeOK'
  BY <1>0, <1>1, <1>2, <1>3, <1>4, SMTT(20) DEF TypeOK
<1>6. Numbering'
  <2>1. Below(ids, highest) /\ Covered(highest, Len(ids))
    BY DEF Numbering
  <2>2. Below(ids', highest')
    <3>1. Below(ids, highest')
      BY <1>0, <1>1, <2>1, BelowUp
    <3> QED BY <1>0, <1>1, <3>1, BelowAppend
  <2>3. Covered(highest, Len(ids))'
    <3> SUFFICES ASSUME NEW k \in 1 .. highest' - 1
                 PROVE  \E i \in 1 .. Len(ids') : i \in DOMAIN ids' /\ ids'[i] = -k
      BY DEF Covered
    <3>1. CASE k = highest
      BY <1>1, <1>3, <3>1
    <3>2. CASE k # highest
      <4>1. k \in 1 .. highest - 1
        BY <1>0, <1>1, <3>2
      <4>2. PICK i \in 1 .. Len(ids) : i \in DOMAIN ids /\ ids[i] = -k
        BY <2>1, <4>1 DEF Covered
      <4> QED BY <1>1, <1>3, <4>2
    <3> QED BY <3>1, <3>2
  <2> QED BY <1>0, <1>1, <2>2, <2>3 DEF Numbering
<1>7. Listed'
  <2>1. \A k \in DOMAIN lists : Below(lists[k], highest')
    <3>1. \A k \in DOMAIN lists : lists[k] \in Seq(Int)
      BY DEF TypeOK
    <3> QED BY <1>0, <1>1, <3>1, BelowUp DEF Listed
  <2> QED BY <1>0, <2>1 DEF Listed
<1>8. Owned' /\ Plain'
  BY <1>0 DEF Owned, Plain, PlainItem
<1>9. Matched'
  <2> SUFFICES ASSUME NEW d \in Levels, PlainItem(d), match[d] # 0
      PROVE  /\ first[d] <= Len(ids') /\ Base(d)' >= 1
             /\ \A k \in DOMAIN lists : Below(lists[k], Base(d)')
             /\ \A i \in 1 .. first[d] : ids'[i] < 0 => -ids'[i] < Base(d)'
             /\ Covered(Base(d), first[d])'
    BY <1>0 DEF Matched, PlainItem
  <2>1. first[d] \in Nat /\ first[d] <= Len(ids) /\ Len(ids) \in Nat
    BY DEF Matched, TypeOK
  <2>2. Base(d)' = Base(d) /\ Base(d) \in Int
    <3>1. first'[d] = first[d] /\ highest' = highest + 1 /\ Len(ids') = Len(ids) + 1
      BY <1>0, <1>3
    <3>2. highest \in Int /\ Len(ids) \in Int /\ first[d] \in Int
      BY <1>1, <2>1
    <3> QED BY <3>1, <3>2 DEF Base
  <2>3. \A i \in 1 .. first[d] : i \in DOMAIN ids /\ ids'[i] = ids[i]
    <3> DEFINE n == first[d]  m == Len(ids)
    <3>1. n \in Nat /\ m \in Nat /\ n <= m
      BY <2>1
    <3> HIDE DEF n, m
    <3>2. 1 .. n \subseteq 1 .. m
      BY <3>1
    <3>3. \A i \in 1 .. m : i \in DOMAIN ids /\ ids'[i] = ids[i]
      BY ONLY <1>3 DEF m
    <3> QED BY ONLY <3>2, <3>3 DEF n
  <2>4. Base(d) >= 1 /\ (\A k \in DOMAIN lists : Below(lists[k], Base(d)))
        /\ (\A i \in 1 .. first[d] : ids[i] < 0 => -ids[i] < Base(d))
        /\ Covered(Base(d), first[d])
    BY DEF Matched
  <2>5. Covered(Base(d), first[d])'
    BY <1>0, <1>3, <2>2, <2>3, <2>4 DEF Covered
  <2> QED BY <1>3, <2>1, <2>2, <2>3, <2>4, <2>5, SMTT(30)
<1>10. Distinct'
  <2>1. \A i \in DOMAIN ids : i \notin copied => ids[i] \in Int /\ ids[i] < 0 /\ -ids[i] < highest
    BY <1>1 DEF Distinct, Numbering, Below
  <2>2. copied' = copied /\ Len(ids) + 1 \notin copied
    BY <1>0, <1>3 DEF TypeOK
  <2>3. \A i \in DOMAIN ids' : i \notin copied' =>
          (i \in DOMAIN ids /\ i \notin copied /\ ids'[i] = ids[i]) \/ (i = Len(ids) + 1)
    BY <1>3, <2>2
  <2>4. NumbersDistinct'
    BY <1>1, <1>3, <2>1, <2>3 DEF Distinct, NumbersDistinct
  <2>5. \A i \in DOMAIN ids' : i \notin copied' => ids'[i] < 0
    BY <1>1, <1>3, <2>1, <2>3
  <2> QED BY <2>4, <2>5 DEF Distinct
<1>11. Outer'
  <2>1. walked \in Seq(Params \cup {CONST, OPEN, CLOSE}) /\ extern \in Nat /\ extern' = extern
    BY <1>0 DEF TypeOK
  <2>2. \A j \in DOMAIN walked' : (j \in DOMAIN walked /\ walked'[j] = walked[j]) \/ walked'[j] = 0
    BY <1>0, <2>1 DEF CONST
  <2> QED BY <2>1, <2>2 DEF Outer
<1> QED BY <1>2, <1>5, <1>6, <1>7, <1>8, <1>9, <1>10, <1>11

\* What a step that gives no numbers leaves true.
LEMMA NumbersKept ==
  ASSUME IInv, UNCHANGED <<ids, highest, fps, lists, copied>>
  PROVE  Numbering' /\ Listed' /\ Distinct'
BY DEF IInv, Numbering, Listed, Distinct, NumbersDistinct, Below, Covered

\* The items that were plain and matched before keep what is known of them.
LEMMA MatchedKept ==
  ASSUME IInv, UNCHANGED <<ids, highest, lists>>,
         \A d \in Levels : PlainItem(d)' =>
           PlainItem(d) /\ match'[d] = match[d] /\ first'[d] = first[d]
  PROVE  Matched'
<1> SUFFICES ASSUME NEW d \in Levels, PlainItem(d)', match'[d] # 0
    PROVE  /\ first'[d] <= Len(ids) /\ Base(d)' >= 1
           /\ \A k \in DOMAIN lists : Below(lists[k], Base(d)')
           /\ \A i \in 1 .. first'[d] : ids[i] < 0 => -ids[i] < Base(d)'
           /\ Covered(Base(d), first[d])'
  BY DEF Matched
<1>1. PlainItem(d) /\ match[d] # 0 /\ first'[d] = first[d]
  OBVIOUS
<1>2. Base(d)' = Base(d)
  BY <1>1 DEF Base
<1>3. Covered(Base(d), first[d])' <=> Covered(Base(d), first[d])
  BY <1>1, <1>2 DEF Covered
<1> QED BY <1>1, <1>2, <1>3 DEF IInv, Matched

\* A ParamRef is recorded with its own number.
LEMMA ParamRefStep ==
  ASSUME IInv, NEW n \in Params, ParamRef(n)
  PROVE  IInv'
<1>0. /\ RecordRef(n) /\ walked' = Append(walked, n)
      /\ extern' = (IF n > extern THEN n ELSE extern) /\ params' = params \cup {n}
      /\ UNCHANGED <<ids, highest, depth, phase, own, fps, lists, walks, offsets, used, match,
                     first, sub, itemFp, walkFrom, stage, bound, copied>>
  BY DEF ParamRef, counters, elements, element
<1>1. n \in Nat \ {0} /\ highest \in Int
  BY NormalizeAssumption DEF IInv, TypeOK
<1>2. Recorded' /\ refs' \in Seq(Int) /\ bufSize' \in Nat
  BY <1>0, <1>1, RecordRefHolds DEF IInv
<1>3. walked' \in Seq(Params \cup {CONST, OPEN, CLOSE}) /\ extern' \in Nat
  BY <1>0, <1>1 DEF IInv, TypeOK
<1>4. TypeOK'
  BY <1>0, <1>2, <1>3 DEF IInv, TypeOK
<1>5. Numbering' /\ Listed' /\ Distinct'
  BY <1>0, NumbersKept
<1>6. Owned' /\ Plain'
  BY <1>0 DEF IInv, Owned, Plain, PlainItem
<1>7. Matched'
  BY <1>0, MatchedKept DEF PlainItem
<1>8. Outer'
  <2>1. walked \in Seq(Params \cup {CONST, OPEN, CLOSE}) /\ extern \in Nat
    BY DEF IInv, TypeOK
  <2>2. Params \cup {CONST, OPEN, CLOSE} \subseteq Int
    BY NormalizeAssumption DEF CONST, OPEN, CLOSE
  <2>4. \A j \in DOMAIN walked : walked[j] <= extern /\ walked[j] \in Int
    BY <2>1, <2>2 DEF IInv, Outer
  <2>3. \A j \in DOMAIN walked' : (j \in DOMAIN walked /\ walked'[j] = walked[j]) \/ walked'[j] = n
    BY <1>0, <2>1
  <2> QED BY <1>0, <1>1, <2>1, <2>3, <2>4 DEF Outer
<1> QED BY <1>2, <1>4, <1>5, <1>6, <1>7, <1>8 DEF IInv

\* A part that is not walked changes nothing.
LEMMA PassOverStep ==
  ASSUME IInv, NEW n \in Params, PassOver(n)
  PROVE  IInv'
<1>0. /\ params' = params \cup {n}
      /\ UNCHANGED <<ids, highest, extern, refs, bufSize, depth, phase, own, fps, lists,
                     walks, offsets, used, match, first, sub, itemFp, walkFrom, stage,
                     walked, bound, copied>>
  BY DEF PassOver, counters, buffer, elements, element
<1>1. TypeOK'
  BY <1>0 DEF IInv, TypeOK
<1>2. Numbering' /\ Listed' /\ Distinct'
  BY <1>0, NumbersKept
<1>3. Recorded' /\ Owned' /\ Plain' /\ Outer'
  BY <1>0 DEF IInv, Recorded, Recording, Below, Owned, Plain, PlainItem, Outer
<1>4. Matched'
  BY <1>0, MatchedKept DEF PlainItem
<1> QED BY <1>1, <1>2, <1>3, <1>4 DEF IInv

\* One more element of the history, none of them a ParamRef.
LEMMA OuterKept ==
  ASSUME IInv, NEW mark \in {OPEN, CLOSE}, walked' = Append(walked, mark), extern' = extern
  PROVE  Outer' /\ walked' \in Seq(Params \cup {CONST, OPEN, CLOSE})
<1>1. walked \in Seq(Params \cup {CONST, OPEN, CLOSE}) /\ extern \in Nat
  BY DEF IInv, TypeOK
<1>2. walked' \in Seq(Params \cup {CONST, OPEN, CLOSE})
  BY <1>1
<1>3. \A j \in DOMAIN walked' : (j \in DOMAIN walked /\ walked'[j] = walked[j]) \/ walked'[j] = mark
  BY <1>1
<1>4. mark <= extern
  BY <1>1 DEF OPEN, CLOSE
<1> QED BY <1>1, <1>2, <1>3, <1>4 DEF IInv, Outer

\* A SELECT begins without elements.
LEMMA BeginSelectStep ==
  ASSUME IInv, BeginSelect
  PROVE  IInv'
<1>0. /\ depth < MaxDepth /\ depth' = depth + 1
      /\ phase' = [phase EXCEPT ![depth + 1] = "head"]
      /\ own' = [own EXCEPT ![depth + 1] = {}] /\ bound' = [bound EXCEPT ![depth + 1] = {}]
      /\ walked' = Append(walked, OPEN)
      /\ UNCHANGED <<ids, highest, extern, refs, bufSize, fps, lists, walks, offsets, used,
                     match, first, sub, itemFp, walkFrom, stage, params, copied>>
  BY DEF BeginSelect, counters, buffer, elements, element
<1>1. /\ depth \in 0 .. MaxDepth /\ MaxDepth \in Nat /\ depth + 1 \in Levels
      /\ phase \in [Levels -> Phases] /\ own \in [Levels -> SUBSET Nat]
      /\ bound \in [Levels -> SUBSET Fps]
  <2>1. /\ depth \in 0 .. MaxDepth /\ MaxDepth \in Nat
        /\ phase \in [Levels -> Phases] /\ own \in [Levels -> SUBSET Nat]
        /\ bound \in [Levels -> SUBSET Fps]
    BY NormalizeAssumption DEF IInv, TypeOK
  <2> QED BY <1>0, <2>1 DEF Levels
<1>2. Outer' /\ walked' \in Seq(Params \cup {CONST, OPEN, CLOSE})
  BY <1>0, OuterKept
<1>3. /\ phase' \in [Levels -> Phases] /\ own' \in [Levels -> SUBSET Nat]
      /\ depth' \in 0 .. MaxDepth /\ bound' \in [Levels -> SUBSET Fps]
  BY <1>0, <1>1 DEF Phases
<1>4. TypeOK'
  BY <1>0, <1>2, <1>3 DEF IInv, TypeOK
<1>5. Numbering' /\ Listed' /\ Distinct'
  BY <1>0, NumbersKept
<1>6. \A d \in Levels : d # depth + 1 => phase'[d] = phase[d] /\ own'[d] = own[d]
  BY <1>0, <1>1
<1>7. phase'[depth + 1] = "head" /\ own'[depth + 1] = {}
  BY <1>0, <1>1
<1>8. \A d \in Levels : d \in Int /\ (d <= depth' <=> d <= depth \/ d = depth + 1)
  BY <1>0, <1>1 DEF Levels
<1>9. Recorded'
  BY <1>0, <1>1, <1>6, <1>8 DEF IInv, Recorded, Recording, Below
<1>10. Owned'
  BY <1>0, <1>6, <1>7, <1>8 DEF IInv, Owned
<1>11. \A d \in Levels : PlainItem(d)' => PlainItem(d)
  BY <1>0, <1>6, <1>7, <1>8 DEF PlainItem
<1>12. Plain'
  BY <1>6, <1>7, <1>8, <1>11 DEF IInv, Plain
<1>13. Matched'
  BY <1>0, <1>11, MatchedKept
<1> QED BY <1>2, <1>4, <1>5, <1>9, <1>10, <1>12, <1>13 DEF IInv

\* What the steps at level d have in common: d is the innermost SELECT.
LEMMA AtTop ==
  ASSUME IInv, NEW d \in Levels, depth = d
  PROVE  /\ d \in Nat /\ d >= 1 /\ \A e \in Levels : e \in Nat /\ (e <= d \/ e > d)
         /\ phase \in [Levels -> Phases] /\ own \in [Levels -> SUBSET Nat]
         /\ match \in [Levels -> Nat] /\ first \in [Levels -> Nat]
         /\ walkFrom \in [Levels -> Nat] /\ itemFp \in [Levels -> Fps]
         /\ sub \in SUBSET Levels /\ 1 .. d \subseteq Levels
         /\ highest \in Int /\ ids \in Seq(Int) /\ Len(ids) \in Nat
  <1>1. /\ phase \in [Levels -> Phases] /\ own \in [Levels -> SUBSET Nat]
        /\ match \in [Levels -> Nat] /\ first \in [Levels -> Nat]
        /\ walkFrom \in [Levels -> Nat] /\ itemFp \in [Levels -> Fps]
        /\ sub \in SUBSET Levels
        /\ highest \in Int /\ ids \in Seq(Int)
    BY DEF IInv, TypeOK
  <1>2. d \in Nat /\ d >= 1 /\ 1 .. d \subseteq Levels
        /\ \A e \in Levels : e \in Nat /\ (e <= d \/ e > d)
    BY NormalizeAssumption DEF Levels
  <1> QED BY <1>1, <1>2, SMTT(30)

\* The elements of the SELECTs around d no longer count as free of SELECTs.
LEMMA BeginTargetStep ==
  ASSUME IInv, ~DeepTrees, NEW d \in Levels, BeginTarget(d)
  PROVE  IInv'
<1>0. /\ depth = d /\ phase[d] \in {"head", "targets"} /\ Visible
      /\ phase' = [phase EXCEPT ![d] = "target"]
      /\ refs' = <<>> /\ bufSize' = 1
      /\ first' = [first EXCEPT ![d] = Len(ids)]
      /\ walkFrom' = [walkFrom EXCEPT ![d] = Len(walked)]
      /\ sub' = (sub \cup 1 .. d) \ {d}
      /\ UNCHANGED <<ids, highest, extern, depth, own, fps, lists, walks, offsets, used,
                     match, itemFp, stage, params, walked, bound, copied>>
  BY DEF BeginTarget, In, counters, elements
<1>1. /\ d \in Nat /\ d >= 1 /\ \A e \in Levels : e \in Nat /\ (e <= d \/ e > d)
      /\ phase \in [Levels -> Phases] /\ first \in [Levels -> Nat]
      /\ walkFrom \in [Levels -> Nat] /\ sub \in SUBSET Levels /\ 1 .. d \subseteq Levels
      /\ Len(ids) \in Nat
  BY <1>0, AtTop
<1>2. Len(walked) \in Nat
  BY DEF IInv, TypeOK
<1>3. /\ phase' \in [Levels -> Phases] /\ first' \in [Levels -> Nat]
      /\ walkFrom' \in [Levels -> Nat] /\ sub' \in SUBSET Levels
      /\ refs' \in Seq(Int) /\ bufSize' \in Nat
  BY <1>0, <1>1, <1>2 DEF Phases
<1>4. TypeOK'
  BY <1>0, <1>3 DEF IInv, TypeOK
<1>5. Numbering' /\ Listed' /\ Distinct'
  BY <1>0, NumbersKept
<1>6. phase'[d] = "target" /\ \A e \in Levels : e # d => phase'[e] = phase[e] /\ first'[e] = first[e]
  BY <1>0, <1>1
<1>7. Recorded'
  <2>1. d \notin sub'
    BY <1>0
  <2> QED BY <1>0, <1>1, <1>6, <2>1 DEF Recorded, Recording, Below
<1>8. Owned'
  <2>1. \A e \in Levels : e <= d => 1 .. e - 1 \subseteq sub'
    <3> SUFFICES ASSUME NEW e \in Levels, e <= d, NEW x \in 1 .. e - 1
                 PROVE  x \in 1 .. d /\ x # d
      BY <1>0
    <3> QED BY <1>1
  <2> QED BY <1>0, <1>6, <2>1 DEF IInv, Owned
<1>9. \A e \in Levels : ~PlainItem(e)'
  BY <1>0, <1>1, <1>6 DEF PlainItem, Visible
<1> QED BY <1>0, <1>4, <1>5, <1>7, <1>8, <1>9 DEF IInv, Plain, Matched, Outer

\* The fingerprints of the elements and items with a $n.
LEMMA BindType ==
  ASSUME IInv, NEW d \in Levels, NEW fp \in Fps
  PROVE  /\ bound \in [Levels -> SUBSET Fps] /\ Bind(d, fp) \in [Levels -> SUBSET Fps]
         /\ \A x \in Levels : bound[x] \subseteq Bind(d, fp)[x]
         /\ HoldsParam(Part(d)) => fp \in Bind(d, fp)[d]
<1>1. bound \in [Levels -> SUBSET Fps]
  BY DEF IInv, TypeOK
<1> QED BY <1>1 DEF Bind

\* The param refs of an element with a SELECT inside are gone.
LEMMA EndTargetStep ==
  ASSUME IInv, ~DeepTrees, NEW d \in Levels, EndTarget(d)
  PROVE  IInv'
<1>0. /\ depth = d /\ phase[d] = "target"
      /\ lists' = Append(lists, refs)
      /\ walks' = Append(walks, Part(d)) /\ offsets' = Append(offsets, first[d])
      /\ own' = [own EXCEPT ![d] = @ \cup {Len(fps) + 1}]
      /\ refs' = <<>> /\ bufSize' = 0
      /\ phase' = [phase EXCEPT ![d] = "targets"]
      /\ UNCHANGED <<ids, highest, extern, depth, used, match, first, sub, itemFp, walkFrom,
                     stage, params, walked, copied>>
  BY DEF EndTarget, In, counters
<1>a. PICK fp \in Fps : /\ fps' = Append(fps, fp) /\ bound' = Bind(d, fp)
                        /\ fp \in SelectFps => d \in sub
  BY DEF EndTarget
<1>1. /\ d \in Nat /\ d >= 1 /\ \A e \in Levels : e \in Nat /\ (e <= d \/ e > d)
      /\ phase \in [Levels -> Phases] /\ first \in [Levels -> Nat]
      /\ own \in [Levels -> SUBSET Nat]
      /\ walkFrom \in [Levels -> Nat] /\ 1 .. d \subseteq Levels /\ highest \in Int
  BY <1>0, AtTop
<1>2. /\ fps \in Seq(Fps) /\ lists \in Seq(Seq(Int)) /\ refs \in Seq(Int)
      /\ walks \in Seq(Seq(Params \cup {CONST, OPEN, CLOSE})) /\ offsets \in Seq(Nat)
      /\ walked \in Seq(Params \cup {CONST, OPEN, CLOSE})
  BY DEF IInv, TypeOK
<1>3. Part(d) \in Seq(Params \cup {CONST, OPEN, CLOSE})
  BY <1>1, <1>2, PartSeq DEF Part
<1>4. Len(fps) \in Nat /\ Len(fps) = Len(lists) /\ DOMAIN lists = 1 .. Len(lists)
  BY <1>2 DEF IInv, Listed
<1>5. /\ fps' \in Seq(Fps) /\ lists' \in Seq(Seq(Int))
      /\ walks' \in Seq(Seq(Params \cup {CONST, OPEN, CLOSE})) /\ offsets' \in Seq(Nat)
  BY <1>0, <1>1, <1>2, <1>3, <1>a
<1>6. /\ phase' \in [Levels -> Phases] /\ own' \in [Levels -> SUBSET Nat]
      /\ refs' \in Seq(Int) /\ bufSize' \in Nat /\ bound' \in [Levels -> SUBSET Fps]
  <2>1. bound' \in [Levels -> SUBSET Fps]
    BY <1>a, BindType
  <2> QED BY <1>0, <1>1, <1>4, <2>1 DEF Phases
<1>7. TypeOK'
  BY <1>0, <1>5, <1>6 DEF IInv, TypeOK
<1>8. /\ Len(fps') = Len(lists') /\ DOMAIN lists' = DOMAIN lists \cup {Len(fps) + 1}
      /\ \A k \in DOMAIN lists : lists'[k] = lists[k] /\ fps'[k] = fps[k]
      /\ lists'[Len(fps) + 1] = refs /\ fps'[Len(fps) + 1] = fp
      /\ Len(fps) + 1 \notin DOMAIN lists
  <2>1. fps' = Append(fps, fp) /\ lists' = Append(lists, refs)
    BY <1>0, <1>a
  <2>2. /\ Len(fps') = Len(fps) + 1 /\ fps'[Len(fps) + 1] = fp
        /\ \A k \in 1 .. Len(fps) : fps'[k] = fps[k]
    BY <1>2, <2>1, Appended
  <2>3. /\ Len(lists') = Len(lists) + 1 /\ lists'[Len(lists) + 1] = refs
        /\ \A k \in 1 .. Len(lists) : lists'[k] = lists[k]
        /\ DOMAIN lists' = 1 .. Len(lists) + 1
    BY <1>2, <2>1, Appended
  <2> QED BY ONLY <1>4, <2>2, <2>3
<1>9. d \in sub => refs = <<>>
  <2>1. 1 .. d - 1 \subseteq sub
    <3>1. d <= depth /\ phase[d] = "target" /\ Owned
      BY <1>0, <1>1 DEF IInv
    <3> QED BY <3>1 DEF Owned
  <2>2. ASSUME d \in sub, Recording PROVE FALSE
    <3>1. PICK r \in Levels : r <= depth /\ r \notin sub
      BY <2>2 DEF IInv, Recorded
    <3>2. r \in 1 .. d - 1
      BY <1>0, <1>1, <2>2, <3>1 DEF Levels
    <3> QED BY <2>1, <3>1, <3>2
  <2> QED BY <2>2 DEF IInv, Recorded
<1>10. Listed'
  <2>1. \A k \in DOMAIN lists' : Below(lists'[k], highest)
    BY <1>8 DEF IInv, Listed, Recorded
  <2>2. \A k \in DOMAIN lists' : fps'[k] \in SelectFps => lists'[k] = <<>>
    BY <1>8, <1>9, <1>a DEF IInv, Listed
  <2> QED BY <1>0, <1>8, <2>1, <2>2 DEF Listed
<1>11. Numbering' /\ Distinct' /\ Outer'
  BY <1>0 DEF IInv, Numbering, Distinct, NumbersDistinct, Below, Covered, Outer
<1>12. Recorded'
  BY <1>0 DEF Recorded, Recording, Below
<1>13. /\ phase'[d] = "targets" /\ own'[d] = own[d] \cup {Len(fps) + 1}
       /\ \A e \in Levels : e # d => phase'[e] = phase[e] /\ own'[e] = own[e]
  BY <1>0, <1>1
<1>14. Owned'
  BY <1>0, <1>1, <1>8, <1>13, SMTT(20) DEF IInv, Owned
<1>15. \A e \in Levels : ~PlainItem(e)'
  BY <1>0, <1>1, <1>13 DEF IInv, Plain, PlainItem
<1> QED BY <1>7, <1>10, <1>11, <1>12, <1>14, <1>15 DEF IInv, Plain, Matched

\* The steps between two clauses.
LEMMA ClauseStep ==
  ASSUME IInv, NEW d \in Levels, EndTargetList(d) \/ EndGroupClause(d)
  PROVE  IInv'
<1>0. PICK p \in {"from", "rest"} :
        /\ depth = d /\ phase[d] \in {"head", "targets", "from", "group"}
        /\ phase' = [phase EXCEPT ![d] = p]
        /\ UNCHANGED <<ids, highest, extern, refs, bufSize, depth, own, fps, lists, walks,
                       offsets, used, match, first, sub, itemFp, walkFrom, stage, params,
                       walked, bound, copied>>
  BY DEF EndTargetList, EndGroupClause, In, counters, buffer, elements, element
<1>1. phase \in [Levels -> Phases]
  BY DEF IInv, TypeOK
<1>2. TypeOK'
  <2>1. phase' \in [Levels -> Phases]
    BY <1>0, <1>1 DEF Phases
  <2> QED BY <1>0, <2>1 DEF IInv, TypeOK
<1>3. Numbering' /\ Listed' /\ Distinct'
  BY <1>0, NumbersKept
<1>4. phase'[d] \in {"from", "rest"} /\ \A e \in Levels : e # d => phase'[e] = phase[e]
  BY <1>0, <1>1
<1>5. Recorded' /\ Owned' /\ Outer'
  <2>1. Recording => \E r \in Levels : r <= depth /\ phase'[r] = "target" /\ r \notin sub
    BY <1>0, <1>4 DEF IInv, Recorded
  <2>2. Recorded'
    BY <1>0, <2>1 DEF IInv, Recorded, Recording, Below
  <2>3. Owned'
    BY <1>0, <1>4 DEF IInv, Owned
  <2> QED BY <1>0, <2>2, <2>3 DEF IInv, Outer
<1>6. \A e \in Levels : PlainItem(e)' => PlainItem(e)
  BY <1>0, <1>4 DEF PlainItem
<1>7. Plain'
  BY <1>0, <1>4, <1>6 DEF IInv, Plain
<1>8. Matched'
  BY <1>0, <1>6, MatchedKept
<1> QED BY <1>2, <1>3, <1>5, <1>7, <1>8 DEF IInv

\* An item starts from the numbers given so far.
LEMMA BeginGroupItemStep ==
  ASSUME IInv, NEW d \in Levels, BeginGroupItem(d)
  PROVE  IInv'
<1>0. PICK fp \in Fps : \E m \in Lookup(d, fp) :
        /\ depth = d /\ phase[d] \in {"from", "group"}
        /\ match' = [match EXCEPT ![d] = m] /\ used' = used \cup ({m} \ {0})
        /\ itemFp' = [itemFp EXCEPT ![d] = fp]
        /\ first' = [first EXCEPT ![d] = Len(ids)]
        /\ walkFrom' = [walkFrom EXCEPT ![d] = Len(walked)]
        /\ sub' = sub \ {d}
        /\ phase' = [phase EXCEPT ![d] = "item"]
        /\ UNCHANGED <<ids, highest, extern, refs, bufSize, depth, own, fps, lists, walks,
                       offsets, stage, params, walked, bound, copied>>
  BY DEF BeginGroupItem, In, counters, buffer, elements
<1>1. PICK m \in Lookup(d, fp) :
        match' = [match EXCEPT ![d] = m] /\ used' = used \cup ({m} \ {0})
  BY <1>0
<1>2. /\ d \in Nat /\ d >= 1 /\ \A e \in Levels : e \in Nat /\ (e <= d \/ e > d)
      /\ phase \in [Levels -> Phases] /\ own \in [Levels -> SUBSET Nat]
      /\ match \in [Levels -> Nat] /\ first \in [Levels -> Nat]
      /\ walkFrom \in [Levels -> Nat] /\ itemFp \in [Levels -> Fps]
      /\ sub \in SUBSET Levels /\ highest \in Int /\ ids \in Seq(Int) /\ Len(ids) \in Nat
  BY <1>0, AtTop
<1>3. m # 0 => m \in own[d] /\ fps[m] = fp
  BY DEF Lookup
<1>4. m \in Nat /\ Len(walked) \in Nat
  BY <1>2, <1>3 DEF IInv, TypeOK
<1>5. /\ phase' \in [Levels -> Phases] /\ match' \in [Levels -> Nat]
      /\ first' \in [Levels -> Nat] /\ walkFrom' \in [Levels -> Nat]
      /\ itemFp' \in [Levels -> Fps] /\ sub' \in SUBSET Levels
  BY <1>0, <1>1, <1>2, <1>4 DEF Phases
<1>6. TypeOK'
  <2>1. used' \in SUBSET Nat
    BY <1>1, <1>4 DEF IInv, TypeOK
  <2> QED BY <1>0, <1>5, <2>1 DEF IInv, TypeOK
<1>7. Numbering' /\ Listed' /\ Distinct'
  BY <1>0, NumbersKept
<1>8. /\ phase'[d] = "item" /\ match'[d] = m /\ first'[d] = Len(ids) /\ itemFp'[d] = fp
      /\ \A e \in Levels : e # d =>
           /\ phase'[e] = phase[e] /\ match'[e] = match[e]
           /\ first'[e] = first[e] /\ itemFp'[e] = itemFp[e]
  BY <1>0, <1>1, <1>2
<1>9. Recorded'
  <2>1. Recording => \E r \in Levels : r <= depth /\ phase'[r] = "target" /\ r \notin sub'
    BY <1>0, <1>8 DEF IInv, Recorded
  <2> QED BY <1>0, <2>1 DEF IInv, Recorded, Recording, Below
<1>10. Owned'
  <2>1. \A e \in Levels : e <= d => d \notin 1 .. e - 1
    BY <1>2
  <2> QED BY <1>0, <1>3, <1>8, <2>1 DEF IInv, Owned
<1>11. \A e \in Levels : e # d => (PlainItem(e)' <=> PlainItem(e))
  BY <1>0, <1>8 DEF PlainItem
<1>12. Plain'
  <2>1. \A e \in Levels : ~(d < e /\ e <= depth)
    BY <1>0, <1>2
  <2> QED BY <1>0, <1>8, <1>11, <2>1 DEF IInv, Plain
<1>13. Matched'
  <2> SUFFICES ASSUME NEW e \in Levels, PlainItem(e)', match'[e] # 0
      PROVE  /\ first'[e] <= Len(ids') /\ Base(e)' >= 1
             /\ \A k \in DOMAIN lists' : Below(lists'[k], Base(e)')
             /\ \A i \in 1 .. first'[e] : ids'[i] < 0 => -ids'[i] < Base(e)'
             /\ Covered(Base(e), first[e])'
    BY DEF Matched
  <2>1. CASE e = d
    <3>1. first'[e] = Len(ids) /\ Base(e)' = highest
      BY <1>0, <1>2, <1>8, <2>1 DEF Base
    <3>2. Covered(highest, Len(ids))' <=> Covered(highest, Len(ids))
      BY <1>0 DEF Covered
    <3>3. Covered(Base(e), first[e])'
      BY <1>0, <3>1, <3>2 DEF IInv, Numbering, Covered
    <3>4. DOMAIN ids = 1 .. Len(ids)
      BY <1>2
    <3>5. Below(ids, highest) /\ highest >= 1 /\ \A k \in DOMAIN lists : Below(lists[k], highest)
      BY DEF IInv, Numbering, Listed
    <3>6. \A i \in 1 .. Len(ids) : ids[i] < 0 => -ids[i] < highest
      BY <3>4, <3>5 DEF Below
    <3> QED BY <1>0, <1>2, <3>1, <3>3, <3>5, <3>6
  <2>2. CASE e # d
    <3>1. PlainItem(e) /\ match[e] # 0 /\ first'[e] = first[e]
      BY <1>8, <1>11, <2>2
    <3>2. Base(e)' = Base(e)
      BY <1>0, <3>1 DEF Base
    <3>3. Covered(Base(e), first[e])' <=> Covered(Base(e), first[e])
      BY <1>0, <3>1, <3>2 DEF Covered
    <3> QED BY <1>0, <3>1, <3>2, <3>3 DEF IInv, Matched
  <2> QED BY <2>1, <2>2
<1> QED BY <1>0, <1>6, <1>7, <1>9, <1>10, <1>12, <1>13 DEF IInv, Outer

\* An item that takes over the numbers of an element gives its own back.
LEMMA EndGroupItemStep ==
  ASSUME IInv, NEW d \in Levels, EndGroupItem(d)
  PROVE  IInv'
<1>0. /\ depth = d /\ phase[d] = "item" /\ AssignParams(d)
      /\ phase' = [phase EXCEPT ![d] = "group"]
      /\ UNCHANGED <<extern, refs, bufSize, depth, own, fps, lists, walks, offsets, used,
                     match, first, sub, itemFp, walkFrom, stage, params, walked>>
      /\ bound' = Bind(d, itemFp[d])
  BY DEF EndGroupItem, In, buffer, elements
<1>1. /\ d \in Nat /\ d >= 1 /\ \A e \in Levels : e \in Nat /\ (e <= d \/ e > d)
      /\ phase \in [Levels -> Phases] /\ match \in [Levels -> Nat]
      /\ first \in [Levels -> Nat] /\ highest \in Int /\ ids \in Seq(Int) /\ Len(ids) \in Nat
  BY <1>0, AtTop
<1>2. phase'[d] = "group" /\ \A e \in Levels : e # d => phase'[e] = phase[e]
  BY <1>0, <1>1
<1>3. phase' \in [Levels -> Phases] /\ bound' \in [Levels -> SUBSET Fps]
  <2>1. itemFp[d] \in Fps
    BY <1>0, AtTop
  <2>2. bound' \in [Levels -> SUBSET Fps]
    BY <1>0, <2>1, BindType
  <2> QED BY <1>0, <1>1, <2>2 DEF Phases
<1>4. \A e \in Levels : PlainItem(e)' => PlainItem(e) /\ e < d
  BY <1>0, <1>1, <1>2 DEF PlainItem
<1>5. Owned' /\ Plain' /\ Outer'
  <2>1. Owned'
    BY <1>0, <1>2 DEF IInv, Owned
  <2>2. Plain'
    BY <1>0, <1>2, <1>4 DEF IInv, Plain
  <2> QED BY <1>0, <2>1, <2>2 DEF IInv, Outer
<1>6. Recording => \E r \in Levels : r <= depth /\ phase'[r] = "target" /\ r \notin sub
  BY <1>0, <1>2 DEF IInv, Recorded
<1>7. CASE UNCHANGED <<ids, highest, copied>>
  <2>1. TypeOK'
    BY <1>0, <1>3, <1>7 DEF IInv, TypeOK
  <2>2. Numbering' /\ Listed' /\ Distinct'
    BY <1>0, <1>7, NumbersKept
  <2>3. Recorded'
    BY <1>0, <1>6, <1>7 DEF IInv, Recorded, Recording, Below
  <2>4. Matched'
    BY <1>0, <1>4, <1>7, MatchedKept
  <2> QED BY <1>5, <2>1, <2>2, <2>3, <2>4 DEF IInv
<1>8. CASE match[d] # 0 /\ Len(lists[match[d]]) = Len(ids) - first[d]
  <2> DEFINE list == lists[match[d]]
  <2>1. /\ ids' = [i \in DOMAIN ids |-> IF i > first[d] THEN list[i - first[d]] ELSE ids[i]]
        /\ highest' = highest - Len(list)
        /\ copied' = copied \cup (first[d] + 1 .. Len(ids))
    BY <1>0, <1>1, <1>8 DEF AssignParams
  <2>2. /\ match[d] \in own[d] /\ match[d] \in DOMAIN lists /\ fps[match[d]] = itemFp[d]
        /\ 1 .. d - 1 \subseteq sub
    <3>1. d <= depth /\ phase[d] = "item" /\ match[d] # 0
      BY <1>0, <1>1, <1>8
    <3>2. match[d] \in own[d] /\ fps[match[d]] = itemFp[d] /\ own[d] \subseteq DOMAIN lists
      BY <3>1 DEF IInv, Owned
    <3>3. 1 .. d - 1 \subseteq sub
      BY <3>1, <3>2 DEF IInv, Owned
    <3> QED BY <3>2, <3>3
  <2>3. list \in Seq(Int) /\ Len(list) \in Nat /\ DOMAIN list = 1 .. Len(list)
    BY <2>2 DEF IInv, TypeOK
  <2>4. first[d] \in Nat /\ first[d] <= Len(ids) /\ DOMAIN ids = 1 .. Len(ids)
    BY <1>1, <1>8, <2>3
  <2>5. CASE list = <<>>
    <3>1. first[d] = Len(ids)
      BY <1>8, <2>4, <2>5
    <3>2. ids' = [i \in DOMAIN ids |-> ids[i]] /\ highest' = highest /\ copied' = copied
      BY <1>1, <2>1, <2>4, <2>5, <3>1
    <3> QED BY <1>1, <1>7, <3>2
  <2>6. CASE list # <<>>
    <3>1. PlainItem(d)
      BY <1>0, <1>1, <2>2, <2>6 DEF IInv, Listed, PlainItem
    <3>2. highest' = Base(d)
      BY <1>1, <1>8, <2>1, <2>4 DEF Base
    <3>3. /\ highest' \in Int /\ highest' >= 1
          /\ \A k \in DOMAIN lists : Below(lists[k], highest')
          /\ \A i \in 1 .. first[d] : ids[i] < 0 => -ids[i] < highest'
          /\ Covered(highest', first[d])
      BY <1>1, <1>8, <2>1, <2>3, <3>1, <3>2, SMTT(30) DEF IInv, Matched
    <3>4. /\ DOMAIN ids' = DOMAIN ids
          /\ \A i \in 1 .. first[d] : i \in DOMAIN ids /\ ids'[i] = ids[i]
          /\ \A i \in DOMAIN ids : i > first[d] => i - first[d] \in DOMAIN list
                                                  /\ ids'[i] = list[i - first[d]]
      <4>1. DOMAIN ids' = DOMAIN ids
        BY <2>1
      <4>2. \A i \in 1 .. first[d] : i \in DOMAIN ids /\ ~(i > first[d])
        BY <1>1, <2>4
      <4>3. \A i \in DOMAIN ids : i > first[d] => i - first[d] \in DOMAIN list
        BY <1>1, <1>8, <2>3, <2>4
      <4> QED BY <2>1, <4>1, <4>2, <4>3
    <3>5. ids' \in Seq(Int) /\ Len(ids') = Len(ids)
      <4>1. \A i \in DOMAIN ids : ids'[i] \in Int
        <5> SUFFICES ASSUME NEW i \in DOMAIN ids PROVE ids'[i] \in Int
          OBVIOUS
        <5>1. CASE i > first[d]
          BY <2>3, <3>4, <5>1
        <5>2. CASE ~(i > first[d])
          <6>1. i \in 1 .. first[d]
            BY <1>1, <2>4, <5>2
          <6>2. ids[i] \in Int
            BY <1>1
          <6> QED BY <3>4, <6>1, <6>2
        <5> QED BY <5>1, <5>2
      <4>2. ids' = [i \in 1 .. Len(ids) |-> ids'[i]]
        BY <2>1, <2>4, <3>4
      <4>3. \A i \in 1 .. Len(ids) : ids'[i] \in Int
        BY <2>4, <4>1
      <4>4. Len(ids) \in Nat
        BY <1>1
      <4>5. ids' \in Seq(Int)
        BY <4>2, <4>3, <4>4
      <4>6. DOMAIN ids' = 1 .. Len(ids)
        BY <2>4, <3>4
      <4> QED BY <4>4, <4>5, <4>6
    <3>6. TypeOK'
      <4>1. copied' \subseteq DOMAIN ids'
        BY <2>1, <2>4, <3>4, <3>5, SMTT(20) DEF IInv, TypeOK
      <4>2. highest' \in Int /\ ids' \in Seq(Int) /\ TypeOK
        BY <3>3, <3>5 DEF IInv
      <4> QED BY <1>0, <1>3, <4>1, <4>2 DEF TypeOK
    <3>7. Numbering'
      <4>1. Below(ids', highest')
        <5> SUFFICES ASSUME NEW i \in DOMAIN ids', ids'[i] < 0 PROVE -ids'[i] < highest'
          BY DEF Below
        <5>1. CASE i > first[d]
          BY <2>2, <3>3, <3>4, <5>1 DEF Below
        <5>2. CASE ~(i > first[d])
          <6>1. i \in 1 .. first[d]
            BY <2>4, <3>4, <5>2
          <6> QED BY <3>3, <3>4, <6>1
        <5> QED BY <5>1, <5>2
      <4>2. Covered(highest, Len(ids))'
        <5> SUFFICES ASSUME NEW k \in 1 .. highest' - 1
                     PROVE  \E i \in 1 .. Len(ids') : i \in DOMAIN ids' /\ ids'[i] = -k
          BY DEF Covered
        <5>1. PICK i \in 1 .. first[d] : i \in DOMAIN ids /\ ids[i] = -k
          BY <3>3 DEF Covered
        <5> QED BY <2>4, <3>4, <3>5, <5>1
      <4> QED BY <3>3, <4>1, <4>2 DEF Numbering
    <3>8. Listed'
      BY <1>0, <3>3 DEF IInv, Listed
    <3>9. Recorded'
      <4>1. ~Recording
        <5> SUFFICES ASSUME Recording PROVE FALSE
          OBVIOUS
        <5>1. PICK r \in Levels : r <= depth /\ phase[r] = "target" /\ r \notin sub
          BY DEF IInv, Recorded
        <5>2. r \in 1 .. d - 1
          BY <1>0, <1>1, <5>1 DEF Levels
        <5> QED BY <2>2, <5>1, <5>2
      <4>2. refs = <<>>
        BY <4>1 DEF IInv, Recorded
      <4> QED BY <1>0, <4>1, <4>2 DEF Recorded, Recording, Below
    <3>10. Matched'
      <4>1. \A e \in Levels : PlainItem(e)' => PlainItem(e) /\ e < d /\ d <= depth
        BY <1>0, <1>1, <1>4
      <4>2. \A e \in Levels : PlainItem(e)' => own[d] = {}
        BY <4>1 DEF IInv, Plain
      <4> QED BY <2>2, <4>2 DEF Matched
    <3>11. Distinct'
      <4>1. \A i \in DOMAIN ids' : i \notin copied' => i \in 1 .. first[d] /\ i \notin copied
        BY <2>1, <2>4, <3>4
      <4>2. \A i \in DOMAIN ids' : i \notin copied' =>
              i \in DOMAIN ids /\ i \notin copied /\ ids'[i] = ids[i]
        BY <3>4, <4>1
      <4> QED BY <4>2 DEF IInv, Distinct, NumbersDistinct
    <3> QED BY <1>5, <3>6, <3>7, <3>8, <3>9, <3>10, <3>11 DEF IInv
  <2> QED BY <2>5, <2>6
<1> QED BY <1>0, <1>1, <1>7, <1>8 DEF AssignParams, counters

\* The end of a SELECT.
LEMMA EndSelectStep ==
  ASSUME IInv, NEW d \in Levels, EndSelect(d)
  PROVE  IInv'
<1>0. /\ depth = d /\ phase[d] = "rest" /\ depth' = d - 1 /\ walked' = Append(walked, CLOSE)
      /\ UNCHANGED <<ids, highest, extern, refs, bufSize, phase, own, fps, lists, walks,
                     offsets, used, match, first, sub, itemFp, walkFrom, stage, params, bound,
                     copied>>
  BY DEF EndSelect, In, counters, buffer, elements, element
<1>1. d \in Nat /\ d >= 1 /\ \A e \in Levels : e \in Nat
  BY <1>0, AtTop
<1>2. Outer' /\ walked' \in Seq(Params \cup {CONST, OPEN, CLOSE})
  BY <1>0, OuterKept
<1>3. TypeOK'
  <2>1. depth' \in 0 .. MaxDepth
    <3>1. depth \in 0 .. MaxDepth /\ MaxDepth \in Nat
      BY NormalizeAssumption DEF IInv, TypeOK
    <3> QED BY <1>0, <1>1, <3>1
  <2> QED BY <1>0, <1>2, <2>1 DEF IInv, TypeOK
<1>4. Numbering' /\ Listed' /\ Distinct'
  BY <1>0, NumbersKept
<1>5. \A e \in Levels : (e <= depth' => e <= depth) /\ (e <= depth /\ e # d => e <= depth')
  BY <1>0, <1>1
<1>6. Recorded'
  <2>1. Recording => \E r \in Levels : r <= depth' /\ phase[r] = "target" /\ r \notin sub
    BY <1>0, <1>5 DEF IInv, Recorded
  <2> QED BY <1>0, <2>1 DEF IInv, Recorded, Recording, Below
<1>7. \A e \in Levels : PlainItem(e)' => PlainItem(e)
  BY <1>0, <1>5 DEF PlainItem
<1>8. Owned' /\ Plain'
  BY <1>0, <1>5, <1>7 DEF IInv, Owned, Plain
<1>9. Matched'
  BY <1>0, <1>7, MatchedKept
<1> QED BY <1>2, <1>3, <1>4, <1>6, <1>8, <1>9 DEF IInv

\* Writing the query, and doing nothing, changes no number.
LEMMA IdleStep ==
  ASSUME IInv, Generate \/ UNCHANGED vars
  PROVE  IInv'
<1>0. /\ stage' \in {"walk", "done"}
      /\ UNCHANGED <<ids, highest, extern, refs, bufSize, depth, phase, own, fps, lists,
                     walks, offsets, used, match, first, sub, itemFp, walkFrom, params,
                     walked, bound, copied>>
  <2>1. stage \in {"walk", "done"}
    BY DEF IInv, TypeOK
  <2> QED BY <2>1 DEF Generate, vars, counters, buffer, elements, element
<1>1. TypeOK'
  BY <1>0 DEF IInv, TypeOK
<1>2. Numbering' /\ Listed' /\ Distinct'
  BY <1>0, NumbersKept
<1>3. Recorded' /\ Owned' /\ Plain' /\ Outer'
  BY <1>0 DEF IInv, Recorded, Recording, Below, Owned, Plain, PlainItem, Outer
<1>4. Matched'
  BY <1>0, MatchedKept DEF PlainItem
<1> QED BY <1>1, <1>2, <1>3, <1>4 DEF IInv

\* The invariant of the walk, for every input whose fingerprints look deep enough.
THEOREM WalkInvariance ==
  ASSUME ~DeepTrees
  PROVE  Spec => []IInv
<1>1. ASSUME IInv, [Next]_vars PROVE IInv'
  <2>1. CASE RecordConstLocation
    BY <1>1, <2>1, ConstStep
  <2>2. CASE BeginSelect
    BY <1>1, <2>2, BeginSelectStep
  <2>3. CASE Generate \/ UNCHANGED vars
    BY <1>1, <2>3, IdleStep
  <2>4. ASSUME NEW n \in Params, ParamRef(n) \/ PassOver(n) PROVE IInv'
    BY <1>1, <2>4, ParamRefStep, PassOverStep
  <2>5. ASSUME NEW d \in Levels, BeginTarget(d) \/ EndTarget(d) PROVE IInv'
    BY <1>1, <2>5, BeginTargetStep, EndTargetStep
  <2>6. ASSUME NEW d \in Levels, EndTargetList(d) \/ EndGroupClause(d) PROVE IInv'
    BY <1>1, <2>6, ClauseStep
  <2>7. ASSUME NEW d \in Levels, BeginGroupItem(d) \/ EndGroupItem(d) \/ EndSelect(d)
        PROVE  IInv'
    BY <1>1, <2>7, BeginGroupItemStep, EndGroupItemStep, EndSelectStep
  <2> QED BY <1>1, <2>1, <2>2, <2>3, <2>4, <2>5, <2>6, <2>7 DEF Next
<1> QED BY <1>1, InitHolds, PTL DEF Spec

\* param_refs is never written beyond its buffer (RefsInBounds).
THEOREM RefsFit ==
  ASSUME ~DeepTrees
  PROVE  Spec => []RefsInBounds
<1>1. IInv => RefsInBounds
  BY DEF IInv, Recorded, RefsInBounds
<1> QED BY <1>1, WalkInvariance, PTL

\* highest_normalize_param_id is one above the numbers in use, and these have no gap:
\* what a GROUP BY item gives back is exactly what its walk added (HighestIsNext).
THEOREM NumbersContiguous ==
  ASSUME ~DeepTrees
  PROVE  Spec => []HighestIsNext
<1>1. ASSUME IInv PROVE HighestIsNext
  <2>1. highest \in Int /\ ids \in Seq(Int) /\ Below(ids, highest) /\ Covered(highest, Len(ids))
    BY <1>1 DEF IInv, TypeOK, Numbering
  <2>2. \A j \in DOMAIN ids : ids[j] \in Int
    BY <2>1
  <2>3. \A j \in DOMAIN ids : ids[j] < 0 => -ids[j] \in 1 .. highest - 1
    BY <2>1, <2>2 DEF Below
  <2>4. \A k \in 1 .. highest - 1 : \E i \in DOMAIN ids : ids[i] < 0 /\ -ids[i] = k
    <3> SUFFICES ASSUME NEW k \in 1 .. highest - 1
                 PROVE  \E i \in DOMAIN ids : ids[i] < 0 /\ -ids[i] = k
      OBVIOUS
    <3>1. PICK i \in DOMAIN ids : ids[i] = -k
      BY <2>1 DEF Covered
    <3>2. k \in Int /\ k >= 1
      BY <2>1
    <3> QED BY <3>1, <3>2
  <2> QED BY <2>3, <2>4 DEF HighestIsNext
<1> QED BY <1>1, WalkInvariance, PTL

\* Two constants get one number only through a GROUP BY item (NumbersDistinct).
THEOREM ConstantsApart ==
  ASSUME ~DeepTrees
  PROVE  Spec => []NumbersDistinct
<1>1. IInv => NumbersDistinct
  BY DEF IInv, Distinct
<1> QED BY <1>1, WalkInvariance, PTL

-----------------------------------------------------------------------------
(* Where the numbers of $n in param_refs, and in clocations, come from.       *)

\* v is in the present element of the SELECT at level d.
Within(d, v) == \E k \in DOMAIN walked : k > walkFrom[d] /\ walked[k] = v

\* v is in target list element e.
Inside(e, v) == \E k \in DOMAIN walks[e] : walks[e][k] = v

Sources ==
  /\ \A d \in Levels : walkFrom[d] <= Len(walked)
  /\ \A j \in DOMAIN refs : refs[j] > 0 =>
       \E d \in Levels : d <= depth /\ phase[d] = "target" /\ d \notin sub /\ Within(d, refs[j])
  /\ Len(walks) = Len(fps)
  /\ \A e \in DOMAIN lists : \A j \in DOMAIN lists[e] : lists[e][j] > 0 => Inside(e, lists[e][j])
  /\ \A i \in DOMAIN ids : ids[i] > 0 => \E e \in DOMAIN walks : Inside(e, ids[i])

\* The types these are about.
LEMMA SourceTypes ==
  ASSUME IInv
  PROVE  /\ walked \in Seq(Params \cup {CONST, OPEN, CLOSE}) /\ Len(walked) \in Nat
         /\ DOMAIN walked = 1 .. Len(walked) /\ walkFrom \in [Levels -> Nat]
         /\ phase \in [Levels -> Phases]
         /\ refs \in Seq(Int) /\ ids \in Seq(Int) /\ lists \in Seq(Seq(Int)) /\ fps \in Seq(Fps)
         /\ walks \in Seq(Seq(Params \cup {CONST, OPEN, CLOSE}))
         /\ Len(fps) = Len(lists) /\ depth \in Int /\ highest \in Int /\ highest >= 1
         /\ \A d \in Levels : d \in Nat
<1>1. TypeOK /\ Len(fps) = Len(lists) /\ highest >= 1
  BY DEF IInv, Listed, Numbering
<1>2. \A d \in Levels : d \in Nat
  BY DEF Levels
<1>3. MaxDepth \in Nat
  BY NormalizeAssumption
<1> QED BY <1>1, <1>2, <1>3 DEF TypeOK

\* What is walked stays walked.
LEMMA WithinKept ==
  ASSUME IInv, NEW mark, walked' = Append(walked, mark), walkFrom' = walkFrom
  PROVE  /\ Len(walked') = Len(walked) + 1 /\ walked'[Len(walked) + 1] = mark
         /\ Len(walked) + 1 \in DOMAIN walked'
         /\ \A d \in Levels, v \in Int : Within(d, v) => Within(d, v)'
<1>1. walked \in Seq(Params \cup {CONST, OPEN, CLOSE})
  BY SourceTypes
<1>2. /\ Len(walked') = Len(walked) + 1 /\ walked'[Len(walked) + 1] = mark
      /\ Len(walked) + 1 \in DOMAIN walked'
      /\ \A k \in DOMAIN walked : k \in DOMAIN walked' /\ walked'[k] = walked[k]
  BY <1>1
<1> QED BY <1>2 DEF Within

\* Param refs come from the element that records them.
LEMMA SourcesLeaf ==
  ASSUME IInv, Sources, NEW id \in Int, RecordRef(id), NEW mark, walked' = Append(walked, mark),
         id > 0 => mark = id,
         UNCHANGED <<depth, phase, sub, fps, lists, walks, walkFrom>>,
         ids' = ids \/ \E x \in Int : x < 0 /\ ids' = Append(ids, x)
  PROVE  Sources'
<1> USE SourceTypes
<1>1. /\ Len(walked') = Len(walked) + 1 /\ walked'[Len(walked) + 1] = mark
      /\ Len(walked) + 1 \in DOMAIN walked'
      /\ \A d \in Levels, v \in Int : Within(d, v) => Within(d, v)'
  BY WithinKept
<1>2. \A d \in Levels : walkFrom[d] <= Len(walked')
  BY <1>1 DEF Sources
<1>3. ASSUME NEW j \in DOMAIN refs', refs'[j] > 0
      PROVE  \E d \in Levels : /\ d <= depth /\ phase[d] = "target" /\ d \notin sub
                               /\ Within(d, refs[j])'
  <2>1. CASE j \in DOMAIN refs /\ refs'[j] = refs[j]
    <3>1. PICK d \in Levels : /\ d <= depth /\ phase[d] = "target" /\ d \notin sub
                              /\ Within(d, refs[j])
      BY <1>3, <2>1 DEF Sources
    <3>2. refs[j] \in Int
      BY <2>1
    <3>3. Within(d, refs[j])'
      BY <1>1, <2>1, <3>1, <3>2 DEF Within
    <3> QED BY <3>1, <3>3
  <2>2. CASE ~(j \in DOMAIN refs /\ refs'[j] = refs[j])
    <3>1. Recording /\ refs' = Append(refs, id)
      BY <2>2 DEF RecordRef, buffer
    <3>2. refs'[j] = id
      <4>1. /\ DOMAIN refs = 1 .. Len(refs) /\ DOMAIN refs' = 1 .. Len(refs) + 1 /\ Len(refs) \in Nat
            /\ refs'[Len(refs) + 1] = id
            /\ \A k \in 1 .. Len(refs) : refs'[k] = refs[k]
        BY <3>1, Appended
      <4>2. j \in 1 .. Len(refs) + 1 /\ j \notin 1 .. Len(refs)
        BY <1>3, <2>2, <4>1
      <4>3. j = Len(refs) + 1
        BY ONLY <4>1, <4>2
      <4> QED BY <4>1, <4>3
    <3>3. PICK d \in Levels : d <= depth /\ phase[d] = "target" /\ d \notin sub
      BY <3>1 DEF IInv, Recorded
    <3>4. Len(walked) + 1 > walkFrom'[d] /\ walked'[Len(walked) + 1] = refs'[j]
      BY <1>1, <1>3, <3>2 DEF Sources
    <3> QED BY <1>1, <3>3, <3>4 DEF Within
  <2> QED BY <2>1, <2>2
<1>4. ASSUME NEW i \in DOMAIN ids', ids'[i] > 0
      PROVE  \E e \in DOMAIN walks : Inside(e, ids'[i])
  <2>1. i \in DOMAIN ids /\ ids'[i] = ids[i]
    <3>1. ASSUME NEW x \in Int, x < 0, ids' = Append(ids, x)
          PROVE  i \in DOMAIN ids /\ ids'[i] = ids[i]
      BY <1>4, <3>1
    <3> QED BY <1>4, <3>1
  <2> QED BY <1>4, <2>1 DEF Sources
<1> QED BY <1>2, <1>3, <1>4 DEF Sources, Inside

\* A step that neither walks a leaf nor ends an element or item.
LEMMA SourcesKept ==
  ASSUME IInv, Sources, UNCHANGED <<ids, fps, lists, walks>>,
         refs' = <<>> \/
           /\ refs' = refs
           /\ \A d \in Levels : d <= depth /\ phase[d] = "target" /\ d \notin sub =>
                /\ d <= depth' /\ phase'[d] = "target" /\ d \notin sub'
                /\ walkFrom'[d] = walkFrom[d],
         walked' = walked \/ \E mark \in {OPEN, CLOSE} : walked' = Append(walked, mark),
         \A d \in Levels : walkFrom'[d] = walkFrom[d] \/ walkFrom'[d] = Len(walked')
  PROVE  Sources'
<1> USE SourceTypes
<1>1. /\ Len(walked') \in Nat /\ Len(walked) <= Len(walked')
      /\ \A k \in DOMAIN walked : k \in DOMAIN walked' /\ walked'[k] = walked[k]
  BY DEF OPEN, CLOSE
<1>2. \A d \in Levels : walkFrom'[d] <= Len(walked')
  <2> SUFFICES ASSUME NEW d \in Levels PROVE walkFrom'[d] <= Len(walked')
    OBVIOUS
  <2>1. walkFrom[d] <= Len(walked) /\ walkFrom[d] \in Nat /\ Len(walked) \in Nat
    BY DEF Sources
  <2>2. walkFrom[d] <= Len(walked')
    BY <1>1, <2>1
  <2>3. Len(walked') <= Len(walked')
    BY <1>1
  <2>4. walkFrom'[d] = walkFrom[d] \/ walkFrom'[d] = Len(walked')
    OBVIOUS
  <2> QED BY <2>2, <2>3, <2>4
<1>3. ASSUME NEW j \in DOMAIN refs', refs'[j] > 0
      PROVE  \E d \in Levels : /\ d <= depth' /\ phase'[d] = "target" /\ d \notin sub'
                               /\ Within(d, refs[j])'
  <2>1. refs' = refs /\ refs # <<>>
    BY <1>3
  <2>2. PICK d \in Levels : /\ d <= depth /\ phase[d] = "target" /\ d \notin sub
                            /\ Within(d, refs[j])
    BY <1>3, <2>1 DEF Sources
  <2>3. Within(d, refs[j])'
    BY <1>1, <2>1, <2>2 DEF Within
  <2> QED BY <2>1, <2>2, <2>3
<1>4. ASSUME NEW i \in DOMAIN ids', ids'[i] > 0
      PROVE  \E e \in DOMAIN walks : Inside(e, ids'[i])
  BY <1>4 DEF Sources
<1> QED BY <1>2, <1>3, <1>4 DEF Sources, Inside

\* The param refs of an element are in its walk.
LEMMA SourcesEndTarget ==
  ASSUME IInv, Sources, NEW d \in Levels, EndTarget(d)
  PROVE  Sources'
<1> USE SourceTypes
<1>0. /\ depth = d /\ phase[d] = "target"
      /\ lists' = Append(lists, refs) /\ walks' = Append(walks, Part(d)) /\ refs' = <<>>
      /\ UNCHANGED <<ids, walkFrom, walked>>
  BY DEF EndTarget, In, counters
<1>a. PICK fp \in Fps : fps' = Append(fps, fp)
  BY DEF EndTarget
<1>1. Part(d) \in Seq(Params \cup {CONST, OPEN, CLOSE})
  BY PartSeq DEF Part
<1>2. ASSUME NEW j \in DOMAIN refs, refs[j] > 0 PROVE \E k \in DOMAIN Part(d) : Part(d)[k] = refs[j]
  <2>1. PICK r \in Levels : r <= depth /\ r \notin sub /\ Within(r, refs[j])
    BY <1>2 DEF Sources
  <2>2. r = d
    <3>0. d \in Nat /\ d <= depth
      BY <1>0
    <3>1. 1 .. d - 1 \subseteq sub
      BY <1>0, <3>0 DEF IInv, Owned
    <3>2. r \notin 1 .. d - 1 /\ r >= 1
      BY <2>1, <3>1 DEF Levels
    <3>3. r \in Nat /\ d \in Nat /\ r <= d
      BY <1>0, <2>1
    <3> QED BY <3>2, <3>3
  <2>3. PICK k \in DOMAIN walked : k > walkFrom[d] /\ walked[k] = refs[j]
    BY <2>1, <2>2 DEF Within
  <2>4. walkFrom[d] \in Nat /\ walkFrom[d] <= Len(walked)
    BY DEF Sources
  <2>5. /\ Len(Part(d)) = Len(walked) - walkFrom[d]
        /\ \A i \in 1 .. Len(walked) - walkFrom[d] : Part(d)[i] = walked[walkFrom[d] + i]
    BY <2>4, PartElements DEF Part
  <2>6. k - walkFrom[d] \in 1 .. Len(walked) - walkFrom[d] /\ walkFrom[d] + (k - walkFrom[d]) = k
    <3>1. k \in Nat /\ k <= Len(walked) /\ Len(walked) \in Nat
      BY <2>3
    <3> QED BY ONLY <2>3, <2>4, <3>1
  <2>7. DOMAIN Part(d) = 1 .. Len(Part(d))
    BY <1>1
  <2> QED BY ONLY <2>3, <2>5, <2>6, <2>7
<1> DEFINE n == Len(lists) + 1
<1>3. /\ DOMAIN lists' = DOMAIN lists \cup {n} /\ lists'[n] = refs
      /\ \A e \in DOMAIN lists : lists'[e] = lists[e] /\ e # n
  BY <1>0, Appended
<1>4. Len(walks) = Len(lists)
  BY DEF Sources
<1>5. /\ DOMAIN walks' = DOMAIN walks \cup {n} /\ walks'[n] = Part(d)
      /\ \A e \in DOMAIN walks : walks'[e] = walks[e]
      /\ DOMAIN walks = DOMAIN lists /\ Len(walks') = Len(fps')
  <2>1. /\ Len(walks) \in Nat /\ Len(walks') = Len(walks) + 1
        /\ DOMAIN walks = 1 .. Len(walks) /\ DOMAIN walks' = 1 .. Len(walks) + 1
        /\ \A e \in 1 .. Len(walks) : walks'[e] = walks[e]
        /\ walks'[Len(walks) + 1] = Part(d)
    BY <1>0, <1>1, Appended
  <2>2. Len(fps') = Len(fps) + 1
    BY <1>a, Appended
  <2>3. DOMAIN lists = 1 .. Len(lists)
    OBVIOUS
  <2>4. n = Len(walks) + 1 /\ Len(walks) \in Nat
    BY <1>4, <2>1
  <2>5. 1 .. n = (1 .. Len(walks)) \cup {n}
    BY ONLY <2>4
  <2>6. DOMAIN walks' = DOMAIN walks \cup {n} /\ walks'[n] = Part(d)
    BY ONLY <2>1, <2>4, <2>5
  <2>7. DOMAIN walks = DOMAIN lists
    BY ONLY <1>4, <2>1, <2>3
  <2>8. Len(walks') = Len(fps')
    BY <1>4, <2>1, <2>2
  <2> QED BY ONLY <2>1, <2>6, <2>7, <2>8
<1> HIDE DEF n
<1>6. \A e \in DOMAIN walks, v \in Int : Inside(e, v) => Inside(e, v)'
  BY <1>5 DEF Inside
<1>7. ASSUME NEW e \in DOMAIN lists', NEW j \in DOMAIN lists'[e], lists'[e][j] > 0
      PROVE  \E k \in DOMAIN walks'[e] : walks'[e][k] = lists'[e][j]
  <2>1. CASE e = n
    BY <1>2, <1>3, <1>5, <1>7, <2>1
  <2>2. CASE e # n
    <3>1. e \in DOMAIN lists /\ lists'[e] = lists[e] /\ walks'[e] = walks[e]
      BY <1>3, <1>5, <2>2
    <3>2. j \in DOMAIN lists[e] /\ lists[e][j] > 0
      BY <1>7, <3>1
    <3>3. Inside(e, lists[e][j])
      BY <3>1, <3>2 DEF Sources
    <3> QED BY <3>1, <3>3 DEF Inside
  <2> QED BY <2>1, <2>2
<1>8. ASSUME NEW i \in DOMAIN ids', ids'[i] > 0
      PROVE  \E e \in DOMAIN walks' : \E k \in DOMAIN walks'[e] : walks'[e][k] = ids'[i]
  <2>1. PICK e \in DOMAIN walks : Inside(e, ids[i])
    BY <1>0, <1>8 DEF Sources
  <2> QED BY <1>0, <1>5, <2>1 DEF Inside
<1>9. \A x \in Levels : walkFrom'[x] <= Len(walked')
  BY <1>0 DEF Sources
<1>10. refs' = <<>>
  BY <1>0
<1> QED BY <1>5, <1>7, <1>8, <1>9, <1>10 DEF Sources, Inside

\* The numbers an item takes over are those of its element.
LEMMA SourcesEndItem ==
  ASSUME IInv, Sources, NEW d \in Levels, EndGroupItem(d)
  PROVE  Sources'
<1> USE SourceTypes
<1>0. /\ depth = d /\ phase[d] = "item" /\ AssignParams(d)
      /\ phase' = [phase EXCEPT ![d] = "group"]
      /\ UNCHANGED <<depth, refs, fps, lists, walks, sub, walkFrom, walked>>
  BY DEF EndGroupItem, In, buffer, elements
<1>1. ASSUME NEW i \in DOMAIN ids', ids'[i] > 0
      PROVE  \E e \in DOMAIN walks : Inside(e, ids'[i])
  <2>1. CASE i \in DOMAIN ids /\ ids'[i] = ids[i]
    BY <1>1, <2>1 DEF Sources
  <2>2. CASE ~(i \in DOMAIN ids /\ ids'[i] = ids[i])
    <3> DEFINE list == lists[match[d]]
    <3>1. /\ ids' = [k \in DOMAIN ids |-> IF k > first[d] THEN list[k - first[d]] ELSE ids[k]]
          /\ match[d] > 0 /\ Len(list) = Len(ids) - first[d]
      BY <1>0, <1>1, <2>2 DEF AssignParams, counters
    <3>2. i \in DOMAIN ids /\ i > first[d] /\ ids'[i] = list[i - first[d]]
      BY <1>1, <2>2, <3>1
    <3>3. match[d] \in DOMAIN lists
      <4>1. match[d] # 0 /\ d <= depth
        BY <1>0, <3>1
      <4> QED BY <1>0, <4>1 DEF IInv, Owned
    <3>4. list \in Seq(Int) /\ DOMAIN list = 1 .. Len(list) /\ first[d] \in Nat
      BY <3>3 DEF IInv, TypeOK
    <3>5. i - first[d] \in DOMAIN list
      <4>0. ids \in Seq(Int)
        BY SourceTypes
      <4>1. DOMAIN ids = 1 .. Len(ids) /\ Len(ids) \in Nat
        BY ONLY <4>0
      <4>2. i \in 1 .. Len(ids) /\ Len(ids) \in Nat /\ first[d] \in Nat /\ i > first[d]
        BY ONLY <3>2, <3>4, <4>1
      <4>3. i - first[d] \in 1 .. Len(ids) - first[d]
        BY ONLY <4>2
      <4> QED BY <3>1, <3>4, <4>3
    <3>6. Inside(match[d], ids'[i])
      BY <1>1, <3>2, <3>3, <3>5 DEF Sources
    <3>7. match[d] \in DOMAIN walks
      BY <3>3 DEF Sources
    <3> QED BY <3>6, <3>7
  <2> QED BY <2>1, <2>2
<1>2. ASSUME NEW j \in DOMAIN refs, refs[j] > 0
      PROVE  \E x \in Levels : /\ x <= depth /\ phase'[x] = "target" /\ x \notin sub
                               /\ Within(x, refs[j])
  <2>1. PICK x \in Levels : /\ x <= depth /\ phase[x] = "target" /\ x \notin sub
                            /\ Within(x, refs[j])
    BY <1>2 DEF Sources
  <2>2. phase'[x] = "target"
    BY <1>0, <2>1
  <2> QED BY <2>1, <2>2
<1> QED BY <1>0, <1>1, <1>2 DEF Sources, Within, Inside

\* Numbers of $n in param_refs and clocations are those of $n in target list elements.
THEOREM SourceInvariance ==
  ASSUME ~DeepTrees
  PROVE  Spec => []Sources
<1>1. Init => Sources
  BY DEF Init, Sources, Levels
<1>2. ASSUME IInv, Sources, [Next]_vars PROVE Sources'
  <2> USE SourceTypes
  <2>1. CASE RecordConstLocation
    <3>1. /\ ids' = Append(ids, -highest) /\ RecordRef(-highest)
          /\ walked' = Append(walked, CONST)
          /\ UNCHANGED <<depth, phase, sub, fps, lists, walks, walkFrom>>
      BY <2>1 DEF RecordConstLocation, elements, element
    <3>2. PICK x \in Int : x = -highest
      BY <1>2
    <3>3. x < 0 /\ ids' = Append(ids, x) /\ RecordRef(x)
      BY <1>2, <3>1, <3>2
    <3>4. x > 0 => CONST = x
      BY <3>3
    <3> QED BY <1>2, <3>1, <3>3, <3>4, SourcesLeaf
  <2>2. ASSUME NEW n \in Params, ParamRef(n) PROVE Sources'
    <3>1. /\ RecordRef(n) /\ walked' = Append(walked, n)
          /\ UNCHANGED <<ids, depth, phase, sub, fps, lists, walks, walkFrom>>
      BY <2>2 DEF ParamRef, counters, elements, element
    <3>2. n \in Int
      BY NormalizeAssumption
    <3> QED BY <1>2, <3>1, <3>2, SourcesLeaf
  <2>3. CASE BeginSelect
    <3>1. /\ walked' = Append(walked, OPEN) /\ depth' = depth + 1
          /\ phase' = [phase EXCEPT ![depth + 1] = "head"]
          /\ UNCHANGED <<ids, fps, lists, walks, refs, sub, walkFrom>>
      BY <2>3 DEF BeginSelect, counters, buffer, elements
    <3>2. \A d \in Levels : d <= depth => d <= depth' /\ phase'[d] = phase[d]
      BY <1>2, <3>1
    <3> QED BY <1>2, <3>1, <3>2, SourcesKept
  <2>4. ASSUME NEW d \in Levels, BeginTarget(d) PROVE Sources'
    <3>1. /\ refs' = <<>> /\ walkFrom' = [walkFrom EXCEPT ![d] = Len(walked)]
          /\ UNCHANGED <<ids, fps, lists, walks, walked>>
      BY <2>4 DEF BeginTarget, counters, elements
    <3>2. \A x \in Levels : walkFrom'[x] = walkFrom[x] \/ walkFrom'[x] = Len(walked')
      BY <1>2, <3>1
    <3> QED BY <1>2, <3>1, <3>2, SourcesKept
  <2>5. ASSUME NEW d \in Levels, EndTargetList(d) \/ EndGroupClause(d) PROVE Sources'
    <3>1. /\ UNCHANGED <<ids, fps, lists, walks, refs, sub, walkFrom, walked, depth>>
          /\ phase[d] # "target" /\ \E p \in Phases : phase' = [phase EXCEPT ![d] = p]
      BY <2>5 DEF EndTargetList, EndGroupClause, In, counters, buffer, elements, element, Phases
    <3>2. \A x \in Levels : phase[x] = "target" => phase'[x] = "target"
      BY <1>2, <3>1
    <3> QED BY <1>2, <3>1, <3>2, SourcesKept
  <2>6. ASSUME NEW d \in Levels, BeginGroupItem(d) PROVE Sources'
    <3>1. /\ UNCHANGED <<ids, fps, lists, walks, refs, walked, depth>>
          /\ walkFrom' = [walkFrom EXCEPT ![d] = Len(walked)] /\ sub' = sub \ {d}
          /\ phase[d] # "target" /\ phase' = [phase EXCEPT ![d] = "item"]
      BY <2>6 DEF BeginGroupItem, In, counters, buffer, elements
    <3>2. \A x \in Levels : phase[x] = "target" =>
            phase'[x] = "target" /\ walkFrom'[x] = walkFrom[x]
      BY <1>2, <3>1
    <3>3. \A x \in Levels : walkFrom'[x] = walkFrom[x] \/ walkFrom'[x] = Len(walked')
      BY <1>2, <3>1
    <3> QED BY <1>2, <3>1, <3>2, <3>3, SourcesKept
  <2>7. ASSUME NEW d \in Levels, EndSelect(d) PROVE Sources'
    <3>1. /\ walked' = Append(walked, CLOSE) /\ depth = d /\ depth' = d - 1 /\ phase[d] = "rest"
          /\ UNCHANGED <<ids, fps, lists, walks, refs, sub, walkFrom, phase>>
      BY <2>7 DEF EndSelect, In, counters, buffer, elements, element
    <3>2. \A x \in Levels : x <= depth /\ phase[x] = "target" => x <= depth'
      BY <1>2, <3>1
    <3> QED BY <1>2, <3>1, <3>2, SourcesKept
  <2>8. CASE (\E n \in Params : PassOver(n)) \/ Generate \/ UNCHANGED vars
    <3>1. UNCHANGED <<ids, fps, lists, walks, refs, sub, walkFrom, walked, depth, phase>>
      BY <2>8 DEF PassOver, Generate, vars, counters, buffer, elements, element
    <3> QED BY <1>2, <3>1, SourcesKept
  <2>9. ASSUME NEW d \in Levels, EndTarget(d) \/ EndGroupItem(d) PROVE Sources'
    BY <1>2, <2>9, SourcesEndTarget, SourcesEndItem
  <2> QED BY <1>2, <2>1, <2>2, <2>3, <2>4, <2>5, <2>6, <2>7, <2>8, <2>9 DEF Next
<1> QED BY <1>1, <1>2, WalkInvariance, PTL DEF Spec

\* A constant has the number of a $n only if it is in a GROUP BY item and that $n is in a
\* target list element (NoCollision): all numbers of our own are above those of the $n.
THEOREM ParamsApart ==
  ASSUME ~DeepTrees
  PROVE  Spec => []NoCollision
<1>1. ASSUME IInv, Sources PROVE NoCollision
  <2> SUFFICES ASSUME NEW i \in DOMAIN ids, NEW n \in Params, Number(i) = n,
                      NEW j \in DOMAIN walked, walked[j] = n
               PROVE  i \in copied /\ \E e \in DOMAIN walks : Inside(e, n)
    BY DEF NoCollision, Inside
  <2>1. ids[i] \in Int /\ extern \in Nat /\ n \in Nat \ {0}
    BY <1>1, NormalizeAssumption DEF IInv, TypeOK
  <2>2. n <= extern
    BY <1>1 DEF IInv, Outer
  <2>3. ~(ids[i] < 0)
    BY <2>1, <2>2 DEF Number
  <2>4. ids[i] = n /\ ids[i] > 0
    BY <2>1, <2>3 DEF Number
  <2>5. i \in copied
    BY <1>1, <2>3 DEF IInv, Distinct
  <2> QED BY <1>1, <2>4, <2>5 DEF Sources
<1> QED BY <1>1, WalkInvariance, SourceInvariance, PTL

-----------------------------------------------------------------------------
(* GROUP BY items that repeat an element of constants only share its numbers. *)

PlainWalk(s) == \A j \in DOMAIN s : s[j] = CONST

\* The part of walked of the present element of the SELECT at level d holds constants only.
PlainPart(d) == \A j \in DOMAIN walked : j > walkFrom[d] => walked[j] = CONST

\* While an element is walked, it is the innermost one if it is plain so far, and its
\* constants are its whole walk; those of a target list element are in param_refs.
InElement ==
  \A d \in Levels : d <= depth /\ phase[d] \in {"target", "item"} =>
    /\ walkFrom[d] <= Len(walked) /\ first[d] <= Len(ids)
    /\ PlainPart(d) => d = depth /\ Len(ids) - first[d] = Len(walked) - walkFrom[d]
    /\ PlainPart(d) /\ phase[d] = "target" =>
         /\ Recording /\ Len(refs) = Len(ids) - first[d]
         /\ \A j \in 1 .. Len(refs) : refs[j] = ids[first[d] + j]

\* n of ids is from before all items that are being walked from level d on.
Before(n, d) == \A x \in Levels : d <= x /\ x <= depth /\ phase[x] = "item" => n <= first[x]

\* A plain element has recorded its constants, which still have these numbers: items
\* only change what they have walked themselves.
PlainLists ==
  \A d \in Levels : d <= depth =>
    \A e \in own[d] : PlainWalk(walks[e]) =>
      /\ Len(lists[e]) = Len(walks[e]) /\ offsets[e] + Len(walks[e]) <= Len(ids)
      /\ \A j \in 1 .. Len(walks[e]) : lists[e][j] = ids[offsets[e] + j]
      /\ Before(offsets[e] + Len(walks[e]), d)

\* An item without a match has none of the elements left with its fingerprint.
Unmatched ==
  \A d \in Levels : d <= depth /\ phase[d] = "item" /\ match[d] = 0 =>
    \A e \in own[d] : fps[e] = itemFp[d] => e \in used

\* A constant of an earlier item has taken over the first number of an element.
Over(d, e) == \E i \in copied : ids[i] = ids[offsets[e] + 1] /\ Before(i, d)

\* A plain element that was taken off the list is the match of the present item, or
\* was that of an earlier one, which took over its numbers or had a $n.
Taken ==
  \A d \in Levels : d <= depth =>
    \A e \in own[d] \cap used : PlainWalk(walks[e]) /\ walks[e] # <<>> =>
      \/ phase[d] = "item" /\ match[d] = e
      \/ Over(d, e)
      \/ fps[e] \in bound[d]

\* An element with a $n binds its fingerprint.
Bounded ==
  \A d \in Levels : d <= depth =>
    \A e \in own[d] : HoldsParam(walks[e]) => fps[e] \in bound[d]

\* Each element is of one SELECT.
Apart ==
  /\ Len(walks) = Len(fps) /\ Len(offsets) = Len(fps) /\ used \subseteq DOMAIN fps
  /\ \A d, x \in Levels : d < x /\ x <= depth => own[d] \cap own[x] = {}

SInv == InElement /\ PlainLists /\ Unmatched /\ Taken /\ Bounded /\ Apart

\* The types of what belongs to an element.
LEMMA ElementTypes ==
  ASSUME IInv, SInv, NEW d \in Levels, d <= depth, NEW e \in own[d]
  PROVE  /\ e \in DOMAIN lists /\ e \in DOMAIN walks /\ e \in DOMAIN offsets /\ e \in DOMAIN fps
         /\ lists[e] \in Seq(Int) /\ offsets[e] \in Nat /\ Len(walks[e]) \in Nat
         /\ walks[e] \in Seq(Params \cup {CONST, OPEN, CLOSE})
         /\ DOMAIN walks[e] = 1 .. Len(walks[e])
<1>1. /\ lists \in Seq(Seq(Int)) /\ offsets \in Seq(Nat) /\ fps \in Seq(Fps)
      /\ walks \in Seq(Seq(Params \cup {CONST, OPEN, CLOSE}))
  BY DEF IInv, TypeOK
<1>2. e \in DOMAIN lists /\ Len(fps) = Len(lists)
  BY DEF IInv, Owned, Listed
<1>3. Len(walks) = Len(fps) /\ Len(offsets) = Len(fps)
  BY DEF SInv, Apart
<1>4. e \in DOMAIN walks /\ e \in DOMAIN offsets /\ e \in DOMAIN fps
  BY <1>1, <1>2, <1>3
<1>5. /\ lists[e] \in Seq(Int) /\ offsets[e] \in Nat
      /\ walks[e] \in Seq(Params \cup {CONST, OPEN, CLOSE})
  BY <1>1, <1>2, <1>4
<1> QED BY <1>2, <1>4, <1>5

\* A step after which each item is one from before, or began with what was numbered then.
ItemsKept ==
  \A x \in Levels : x <= depth' /\ phase'[x] = "item" =>
    \/ x <= depth /\ phase[x] = "item" /\ first'[x] = first[x]
    \/ first'[x] = Len(ids)

LEMMA BeforeKept ==
  ASSUME ItemsKept, NEW n \in Int, n <= Len(ids), NEW d \in Levels, Before(n, d)
  PROVE  Before(n, d)'
BY DEF ItemsKept, Before

\* Numbers change only behind the beginning of an item that is being walked.
IdsKept ==
  /\ Len(ids) <= Len(ids')
  /\ \A i \in 1 .. Len(ids), d \in Levels : d <= depth' /\ Before(i, d) => ids'[i] = ids[i]

\* What steps leave true of the elements there are.
LEMMA ListsKept ==
  ASSUME IInv, SInv, ItemsKept, IdsKept, Len(ids') \in Nat,
         NEW d \in Levels, d <= depth, d <= depth', NEW e \in own[d], PlainWalk(walks[e]),
         walks'[e] = walks[e], lists'[e] = lists[e], offsets'[e] = offsets[e],
         copied \subseteq copied'
  PROVE  /\ Len(lists'[e]) = Len(walks'[e]) /\ offsets'[e] + Len(walks'[e]) <= Len(ids')
         /\ \A j \in 1 .. Len(walks'[e]) : lists'[e][j] = ids'[offsets'[e] + j]
         /\ Before(offsets[e] + Len(walks[e]), d)'
         /\ walks[e] # <<>> /\ Over(d, e) => Over(d, e)'
<1>1. /\ Len(lists[e]) = Len(walks[e]) /\ offsets[e] + Len(walks[e]) <= Len(ids)
      /\ \A j \in 1 .. Len(walks[e]) : lists[e][j] = ids[offsets[e] + j]
      /\ Before(offsets[e] + Len(walks[e]), d)
  BY DEF SInv, PlainLists
<1>2. /\ offsets[e] \in Nat /\ Len(walks[e]) \in Nat /\ Len(ids) \in Nat
      /\ ids \in Seq(Int) /\ copied \subseteq DOMAIN ids
  <2>1. offsets[e] \in Nat /\ Len(walks[e]) \in Nat
    BY ElementTypes
  <2>2. ids \in Seq(Int) /\ copied \subseteq DOMAIN ids
    BY DEF IInv, TypeOK
  <2> QED BY <2>1, <2>2
<1>3. first \in [Levels -> Nat]
  BY DEF IInv, TypeOK
<1>4. \A i \in 1 .. offsets[e] + Len(walks[e]) : i \in 1 .. Len(ids) /\ Before(i, d)
  <2> SUFFICES ASSUME NEW i \in 1 .. offsets[e] + Len(walks[e])
               PROVE  i \in 1 .. Len(ids) /\ Before(i, d)
    OBVIOUS
  <2>1. i \in 1 .. Len(ids) /\ i <= offsets[e] + Len(walks[e]) /\ i \in Int
    BY <1>1, <1>2
  <2>2. ASSUME NEW x \in Levels, d <= x, x <= depth, phase[x] = "item" PROVE i <= first[x]
    <3>1. offsets[e] + Len(walks[e]) <= first[x] /\ first[x] \in Int
      BY <1>1, <1>3, <2>2 DEF Before
    <3> QED BY <1>2, <2>1, <3>1
  <2> QED BY <2>1, <2>2 DEF Before
<1>5. \A i \in 1 .. offsets[e] + Len(walks[e]) : ids'[i] = ids[i]
  BY <1>4 DEF IdsKept
<1>6. \A j \in 1 .. Len(walks[e]) : offsets[e] + j \in 1 .. offsets[e] + Len(walks[e])
  BY <1>2
<1>7. offsets[e] + Len(walks[e]) <= Len(ids')
  BY <1>1, <1>2 DEF IdsKept
<1>8. Before(offsets[e] + Len(walks[e]), d)'
  <2>1. PICK n \in Int : n = offsets[e] + Len(walks[e])
    BY <1>2
  <2>2. n = offsets'[e] + Len(walks'[e])
    BY <2>1
  <2>3. Before(n, d)'
    BY <1>1, <1>2, <2>1, BeforeKept
  <2> QED BY <2>2, <2>3 DEF Before
<1>9. ASSUME walks[e] # <<>>, Over(d, e) PROVE Over(d, e)'
  <2>1. PICK i \in copied : ids[i] = ids[offsets[e] + 1] /\ Before(i, d)
    BY <1>9 DEF Over
  <2>2. i \in 1 .. Len(ids) /\ i \in Int /\ i <= Len(ids)
    BY <1>2
  <2>3. ids'[i] = ids[i] /\ Before(i, d)'
    BY <2>1, <2>2, BeforeKept DEF IdsKept
  <2>4. 1 \in 1 .. Len(walks[e])
    <3>1. walks[e] \in Seq(Params \cup {CONST, OPEN, CLOSE})
      BY ElementTypes
    <3> QED BY <1>9, <3>1
  <2>5. ids'[offsets[e] + 1] = ids[offsets[e] + 1]
    BY <1>5, <1>6, <2>4
  <2> QED BY <2>1, <2>3, <2>5 DEF Over
<1> QED BY <1>1, <1>5, <1>6, <1>7, <1>8, <1>9

\* The same for a step that leaves the elements alone.
LEMMA ElementsKept ==
  ASSUME IInv, SInv, ItemsKept, IdsKept, Len(ids') \in Nat, copied \subseteq copied',
         UNCHANGED <<fps, lists, walks, offsets>>,
         \A d \in Levels : d <= depth' => own'[d] = {} \/ (d <= depth /\ own'[d] = own[d]),
         \A d \in Levels : d <= depth /\ d <= depth' => \A e \in own[d] \cap used' :
           PlainWalk(walks[e]) /\ walks[e] # <<>> =>
             \/ phase'[d] = "item" /\ match'[d] = e
             \/ Over(d, e)' \/ Over(d, e) \/ fps[e] \in bound'[d],
         \A d \in Levels : d <= depth /\ d <= depth' => bound[d] \subseteq bound'[d]
  PROVE  PlainLists' /\ Taken' /\ Bounded'
<1>1. PlainLists'
  <2> SUFFICES ASSUME NEW d \in Levels, d <= depth', NEW e \in own'[d], PlainWalk(walks'[e])
      PROVE  /\ Len(lists'[e]) = Len(walks'[e]) /\ offsets'[e] + Len(walks'[e]) <= Len(ids')
             /\ \A j \in 1 .. Len(walks'[e]) : lists'[e][j] = ids'[offsets'[e] + j]
             /\ Before(offsets[e] + Len(walks[e]), d)'
    BY DEF PlainLists, PlainWalk
  <2>1. d <= depth /\ e \in own[d] /\ PlainWalk(walks[e])
    OBVIOUS
  <2> QED BY <2>1, ListsKept
<1>2. Taken'
  <2> SUFFICES ASSUME NEW d \in Levels, d <= depth', NEW e \in own'[d] \cap used',
                      PlainWalk(walks'[e]), walks'[e] # <<>>
      PROVE  (phase'[d] = "item" /\ match'[d] = e) \/ Over(d, e)' \/ fps[e] \in bound'[d]
    BY DEF Taken, PlainWalk
  <2>1. d <= depth /\ e \in own[d] \cap used' /\ PlainWalk(walks[e]) /\ walks[e] # <<>>
    OBVIOUS
  <2> QED BY <2>1, ListsKept
<1>3. Bounded'
  <2> SUFFICES ASSUME NEW d \in Levels, d <= depth', NEW e \in own'[d], HoldsParam(walks[e])
               PROVE  fps[e] \in bound'[d]
    BY DEF Bounded, HoldsParam
  <2>1. d <= depth /\ e \in own[d]
    OBVIOUS
  <2>2. fps[e] \in bound[d]
    BY <2>1 DEF SInv, Bounded
  <2> QED BY <2>1, <2>2
<1> QED BY <1>1, <1>2, <1>3

\* What the steps of the walk that append to it leave of the elements that are walked.
LEMMA Walked ==
  ASSUME IInv, SInv, NEW mark, walked' = Append(walked, mark),
         NEW d \in Levels, d <= depth, phase[d] \in {"target", "item"}, walkFrom'[d] = walkFrom[d]
  PROVE  /\ Len(walked') = Len(walked) + 1 /\ Len(walked) \in Nat
         /\ walkFrom[d] \in Nat /\ walkFrom[d] <= Len(walked)
         /\ PlainPart(d)' => mark = CONST /\ PlainPart(d)
<1>1. /\ walked \in Seq(Params \cup {CONST, OPEN, CLOSE}) /\ walkFrom[d] \in Nat
      /\ Len(walked) \in Nat
  BY DEF IInv, TypeOK
<1>2. walkFrom[d] <= Len(walked)
  BY DEF SInv, InElement
<1>3. /\ Len(walked') = Len(walked) + 1 /\ DOMAIN walked' = 1 .. Len(walked) + 1
      /\ DOMAIN walked = 1 .. Len(walked)
      /\ \A j \in 1 .. Len(walked) : walked'[j] = walked[j]
      /\ walked'[Len(walked) + 1] = mark
  BY <1>1
<1>4. ASSUME PlainPart(d)' PROVE mark = CONST /\ PlainPart(d)
  <2>1. Len(walked) + 1 \in DOMAIN walked' /\ Len(walked) + 1 > walkFrom[d]
    BY <1>1, <1>2, <1>3
  <2>2. \A j \in DOMAIN walked : j \in DOMAIN walked' /\ walked'[j] = walked[j]
    BY <1>1, <1>3
  <2> QED BY <1>3, <1>4, <2>1, <2>2 DEF PlainPart
<1> QED BY <1>1, <1>2, <1>3, <1>4

\* A leaf of a plain element is a constant.
LEMMA ShareConst ==
  ASSUME IInv, SInv, RecordConstLocation
  PROVE  SInv'
<1>0. /\ ids' = Append(ids, -highest) /\ RecordRef(-highest) /\ walked' = Append(walked, CONST)
      /\ UNCHANGED <<depth, phase, own, fps, lists, walks, offsets, used, match,
                     first, sub, itemFp, walkFrom, bound, copied>>
  BY DEF RecordConstLocation, elements, element
<1>1. /\ highest \in Int /\ ids \in Seq(Int) /\ refs \in Seq(Int) /\ bufSize \in Nat
      /\ first \in [Levels -> Nat] /\ copied \subseteq DOMAIN ids
      /\ \A d \in Levels : own[d] \subseteq Nat
  BY DEF IInv, TypeOK
<1>2. /\ Len(ids') = Len(ids) + 1 /\ Len(ids) \in Nat
      /\ \A i \in 1 .. Len(ids) : ids'[i] = ids[i]
      /\ ids'[Len(ids) + 1] = -highest
  BY <1>0, <1>1
<1>3. IdsKept /\ ItemsKept
  BY <1>0, <1>2 DEF IdsKept, ItemsKept
<1>4. PlainLists' /\ Taken' /\ Bounded'
  <2>1. Len(ids') \in Nat
    BY <1>2
  <2>2. \A d \in Levels : d <= depth => \A e \in own[d] \cap used :
          PlainWalk(walks[e]) /\ walks[e] # <<>> =>
             (phase[d] = "item" /\ match[d] = e) \/ Over(d, e) \/ fps[e] \in bound[d]
    BY DEF SInv, Taken
  <2> QED BY <1>0, <1>3, <2>1, <2>2, ElementsKept
<1>5. Unmatched' /\ Apart'
  BY <1>0 DEF SInv, Unmatched, Apart
<1>6. InElement'
  <2> SUFFICES ASSUME NEW d \in Levels, d <= depth, phase[d] \in {"target", "item"}
      PROVE  /\ walkFrom[d] <= Len(walked') /\ first[d] <= Len(ids')
             /\ PlainPart(d)' => d = depth /\ Len(ids') - first[d] = Len(walked') - walkFrom[d]
             /\ PlainPart(d)' /\ phase[d] = "target" =>
                  /\ Recording' /\ Len(refs') = Len(ids') - first[d]
                  /\ \A j \in 1 .. Len(refs') : refs'[j] = ids'[first[d] + j]
    BY <1>0 DEF InElement
  <2>1. /\ Len(walked') = Len(walked) + 1 /\ Len(walked) \in Nat
        /\ walkFrom[d] \in Nat /\ walkFrom[d] <= Len(walked)
        /\ PlainPart(d)' => PlainPart(d)
    BY <1>0, Walked
  <2>2. first[d] \in Nat /\ first[d] <= Len(ids)
    BY <1>1 DEF SInv, InElement
  <2>3. ASSUME PlainPart(d)'
        PROVE  d = depth /\ Len(ids') - first[d] = Len(walked') - walkFrom[d]
    <3>1. d = depth /\ Len(ids) - first[d] = Len(walked) - walkFrom[d]
      BY <2>1, <2>3 DEF SInv, InElement
    <3>2. Len(ids') - first[d] = (Len(ids) - first[d]) + 1
      BY <1>2, <2>2
    <3>3. Len(walked') - walkFrom[d] = (Len(walked) - walkFrom[d]) + 1
      BY <2>1
    <3> QED BY <3>1, <3>2, <3>3
  <2>4. ASSUME PlainPart(d)', phase[d] = "target"
        PROVE  /\ Recording' /\ Len(refs') = Len(ids') - first[d]
               /\ \A j \in 1 .. Len(refs') : refs'[j] = ids'[first[d] + j]
    <3>1. /\ Recording /\ Len(refs) = Len(ids) - first[d]
          /\ \A j \in 1 .. Len(refs) : refs[j] = ids[first[d] + j]
      BY <2>1, <2>4 DEF SInv, InElement
    <3>2. refs' = Append(refs, -highest) /\ bufSize' > 0
      BY <1>0, <1>1, <3>1 DEF RecordRef, Recording
    <3>3. /\ Len(refs') = Len(refs) + 1 /\ Len(refs) \in Nat
          /\ \A j \in 1 .. Len(refs) : refs'[j] = refs[j]
          /\ refs'[Len(refs) + 1] = -highest
      BY <1>1, <3>2
    <3>4. first[d] + (Len(refs) + 1) = Len(ids) + 1
      BY <1>2, <2>2, <3>1, <3>3
    <3>5. \A j \in 1 .. Len(refs) : first[d] + j \in 1 .. Len(ids)
      BY <1>2, <2>2, <3>1, <3>3, SMTT(30)
    <3>6. \A j \in 1 .. Len(refs') : j \in 1 .. Len(refs) \/ j = Len(refs) + 1
      BY <3>3
    <3>7. \A j \in 1 .. Len(refs') : refs'[j] = ids'[first[d] + j]
      BY <1>2, <3>1, <3>3, <3>4, <3>5, <3>6
    <3>8. Len(refs') = Len(ids') - first[d]
      BY <1>2, <2>2, <3>1, <3>3
    <3> QED BY <3>2, <3>7, <3>8 DEF Recording
  <2>5. walkFrom[d] <= Len(walked') /\ first[d] <= Len(ids')
    BY <1>2, <2>1, <2>2
  <2> QED BY <2>3, <2>4, <2>5
<1> QED BY <1>4, <1>5, <1>6 DEF SInv

\* A step that adds a $n, or the begin or end of a SELECT, to the walk makes it not plain.
LEMMA ShareMark ==
  ASSUME IInv, SInv, NEW mark, mark # CONST, walked' = Append(walked, mark),
         UNCHANGED <<ids, fps, lists, walks, offsets, used, match, first, itemFp, walkFrom, copied>>,
         \A d \in Levels : d <= depth' =>
           \/ d <= depth /\ phase'[d] = phase[d] /\ own'[d] = own[d] /\ bound'[d] = bound[d]
           \/ ~(d <= depth) /\ phase'[d] = "head" /\ own'[d] = {},
         depth' \in Int
  PROVE  SInv'
<1>1. /\ ids \in Seq(Int) /\ Len(ids) \in Nat /\ Len(ids') = Len(ids) /\ Len(ids') \in Nat
  BY DEF IInv, TypeOK
<1>2. ItemsKept /\ IdsKept
  BY <1>1 DEF ItemsKept, IdsKept
<1>3. PlainLists' /\ Taken' /\ Bounded'
  <2>1. \A d \in Levels : d <= depth /\ d <= depth' => \A e \in own[d] \cap used' :
           PlainWalk(walks[e]) /\ walks[e] # <<>> =>
             \/ phase'[d] = "item" /\ match'[d] = e
             \/ Over(d, e)' \/ Over(d, e) \/ fps[e] \in bound'[d]
    <3> SUFFICES ASSUME NEW d \in Levels, d <= depth, d <= depth', NEW e \in own[d] \cap used,
                        PlainWalk(walks[e]), walks[e] # <<>>
                 PROVE  (phase'[d] = "item" /\ match[d] = e) \/ Over(d, e) \/ fps[e] \in bound'[d]
      OBVIOUS
    <3>1. (phase[d] = "item" /\ match[d] = e) \/ Over(d, e) \/ fps[e] \in bound[d]
      BY DEF SInv, Taken
    <3>2. phase'[d] = phase[d] /\ bound'[d] = bound[d]
      OBVIOUS
    <3> QED BY <3>1, <3>2
  <2>2. \A d \in Levels : d <= depth' => own'[d] = {} \/ (d <= depth /\ own'[d] = own[d])
    OBVIOUS
  <2>3. /\ copied \subseteq copied'
        /\ \A d \in Levels : d <= depth /\ d <= depth' => bound[d] \subseteq bound'[d]
    OBVIOUS
  <2>4. PlainLists' /\ Taken' /\ Bounded'
    BY <1>1, <1>2, <2>1, <2>2, <2>3, ElementsKept
  <2> QED BY <2>4
<1>4. InElement'
  <2> SUFFICES ASSUME NEW d \in Levels, d <= depth', phase'[d] \in {"target", "item"}
      PROVE  walkFrom[d] <= Len(walked') /\ first[d] <= Len(ids) /\ ~PlainPart(d)'
    BY DEF InElement
  <2>1. d <= depth /\ phase[d] \in {"target", "item"}
    OBVIOUS
  <2>2. /\ Len(walked') = Len(walked) + 1 /\ Len(walked) \in Nat
        /\ walkFrom[d] \in Nat /\ walkFrom[d] <= Len(walked) /\ ~PlainPart(d)'
    BY <2>1, Walked
  <2>3. first[d] <= Len(ids)
    BY <2>1 DEF SInv, InElement
  <2>4. walkFrom[d] <= Len(walked')
    BY <2>2
  <2> QED BY <2>2, <2>3, <2>4
<1>5. Unmatched'
  <2>1. \A d \in Levels : d <= depth' /\ phase'[d] = "item" => d <= depth /\ phase[d] = "item" /\ own'[d] = own[d]
    OBVIOUS
  <2> QED BY <2>1 DEF SInv, Unmatched
<1>6. Apart'
  <2>1. \A d \in Levels : d <= depth' => own'[d] = {} \/ (d <= depth /\ own'[d] = own[d])
    OBVIOUS
  <2>2. \A d, x \in Levels : d < x /\ x <= depth' => d <= depth'
    BY NormalizeAssumption DEF Levels
  <2>3. /\ Len(walks) = Len(fps) /\ Len(offsets) = Len(fps) /\ used \subseteq DOMAIN fps
        /\ \A d, x \in Levels : d < x /\ x <= depth => own[d] \cap own[x] = {}
    BY DEF SInv, Apart
  <2>4. ASSUME NEW d \in Levels, NEW x \in Levels, d < x, x <= depth'
        PROVE  own'[d] \cap own'[x] = {}
    BY <2>1, <2>2, <2>3, <2>4
  <2> QED BY <2>3, <2>4 DEF Apart
<1> QED BY <1>3, <1>4, <1>5, <1>6 DEF SInv

\* A $n, a sub-SELECT and its end.
LEMMA ShareWalk ==
  ASSUME IInv, SInv,
         BeginSelect \/ (\E n \in Params : ParamRef(n)) \/ (\E d \in Levels : EndSelect(d))
  PROVE  SInv'
<1>1. /\ depth \in 0 .. MaxDepth /\ MaxDepth \in Nat /\ phase \in [Levels -> Phases]
      /\ own \in [Levels -> SUBSET Nat] /\ bound \in [Levels -> SUBSET Fps]
      /\ \A d \in Levels : d \in Int
  <2>1. TypeOK
    BY DEF IInv
  <2>2. /\ depth \in 0 .. MaxDepth /\ phase \in [Levels -> Phases]
        /\ own \in [Levels -> SUBSET Nat] /\ bound \in [Levels -> SUBSET Fps]
    BY <2>1 DEF TypeOK
  <2>3. MaxDepth \in Nat /\ \A d \in Levels : d \in Int
    BY NormalizeAssumption DEF Levels
  <2> QED BY <2>2, <2>3
<1>2. CASE BeginSelect
  <2>1. /\ depth' = depth + 1 /\ phase' = [phase EXCEPT ![depth + 1] = "head"]
        /\ own' = [own EXCEPT ![depth + 1] = {}] /\ bound' = [bound EXCEPT ![depth + 1] = {}]
        /\ walked' = Append(walked, OPEN)
        /\ UNCHANGED <<ids, fps, lists, walks, offsets, used, match, first, itemFp, walkFrom, copied>>
    BY <1>2 DEF BeginSelect, counters, buffer, elements, element
  <2>2. depth' \in Int /\ OPEN # CONST
    BY <1>1, <2>1 DEF OPEN, CONST
  <2>3. \A d \in Levels : d # depth + 1 => phase'[d] = phase[d] /\ own'[d] = own[d]
                                             /\ bound'[d] = bound[d]
    BY <1>1, <2>1
  <2>4. \A d \in Levels : d = depth + 1 => phase'[d] = "head" /\ own'[d] = {} /\ ~(d <= depth)
    BY <1>1, <2>1
  <2>5. \A d \in Levels : d <= depth' => d <= depth \/ d = depth + 1
    BY <1>1, <2>1
  <2> QED BY <2>1, <2>2, <2>3, <2>4, <2>5, ShareMark
<1>3. ASSUME NEW n \in Params, ParamRef(n) PROVE SInv'
  <2>1. /\ walked' = Append(walked, n)
        /\ UNCHANGED <<ids, depth, phase, own, fps, lists, walks, offsets, used, match, first,
                       itemFp, walkFrom, bound, copied>>
    BY <1>3 DEF ParamRef, counters, elements, element
  <2>2. n # CONST /\ depth' \in Int
    BY <1>1, <2>1, NormalizeAssumption DEF CONST
  <2> QED BY <2>1, <2>2, ShareMark
<1>4. ASSUME NEW d \in Levels, EndSelect(d) PROVE SInv'
  <2>1. /\ depth = d /\ depth' = d - 1 /\ walked' = Append(walked, CLOSE)
        /\ UNCHANGED <<ids, phase, own, fps, lists, walks, offsets, used, match, first,
                       itemFp, walkFrom, bound, copied>>
    BY <1>4 DEF EndSelect, In, counters, buffer, elements, element
  <2>2. CLOSE # CONST /\ depth' \in Int /\ \A x \in Levels : x <= depth' => x <= depth
    BY <1>1, <2>1 DEF CONST, CLOSE
  <2> QED BY <2>1, <2>2, ShareMark
<1> QED BY <1>2, <1>3, <1>4

\* A target list element begins with an empty buffer.
LEMMA ShareBeginTarget ==
  ASSUME IInv, SInv, NEW d \in Levels, BeginTarget(d)
  PROVE  SInv'
<1>0. /\ depth = d /\ phase[d] \in {"head", "targets"}
      /\ phase' = [phase EXCEPT ![d] = "target"] /\ refs' = <<>> /\ bufSize' = 1
      /\ first' = [first EXCEPT ![d] = Len(ids)]
      /\ walkFrom' = [walkFrom EXCEPT ![d] = Len(walked)]
      /\ UNCHANGED <<ids, depth, own, fps, lists, walks, offsets, used, match, itemFp, walked,
                     bound, copied>>
  BY DEF BeginTarget, In, counters, elements
<1>1. /\ phase \in [Levels -> Phases] /\ first \in [Levels -> Nat] /\ Len(ids) \in Nat
      /\ walkFrom \in [Levels -> Nat]
  BY <1>0, AtTop
<1>2. /\ phase'[d] = "target" /\ first'[d] = Len(ids) /\ walkFrom'[d] = Len(walked)
      /\ \A x \in Levels : x # d => phase'[x] = phase[x] /\ first'[x] = first[x]
                                      /\ walkFrom'[x] = walkFrom[x]
  BY <1>0, <1>1
<1>3. ItemsKept /\ IdsKept
  BY <1>0, <1>1, <1>2 DEF ItemsKept, IdsKept
<1>4. PlainLists' /\ Taken' /\ Bounded'
  <2>1. \A x \in Levels : x <= depth => \A e \in own[x] \cap used :
          PlainWalk(walks[e]) /\ walks[e] # <<>> =>
             (phase'[x] = "item" /\ match[x] = e) \/ Over(x, e) \/ fps[e] \in bound[x]
    <3> SUFFICES ASSUME NEW x \in Levels, x <= depth, NEW e \in own[x] \cap used,
                        PlainWalk(walks[e]), walks[e] # <<>>, ~Over(x, e),
                        fps[e] \notin bound[x]
                 PROVE  phase'[x] = "item" /\ match[x] = e
      OBVIOUS
    <3>1. phase[x] = "item" /\ match[x] = e
      BY DEF SInv, Taken
    <3> QED BY <1>0, <1>2, <3>1
  <2>2. Len(ids') \in Nat
    BY <1>0, <1>1
  <2>3. /\ copied \subseteq copied' /\ UNCHANGED <<fps, lists, walks, offsets>>
        /\ \A x \in Levels : x <= depth' => own'[x] = {} \/ (x <= depth /\ own'[x] = own[x])
        /\ used' = used /\ match' = match /\ depth' = depth /\ bound' = bound
    BY <1>0
  <2> QED BY <1>3, <2>1, <2>2, <2>3, ElementsKept
<1>5. Unmatched' /\ Apart'
  BY <1>0, <1>2 DEF SInv, Unmatched, Apart
<1>6. InElement'
  <2> SUFFICES ASSUME NEW x \in Levels, x <= depth, phase'[x] \in {"target", "item"}
      PROVE  /\ walkFrom'[x] <= Len(walked) /\ first'[x] <= Len(ids)
             /\ PlainPart(x)' => x = depth /\ Len(ids) - first'[x] = Len(walked) - walkFrom'[x]
             /\ PlainPart(x)' /\ phase'[x] = "target" =>
                  /\ Recording' /\ Len(refs') = Len(ids) - first'[x]
                  /\ \A j \in 1 .. Len(refs') : refs'[j] = ids[first'[x] + j]
    BY <1>0 DEF InElement
  <2>1. Len(walked) \in Nat
    BY DEF IInv, TypeOK
  <2>2. CASE x = d
    <3>1. /\ walkFrom'[x] <= Len(walked) /\ first'[x] <= Len(ids)
          /\ Len(ids) - first'[x] = 0 /\ Len(walked) - walkFrom'[x] = 0
      BY <1>1, <1>2, <2>1, <2>2
    <3>2. Len(refs') = 0 /\ 1 .. Len(refs') = {} /\ Recording'
      BY <1>0 DEF Recording
    <3> QED BY <1>0, <2>2, <3>1, <3>2
  <2>3. CASE x # d
    <3>1. phase[x] \in {"target", "item"} /\ walkFrom'[x] = walkFrom[x] /\ first'[x] = first[x]
      BY <1>2, <2>3
    <3>2. PlainPart(x)' <=> PlainPart(x)
      BY <1>0, <3>1 DEF PlainPart
    <3>3. walkFrom[x] <= Len(walked) /\ first[x] <= Len(ids) /\ ~PlainPart(x)
      BY <1>0, <2>3, <3>1 DEF SInv, InElement
    <3> QED BY <3>1, <3>2, <3>3
  <2> QED BY <2>2, <2>3
<1> QED BY <1>4, <1>5, <1>6 DEF SInv

\* The steps between two clauses, a part that is not walked, and the end.
LEMMA ShareIdle ==
  ASSUME IInv, SInv,
         (\E d \in Levels : EndTargetList(d) \/ EndGroupClause(d))
           \/ (\E n \in Params : PassOver(n)) \/ Generate \/ UNCHANGED vars
  PROVE  SInv'
<1>0. /\ UNCHANGED <<ids, refs, bufSize, depth, own, fps, lists, walks, offsets, used, match,
                     first, itemFp, walkFrom, walked, bound, copied>>
      /\ \A x \in Levels : phase'[x] = phase[x] \/ (phase[x] \notin {"target", "item"}
                                                     /\ phase'[x] \in {"from", "rest"})
  <2>1. ASSUME NEW d \in Levels, EndTargetList(d) \/ EndGroupClause(d)
        PROVE  \A x \in Levels : phase'[x] = phase[x] \/ (phase[x] \notin {"target", "item"}
                                                     /\ phase'[x] \in {"from", "rest"})
    <3>1. phase \in [Levels -> Phases]
      BY DEF IInv, TypeOK
    <3> QED BY <2>1, <3>1 DEF EndTargetList, EndGroupClause, In
  <2> QED BY <2>1 DEF EndTargetList, EndGroupClause, PassOver, Generate, vars, counters, buffer,
                      elements, element
<1>1. ItemsKept /\ IdsKept
  <2>1. Len(ids) \in Nat
    BY DEF IInv, TypeOK
  <2> QED BY <1>0, <2>1 DEF ItemsKept, IdsKept
<1>2. PlainLists' /\ Taken' /\ Bounded'
  <2>1. \A x \in Levels : x <= depth => \A e \in own[x] \cap used :
          PlainWalk(walks[e]) /\ walks[e] # <<>> =>
             (phase'[x] = "item" /\ match[x] = e) \/ Over(x, e) \/ fps[e] \in bound[x]
    <3> SUFFICES ASSUME NEW x \in Levels, x <= depth, NEW e \in own[x] \cap used,
                        PlainWalk(walks[e]), walks[e] # <<>>, ~Over(x, e),
                        fps[e] \notin bound[x]
                 PROVE  phase'[x] = "item" /\ match[x] = e
      OBVIOUS
    <3>1. phase[x] = "item" /\ match[x] = e
      BY DEF SInv, Taken
    <3> QED BY <1>0, <3>1
  <2>2. Len(ids') \in Nat
    BY <1>0 DEF IInv, TypeOK
  <2>3. /\ copied \subseteq copied' /\ UNCHANGED <<fps, lists, walks, offsets>>
        /\ \A x \in Levels : x <= depth' => own'[x] = {} \/ (x <= depth /\ own'[x] = own[x])
        /\ used' = used /\ match' = match /\ depth' = depth /\ bound' = bound
    BY <1>0
  <2> QED BY <1>1, <2>1, <2>2, <2>3, ElementsKept
<1>3. Unmatched' /\ Apart'
  BY <1>0 DEF SInv, Unmatched, Apart
<1>4. InElement'
  <2> SUFFICES ASSUME NEW x \in Levels, x <= depth, phase'[x] \in {"target", "item"}
      PROVE  /\ walkFrom[x] <= Len(walked) /\ first[x] <= Len(ids)
             /\ PlainPart(x)' => x = depth /\ Len(ids) - first[x] = Len(walked) - walkFrom[x]
             /\ PlainPart(x)' /\ phase'[x] = "target" =>
                  /\ Recording' /\ Len(refs) = Len(ids) - first[x]
                  /\ \A j \in 1 .. Len(refs) : refs[j] = ids[first[x] + j]
    BY <1>0 DEF InElement
  <2>1. phase'[x] = phase[x]
    BY <1>0
  <2>2. (PlainPart(x)' <=> PlainPart(x)) /\ (Recording' <=> Recording)
    BY <1>0 DEF PlainPart, Recording
  <2> QED BY <2>1, <2>2 DEF SInv, InElement
<1> QED BY <1>2, <1>3, <1>4 DEF SInv

\* The walk of an element as a sequence.
LEMMA PlainParts ==
  ASSUME NEW d \in Levels, walkFrom[d] \in Nat, walkFrom[d] <= Len(walked), NEW S,
         walked \in Seq(S)
  PROVE  /\ Len(Part(d)) = Len(walked) - walkFrom[d]
         /\ PlainWalk(Part(d)) => PlainPart(d)
<1> DEFINE m == walkFrom[d]
<1>1. m \in Nat /\ m <= Len(walked) /\ Len(walked) \in Nat /\ DOMAIN walked = 1 .. Len(walked)
      /\ Part(d) = SubSeq(walked, m + 1, Len(walked))
  BY DEF Part
<1> HIDE DEF m
<1>2. /\ Len(Part(d)) = Len(walked) - m
      /\ DOMAIN Part(d) = 1 .. Len(walked) - m
      /\ \A j \in 1 .. Len(walked) - m : Part(d)[j] = walked[m + j]
  <2>1. Part(d) \in Seq(S)
    BY <1>1, PartSeq
  <2>2. /\ Len(Part(d)) = Len(walked) - m
        /\ \A j \in 1 .. Len(walked) - m : Part(d)[j] = walked[m + j]
    BY <1>1, PartElements
  <2>3. DOMAIN Part(d) = 1 .. Len(Part(d))
    BY <2>1
  <2> QED BY <2>2, <2>3
<1>3. ASSUME PlainWalk(Part(d)), NEW j \in DOMAIN walked, j > m PROVE walked[j] = CONST
  <2>1. j - m \in 1 .. Len(walked) - m /\ m + (j - m) = j
    BY <1>1, <1>3
  <2> QED BY <1>2, <1>3, <2>1 DEF PlainWalk
<1> QED BY <1>2, <1>3 DEF PlainPart, m

\* What a plain element has recorded is what it was numbered with.
LEMMA ShareEndTarget ==
  ASSUME IInv, SInv, NEW d \in Levels, EndTarget(d)
  PROVE  SInv'
<1>0. /\ depth = d /\ phase[d] = "target"
      /\ lists' = Append(lists, refs)
      /\ walks' = Append(walks, Part(d)) /\ offsets' = Append(offsets, first[d])
      /\ own' = [own EXCEPT ![d] = @ \cup {Len(fps) + 1}]
      /\ phase' = [phase EXCEPT ![d] = "targets"]
      /\ UNCHANGED <<ids, depth, used, match, first, itemFp, walkFrom, walked, copied>>
  BY DEF EndTarget, In, counters
<1>a. PICK fp \in Fps : fps' = Append(fps, fp) /\ bound' = Bind(d, fp)
  BY DEF EndTarget
<1>1. /\ d \in Nat /\ \A x \in Levels : x \in Nat /\ (x <= d \/ x > d)
      /\ phase \in [Levels -> Phases] /\ first \in [Levels -> Nat] /\ Len(ids) \in Nat
      /\ own \in [Levels -> SUBSET Nat] /\ walkFrom \in [Levels -> Nat]
  BY <1>0, AtTop
<1>2. /\ fps \in Seq(Fps) /\ lists \in Seq(Seq(Int)) /\ refs \in Seq(Int)
      /\ walks \in Seq(Seq(Params \cup {CONST, OPEN, CLOSE})) /\ offsets \in Seq(Nat)
      /\ walked \in Seq(Params \cup {CONST, OPEN, CLOSE}) /\ Len(walked) \in Nat
      /\ Part(d) \in Seq(Params \cup {CONST, OPEN, CLOSE})
  <2>1. /\ fps \in Seq(Fps) /\ lists \in Seq(Seq(Int)) /\ refs \in Seq(Int)
        /\ walks \in Seq(Seq(Params \cup {CONST, OPEN, CLOSE})) /\ offsets \in Seq(Nat)
        /\ walked \in Seq(Params \cup {CONST, OPEN, CLOSE})
    BY DEF IInv, TypeOK
  <2> QED BY <1>1, <2>1, PartSeq DEF Part
<1>3. /\ Len(fps) \in Nat /\ Len(lists) = Len(fps) /\ Len(walks) = Len(fps)
      /\ Len(offsets) = Len(fps) /\ used \subseteq DOMAIN fps
      /\ \A x, y \in Levels : x < y /\ y <= depth => own[x] \cap own[y] = {}
  BY <1>2 DEF IInv, Listed, SInv, Apart
<1> DEFINE n == Len(fps) + 1
<1>4. /\ Len(fps') = n /\ Len(walks') = n /\ Len(offsets') = n /\ Len(lists') = n
      /\ DOMAIN fps = 1 .. Len(fps) /\ DOMAIN fps' = 1 .. n /\ n \notin DOMAIN fps
      /\ n \in Nat
  BY <1>0, <1>a, <1>2, <1>3, SMTT(30)
<1>5. /\ \A e \in DOMAIN fps : /\ lists'[e] = lists[e] /\ walks'[e] = walks[e]
                               /\ offsets'[e] = offsets[e] /\ fps'[e] = fps[e]
      /\ lists'[n] = refs /\ walks'[n] = Part(d) /\ offsets'[n] = first[d]
  BY <1>0, <1>a, <1>2, <1>3
<1>6. /\ phase'[d] = "targets" /\ own'[d] = own[d] \cup {n}
      /\ \A x \in Levels : x # d => phase'[x] = phase[x] /\ own'[x] = own[x]
  BY <1>0, <1>1
<1>7. \A x \in Levels : x <= depth => own[x] \subseteq DOMAIN fps
  BY <1>2, <1>3 DEF IInv, Owned
<1> HIDE DEF n
<1>8. Apart'
  <2>1. used' \subseteq DOMAIN fps'
    BY <1>0, <1>3, <1>4
  <2>2. ASSUME NEW x \in Levels, NEW y \in Levels, x < y, y <= depth
        PROVE  own'[x] \cap own'[y] = {}
    <3>1. x <= depth /\ own[x] \cap own[y] = {}
      BY <1>0, <1>1, <1>3, <2>2
    <3>2. n \notin own[x] /\ n \notin own[y]
      BY <1>4, <1>7, <2>2, <3>1
    <3>3. own'[x] \subseteq own[x] \cup {n} /\ own'[y] \subseteq own[y] \cup {n}
      BY <1>6
    <3>4. n \in own'[x] => x = d
      BY <1>6, <3>2
    <3>5. n \in own'[y] => y = d
      BY <1>6, <3>2
    <3> QED BY <1>1, <2>2, <3>1, <3>2, <3>3, <3>4, <3>5
  <2> QED BY <1>0, <1>4, <2>1, <2>2 DEF Apart
<1>9. ItemsKept /\ IdsKept /\ Len(ids') \in Nat
  BY <1>0, <1>1, <1>6 DEF ItemsKept, IdsKept
<1>10. ASSUME NEW x \in Levels, x <= depth, NEW e \in own[x], PlainWalk(walks[e])
       PROVE  /\ Len(lists'[e]) = Len(walks'[e]) /\ offsets'[e] + Len(walks'[e]) <= Len(ids')
              /\ \A j \in 1 .. Len(walks'[e]) : lists'[e][j] = ids'[offsets'[e] + j]
              /\ Before(offsets[e] + Len(walks[e]), x)'
              /\ walks[e] # <<>> /\ Over(x, e) => Over(x, e)'
  <2>1. e \in DOMAIN fps /\ x <= depth'
    BY <1>0, <1>7, <1>10
  <2> QED BY <1>0, <1>5, <1>9, <1>10, <2>1, ListsKept
<1>11. ASSUME PlainWalk(Part(d))
       PROVE  /\ Len(refs) = Len(Part(d)) /\ first[d] + Len(Part(d)) <= Len(ids)
              /\ \A j \in 1 .. Len(Part(d)) : refs[j] = ids[first[d] + j]
  <2>1. walkFrom[d] \in Nat /\ walkFrom[d] <= Len(walked)
    BY <1>0, <1>1 DEF SInv, InElement
  <2>2. Len(Part(d)) = Len(walked) - walkFrom[d] /\ (PlainWalk(Part(d)) => PlainPart(d))
    BY <1>2, <2>1, PlainParts
  <2>3. PlainPart(d)
    BY <1>11, <2>2
  <2>4. /\ Len(ids) - first[d] = Len(walked) - walkFrom[d] /\ Len(refs) = Len(ids) - first[d]
        /\ \A j \in 1 .. Len(refs) : refs[j] = ids[first[d] + j]
    BY <1>0, <1>1, <2>3 DEF SInv, InElement
  <2>5. first[d] \in Nat
    BY <1>1
  <2> QED BY <1>1, <2>2, <2>4, <2>5
<1>12. PlainLists'
  <2> SUFFICES ASSUME NEW x \in Levels, x <= depth, NEW e \in own'[x], PlainWalk(walks'[e])
      PROVE  /\ Len(lists'[e]) = Len(walks'[e]) /\ offsets'[e] + Len(walks'[e]) <= Len(ids')
             /\ \A j \in 1 .. Len(walks'[e]) : lists'[e][j] = ids'[offsets'[e] + j]
             /\ Before(offsets[e] + Len(walks[e]), x)'
    BY <1>0 DEF PlainLists, PlainWalk
  <2>1. CASE e \in own[x]
    <3>1. PlainWalk(walks[e])
      BY <1>5, <1>7, <2>1 DEF PlainWalk
    <3> QED BY <1>10, <2>1, <3>1
  <2>2. CASE e \notin own[x]
    <3>1. x = d /\ e = n
      BY <1>6, <2>2
    <3>2. PlainWalk(Part(d))
      BY <1>5, <3>1
    <3>3. \A y \in Levels : ~(x <= y /\ y <= depth' /\ phase'[y] = "item")
      BY <1>0, <1>1, <1>6, <3>1
    <3>4. Before(offsets[e] + Len(walks[e]), x)'
      BY <3>3 DEF Before
    <3>5. /\ Len(lists'[e]) = Len(walks'[e]) /\ offsets'[e] + Len(walks'[e]) <= Len(ids')
          /\ \A j \in 1 .. Len(walks'[e]) : lists'[e][j] = ids'[offsets'[e] + j]
      BY <1>0, <1>5, <1>11, <3>1, <3>2, ZenonT(40)
    <3> QED BY <3>4, <3>5
  <2> QED BY <2>1, <2>2
<1>13. Taken'
  <2> SUFFICES ASSUME NEW x \in Levels, x <= depth, NEW e \in own'[x] \cap used,
                      PlainWalk(walks'[e]), walks'[e] # <<>>
      PROVE  (phase'[x] = "item" /\ match[x] = e) \/ Over(x, e)' \/ fps'[e] \in bound'[x]
    BY <1>0 DEF Taken, PlainWalk
  <2>1. e \in own[x] /\ e \in DOMAIN fps
    BY <1>3, <1>4, <1>6
  <2>2. PlainWalk(walks[e]) /\ walks[e] # <<>>
    BY <1>5, <2>1
  <2>3. (phase[x] = "item" /\ match[x] = e) \/ Over(x, e) \/ fps[e] \in bound[x]
    BY <2>1, <2>2 DEF SInv, Taken
  <2>4. phase[x] = "item" => phase'[x] = "item"
    BY <1>0, <1>6
  <2>5. bound[x] \subseteq bound'[x] /\ fps'[e] = fps[e]
    BY <1>a, <1>5, <2>1, BindType
  <2> QED BY <1>10, <2>1, <2>2, <2>3, <2>4, <2>5
<1>14. Unmatched'
  <2> SUFFICES ASSUME NEW x \in Levels, x <= depth, phase'[x] = "item", match[x] = 0,
                      NEW e \in own'[x], fps'[e] = itemFp[x]
               PROVE  e \in used
    BY <1>0 DEF Unmatched
  <2>1. phase[x] = "item" /\ e \in own[x]
    BY <1>6
  <2>2. fps'[e] = fps[e]
    BY <1>5, <1>7, <2>1
  <2> QED BY <2>1, <2>2 DEF SInv, Unmatched
<1>15. InElement'
  <2> SUFFICES ASSUME NEW x \in Levels, x <= depth, phase'[x] \in {"target", "item"}
      PROVE  walkFrom[x] <= Len(walked) /\ first[x] <= Len(ids) /\ ~PlainPart(x)'
    BY <1>0 DEF InElement
  <2>1. x # d /\ phase[x] \in {"target", "item"}
    BY <1>6
  <2>2. PlainPart(x)' <=> PlainPart(x)
    BY <1>0 DEF PlainPart
  <2> QED BY <1>0, <2>1, <2>2 DEF SInv, InElement
<1>16. Bounded'
  <2> SUFFICES ASSUME NEW x \in Levels, x <= depth, NEW e \in own'[x], HoldsParam(walks'[e])
               PROVE  fps'[e] \in bound'[x]
    BY <1>0 DEF Bounded, HoldsParam
  <2>1. bound[x] \subseteq bound'[x] /\ (HoldsParam(Part(d)) => fp \in bound'[d])
    BY <1>a, BindType
  <2>2. CASE e \in own[x]
    <3>1. e \in DOMAIN fps /\ HoldsParam(walks[e]) /\ fps'[e] = fps[e]
      BY <1>5, <1>7, <2>2 DEF HoldsParam
    <3> QED BY <2>1, <2>2, <3>1 DEF SInv, Bounded
  <2>3. CASE e \notin own[x]
    <3>1. x = d /\ e = n
      BY <1>6, <2>3
    <3>2. HoldsParam(Part(d))
      BY <1>5, <3>1 DEF HoldsParam
    <3>3. fps'[e] = fp
      BY <1>a, <1>2, <3>1, Appended DEF n
    <3> QED BY <2>1, <3>1, <3>2, <3>3
  <2> QED BY <2>2, <2>3
<1> QED BY <1>8, <1>12, <1>13, <1>14, <1>15, <1>16 DEF SInv

\* An item takes the first element left with its fingerprint.
LEMMA ShareBeginItem ==
  ASSUME IInv, SInv, NEW d \in Levels, BeginGroupItem(d)
  PROVE  SInv'
<1>0. PICK fp \in Fps : \E m \in Lookup(d, fp) :
        /\ depth = d /\ phase[d] \in {"from", "group"}
        /\ match' = [match EXCEPT ![d] = m] /\ used' = used \cup ({m} \ {0})
        /\ itemFp' = [itemFp EXCEPT ![d] = fp]
        /\ first' = [first EXCEPT ![d] = Len(ids)]
        /\ walkFrom' = [walkFrom EXCEPT ![d] = Len(walked)]
        /\ phase' = [phase EXCEPT ![d] = "item"]
        /\ UNCHANGED <<ids, refs, bufSize, depth, own, fps, lists, walks, offsets, bound, walked,
                       copied>>
  BY DEF BeginGroupItem, In, counters, buffer, elements
<1>1. PICK m \in Lookup(d, fp) :
        match' = [match EXCEPT ![d] = m] /\ used' = used \cup ({m} \ {0})
  BY <1>0
<1>2. /\ d \in Nat /\ \A x \in Levels : x \in Nat /\ (x <= d \/ x > d)
      /\ phase \in [Levels -> Phases] /\ own \in [Levels -> SUBSET Nat]
      /\ match \in [Levels -> Nat] /\ first \in [Levels -> Nat]
      /\ walkFrom \in [Levels -> Nat] /\ itemFp \in [Levels -> Fps] /\ Len(ids) \in Nat
  BY <1>0, AtTop
<1>3. own[d] \subseteq DOMAIN fps /\ 0 \notin own[d] /\ Len(fps) \in Nat
  <2>1. own[d] \subseteq DOMAIN lists /\ Len(fps) = Len(lists)
    BY <1>0, <1>2 DEF IInv, Owned, Listed
  <2>2. fps \in Seq(Fps) /\ lists \in Seq(Seq(Int))
    BY DEF IInv, TypeOK
  <2> QED BY <2>1, <2>2
<1>4. /\ m # 0 => m \in own[d] /\ fps[m] = fp
      /\ m = 0 => \A e \in own[d] : fps[e] = fp => e \in used
  BY <1>3 DEF Lookup
<1>5. /\ phase'[d] = "item" /\ match'[d] = m /\ first'[d] = Len(ids) /\ itemFp'[d] = fp
      /\ walkFrom'[d] = Len(walked)
      /\ \A x \in Levels : x # d =>
           /\ phase'[x] = phase[x] /\ match'[x] = match[x] /\ walkFrom'[x] = walkFrom[x]
           /\ first'[x] = first[x] /\ itemFp'[x] = itemFp[x]
  BY <1>0, <1>1, <1>2
<1>6. Apart'
  BY <1>0, <1>1, <1>3, <1>4 DEF SInv, Apart
<1>7. Unmatched'
  <2> SUFFICES ASSUME NEW x \in Levels, x <= depth, phase'[x] = "item", match'[x] = 0,
                      NEW e \in own[x], fps[e] = itemFp'[x]
               PROVE  e \in used'
    BY <1>0 DEF Unmatched
  <2>1. CASE x = d
    BY <1>1, <1>4, <1>5, <2>1
  <2>2. CASE x # d
    BY <1>1, <1>5, <2>2 DEF SInv, Unmatched
  <2> QED BY <2>1, <2>2
<1>8. ItemsKept /\ IdsKept
  BY <1>0, <1>2, <1>5 DEF ItemsKept, IdsKept
<1>9. PlainLists' /\ Taken' /\ Bounded'
  <2>1. \A x \in Levels : x <= depth => \A e \in own[x] \cap used' :
          PlainWalk(walks[e]) /\ walks[e] # <<>> =>
             (phase'[x] = "item" /\ match'[x] = e) \/ Over(x, e) \/ fps[e] \in bound[x]
    <3> SUFFICES ASSUME NEW x \in Levels, x <= depth, NEW e \in own[x], e \in used',
                        PlainWalk(walks[e]), walks[e] # <<>>, ~Over(x, e),
                        fps[e] \notin bound[x]
                 PROVE  phase'[x] = "item" /\ match'[x] = e
      OBVIOUS
    <3>1. CASE e \in used
      <4>1. phase[x] = "item" /\ match[x] = e
        BY <3>1 DEF SInv, Taken
      <4> QED BY <1>0, <1>5, <4>1
    <3>2. CASE e \notin used
      <4>1. e = m /\ m # 0 /\ e \in own[d]
        BY <1>1, <1>4, <3>2
      <4>2. x = d
        <5>1. ASSUME x # d PROVE FALSE
          <6>0. x \in Nat /\ d \in Nat /\ depth = d /\ x <= d
            BY <1>0, <1>2
          <6>1. x < d /\ d <= depth
            BY <5>1, <6>0
          <6> QED BY <4>1, <6>1 DEF SInv, Apart
        <5> QED BY <5>1
      <4> QED BY <1>5, <4>1, <4>2
    <3> QED BY <3>1, <3>2
  <2>2. Len(ids') \in Nat
    BY <1>0, <1>2
  <2>3. /\ copied \subseteq copied' /\ UNCHANGED <<fps, lists, walks, offsets>>
        /\ \A x \in Levels : x <= depth' => own'[x] = {} \/ (x <= depth /\ own'[x] = own[x])
        /\ depth' = depth /\ bound' = bound
    BY <1>0
  <2> QED BY <1>8, <2>1, <2>2, <2>3, ElementsKept
<1>10. InElement'
  <2> SUFFICES ASSUME NEW x \in Levels, x <= depth, phase'[x] \in {"target", "item"}
      PROVE  /\ walkFrom'[x] <= Len(walked) /\ first'[x] <= Len(ids)
             /\ PlainPart(x)' => x = depth /\ Len(ids) - first'[x] = Len(walked) - walkFrom'[x]
             /\ PlainPart(x)' => phase'[x] # "target"
    BY <1>0 DEF InElement
  <2>1. Len(walked) \in Nat
    BY DEF IInv, TypeOK
  <2>2. CASE x = d
    <3>1. /\ walkFrom'[x] <= Len(walked) /\ first'[x] <= Len(ids)
          /\ Len(ids) - first'[x] = 0 /\ Len(walked) - walkFrom'[x] = 0
      BY <1>2, <1>5, <2>1, <2>2
    <3> QED BY <1>0, <1>5, <2>2, <3>1
  <2>3. CASE x # d
    <3>1. phase[x] \in {"target", "item"} /\ walkFrom'[x] = walkFrom[x] /\ first'[x] = first[x]
      BY <1>5, <2>3
    <3>2. PlainPart(x)' <=> PlainPart(x)
      BY <1>0, <3>1 DEF PlainPart
    <3>3. walkFrom[x] <= Len(walked) /\ first[x] <= Len(ids) /\ ~PlainPart(x)
      BY <1>0, <2>3, <3>1 DEF SInv, InElement
    <3> QED BY <3>1, <3>2, <3>3
  <2> QED BY <2>2, <2>3
<1> QED BY <1>6, <1>7, <1>9, <1>10 DEF SInv

\* Walks without $n that look the same to a fingerprint are the same.
LEMMA SameShape ==
  ASSUME NEW v \in Seq(Params \cup {CONST, OPEN, CLOSE}), ~HoldsParam(v),
         NEW w \in Seq(Params \cup {CONST, OPEN, CLOSE}), ~HoldsParam(w), Shape(v) = Shape(w)
  PROVE  v = w
<1>1. ASSUME NEW u \in Seq(Params \cup {CONST, OPEN, CLOSE}), ~HoldsParam(u)
      PROVE  Shape(u) = u
  <2>1. \A i \in DOMAIN u : u[i] \in {CONST, OPEN, CLOSE}
    BY <1>1 DEF HoldsParam
  <2>2. \A i \in DOMAIN u : ~(u[i] > 0)
    BY <2>1 DEF CONST, OPEN, CLOSE
  <2>3. u = [i \in DOMAIN u |-> u[i]]
    OBVIOUS
  <2> QED BY <2>2, <2>3 DEF Shape
<1> QED BY <1>1

\* A walk of constants holds no $n.
LEMMA PlainIsUnbound ==
  ASSUME NEW w, PlainWalk(w)
  PROVE  ~HoldsParam(w)
<1>1. CONST \notin Params
  BY NormalizeAssumption DEF CONST
<1> QED BY <1>1 DEF PlainWalk, HoldsParam

\* The numbers of a plain element and its match are given to the constants of the item.
LEMMA GivesNumbers ==
  ASSUME IInv, SInv, ~Folding, NEW d \in Levels, EndGroupItem(d), match[d] # 0,
         PlainWalk(walks[match[d]]), ~HoldsParam(Part(d))
  PROVE  /\ match[d] \in own[d] /\ SameExpression(match[d], d)
         /\ copied' = copied \cup (first[d] + 1 .. Len(ids))
         /\ first[d] + Len(walks[match[d]]) = Len(ids)
         /\ \A j \in 1 .. Len(walks[match[d]]) :
              ids'[first[d] + j] = ids'[offsets[match[d]] + j]
<1> DEFINE m == match[d]
           n == Len(walks[m])
<1>0. depth = d /\ phase[d] = "item" /\ AssignParams(d)
  BY DEF EndGroupItem, In
<1>1. /\ d \in Nat /\ d >= 1 /\ match \in [Levels -> Nat] /\ first \in [Levels -> Nat]
      /\ ids \in Seq(Int) /\ Len(ids) \in Nat /\ walkFrom \in [Levels -> Nat]
      /\ d <= depth
  BY <1>0, AtTop
<1>2. m \in own[d] /\ fps[m] = itemFp[d]
  BY <1>0, <1>1 DEF IInv, Owned
<1>3. walks[m] = Part(d)
  <2>1. Part(d) \in Seq(Params \cup {CONST, OPEN, CLOSE})
    BY <1>1, PartSeq DEF IInv, TypeOK, Part
  <2>2. walks[m] \in Seq(Params \cup {CONST, OPEN, CLOSE})
    BY <1>1, <1>2, ElementTypes
  <2>3. Shape(walks[m]) = Shape(Part(d))
    BY <1>2 DEF EndGroupItem, Fits
  <2>4. ~HoldsParam(walks[m])
    BY PlainIsUnbound
  <2> QED BY <2>1, <2>2, <2>3, <2>4, SameShape
<1>4. walked \in Seq(Params \cup {CONST, OPEN, CLOSE}) /\ Len(walked) \in Nat
  BY DEF IInv, TypeOK
<1>5. walkFrom[d] \in Nat /\ walkFrom[d] <= Len(walked) /\ first[d] \in Nat /\ first[d] <= Len(ids)
  BY <1>0, <1>1 DEF SInv, InElement
<1>6. n = Len(walked) - walkFrom[d] /\ PlainPart(d)
  BY <1>3, <1>4, <1>5, PlainParts
<1>7. Len(ids) - first[d] = n
  BY <1>0, <1>1, <1>6 DEF SInv, InElement
<1>8. /\ Len(lists[m]) = n
      /\ \A j \in 1 .. n : lists[m][j] = ids[offsets[m] + j]
      /\ offsets[m] + n <= first[d]
  BY <1>0, <1>1, <1>2 DEF SInv, PlainLists, Before
<1>9. offsets[m] \in Nat /\ n \in Nat
  BY <1>1, <1>2, ElementTypes
<1>10. /\ ids' = [i \in DOMAIN ids |-> IF i > first[d] THEN lists[m][i - first[d]] ELSE ids[i]]
       /\ copied' = copied \cup (first[d] + 1 .. Len(ids))
  <2>1. match[d] > 0
    BY <1>1
  <2> QED BY <1>0, <1>7, <1>8, <2>1 DEF AssignParams
<1> HIDE DEF m, n
<1>11. first[d] + n = Len(ids) /\ DOMAIN ids = 1 .. Len(ids)
  BY <1>1, <1>5, <1>7, <1>9
<1>12. ASSUME NEW j \in 1 .. n PROVE ids'[first[d] + j] = ids'[offsets[m] + j]
  <2>1. /\ first[d] + j \in DOMAIN ids /\ first[d] + j > first[d]
        /\ (first[d] + j) - first[d] = j
    BY <1>1, <1>5, <1>9, <1>11, SMTT(30)
  <2>2. offsets[m] + j \in DOMAIN ids /\ ~(offsets[m] + j > first[d])
    <3> DEFINE o == offsets[m]
               f == first[d]
    <3>1. o \in Nat /\ f \in Nat /\ n \in Nat /\ o + n <= f /\ f + n = Len(ids) /\ j \in 1 .. n
      BY <1>5, <1>8, <1>9, <1>11
    <3> HIDE DEF o, f
    <3>2. o + j \in 1 .. Len(ids) /\ ~(o + j > f)
      BY <1>1, <3>1
    <3> QED BY <1>11, <3>2 DEF o, f
  <2>3. ids'[first[d] + j] = lists[m][j]
    BY <1>10, <2>1
  <2>4. ids'[offsets[m] + j] = ids[offsets[m] + j]
    BY <1>10, <2>2
  <2> QED BY <1>8, <2>3, <2>4
<1> QED BY <1>2, <1>3, <1>10, <1>11, <1>12 DEF SameExpression, m, n

\* The end of an item changes nothing that the elements of the SELECTs it is in rely on.
LEMMA ShareEndItem ==
  ASSUME IInv, SInv, ~Folding, NEW d \in Levels, EndGroupItem(d)
  PROVE  SInv'
<1>0. /\ depth = d /\ phase[d] = "item" /\ AssignParams(d)
      /\ phase' = [phase EXCEPT ![d] = "group"]
      /\ UNCHANGED <<refs, bufSize, depth, own, fps, lists, walks, offsets, used,
                     match, first, itemFp, walkFrom, walked>>
      /\ bound' = Bind(d, itemFp[d])
  BY DEF EndGroupItem, In, buffer, elements
<1>1. /\ d \in Nat /\ d >= 1 /\ \A x \in Levels : x \in Nat /\ (x <= d \/ x > d)
      /\ phase \in [Levels -> Phases] /\ match \in [Levels -> Nat]
      /\ first \in [Levels -> Nat] /\ ids \in Seq(Int) /\ Len(ids) \in Nat
      /\ DOMAIN ids = 1 .. Len(ids)
  BY <1>0, AtTop
<1>2. phase'[d] = "group" /\ \A x \in Levels : x # d => phase'[x] = phase[x]
  BY <1>0, <1>1
<1>3. DOMAIN ids' = DOMAIN ids /\ Len(ids') = Len(ids) /\ copied \subseteq copied'
      /\ \A i \in DOMAIN ids : ~(i > first[d]) => ids'[i] = ids[i]
  <2>1. CASE UNCHANGED <<ids, copied>>
    BY <2>1
  <2>2. CASE ~UNCHANGED <<ids, copied>>
    <3>1. /\ ids' = [i \in DOMAIN ids |-> IF i > first[d] THEN lists[match[d]][i - first[d]]
                                          ELSE ids[i]]
          /\ copied' = copied \cup (first[d] + 1 .. Len(ids))
      BY <1>0, <2>2 DEF AssignParams, counters
    <3>2. ids' = [i \in 1 .. Len(ids) |-> ids'[i]]
      BY <1>1, <3>1
    <3>3. Len(ids') = Len(ids)
      BY <1>1, <3>2
    <3> QED BY <3>1, <3>3
  <2> QED BY <2>1, <2>2
<1>9. /\ \A x \in Levels : bound[x] \subseteq bound'[x]
      /\ HoldsParam(Part(d)) => itemFp[d] \in bound'[d]
  <2>1. itemFp[d] \in Fps
    BY <1>0, AtTop
  <2> QED BY <1>0, <2>1, BindType
<1>4. ItemsKept
  BY <1>0, <1>2 DEF ItemsKept
<1>5. IdsKept
  <2> SUFFICES ASSUME NEW i \in 1 .. Len(ids), NEW x \in Levels, x <= depth, Before(i, x)
               PROVE  ids'[i] = ids[i]
    BY <1>0, <1>1, <1>3 DEF IdsKept
  <2>1. i <= first[d]
    BY <1>0, <1>1 DEF Before
  <2>2. first[d] \in Nat
    BY <1>1
  <2>3. i \in DOMAIN ids /\ ~(i > first[d])
    BY <1>1, <2>1, <2>2
  <2> QED BY <1>3, <2>3
<1>6. PlainLists' /\ Taken' /\ Bounded'
  <2>1. \A x \in Levels : x <= depth => \A e \in own[x] \cap used' :
          PlainWalk(walks[e]) /\ walks[e] # <<>> =>
             (phase'[x] = "item" /\ match'[x] = e) \/ Over(x, e)' \/ Over(x, e)
             \/ fps[e] \in bound'[x]
    <3> SUFFICES ASSUME NEW x \in Levels, x <= depth, NEW e \in own[x] \cap used,
                        PlainWalk(walks[e]), walks[e] # <<>>, ~Over(x, e),
                        fps[e] \notin bound'[x]
                 PROVE  (phase'[x] = "item" /\ match[x] = e) \/ Over(x, e)'
      BY <1>0
    <3>1. phase[x] = "item" /\ match[x] = e
      BY <1>9 DEF SInv, Taken
    <3>2. CASE x # d
      BY <1>2, <3>1, <3>2
    <3>3. CASE x = d
      <4>1. Len(walks[e]) \in Nat /\ Len(walks[e]) > 0 /\ e # 0
        <5>1. /\ walks[e] \in Seq(Params \cup {CONST, OPEN, CLOSE}) /\ e \in DOMAIN fps
              /\ fps \in Seq(Fps)
          BY ElementTypes DEF IInv, TypeOK
        <5> QED BY <5>1
      <4>2. /\ copied' = copied \cup (first[d] + 1 .. Len(ids))
            /\ first[d] + Len(walks[e]) = Len(ids)
            /\ \A j \in 1 .. Len(walks[e]) : ids'[first[d] + j] = ids'[offsets[e] + j]
        <5>1. match[d] # 0 /\ PlainWalk(walks[match[d]]) /\ d <= depth
          BY <1>0, <1>1, <3>1, <3>3, <4>1
        <5>2. fps[match[d]] = itemFp[d]
          BY <3>1, <3>3, <5>1 DEF IInv, Owned
        <5>3. ~HoldsParam(Part(d))
          BY <1>9, <3>1, <3>3, <5>2
        <5> QED BY <3>1, <3>3, <5>1, <5>3, GivesNumbers
      <4>3. first[d] + 1 \in copied' /\ ids'[first[d] + 1] = ids'[offsets[e] + 1]
        <5>1. first[d] \in Nat /\ 1 \in 1 .. Len(walks[e])
          BY <1>1, <4>1
        <5>2. first[d] + 1 \in first[d] + 1 .. Len(ids)
          BY <1>1, <4>1, <4>2, <5>1, SMTT(30)
        <5> QED BY <4>2, <5>1, <5>2
      <4>4. \A y \in Levels : ~(x <= y /\ y <= depth' /\ phase'[y] = "item")
        BY <1>0, <1>1, <1>2, <3>3
      <4>5. PICK i \in copied' : ids'[i] = ids'[offsets'[e] + 1]
        BY <1>0, <4>3
      <4>6. Before(i, x)'
        BY <4>4 DEF Before
      <4> QED BY <4>5, <4>6 DEF Over
    <3> QED BY <3>2, <3>3
  <2>2. Len(ids') \in Nat
    BY <1>1, <1>3
  <2>3. /\ copied \subseteq copied' /\ UNCHANGED <<fps, lists, walks, offsets>>
        /\ \A x \in Levels : x <= depth' => own'[x] = {} \/ (x <= depth /\ own'[x] = own[x])
        /\ depth' = depth /\ \A x \in Levels : bound[x] \subseteq bound'[x]
    BY <1>0, <1>3, <1>9
  <2> QED BY <1>4, <1>5, <2>1, <2>2, <2>3, ElementsKept
<1>7. Unmatched' /\ Apart'
  <2>1. \A x \in Levels : phase'[x] = "item" => phase[x] = "item"
    BY <1>0
  <2> QED BY <1>0, <2>1 DEF SInv, Unmatched, Apart
<1>8. InElement'
  <2> SUFFICES ASSUME NEW x \in Levels, x <= depth, phase'[x] \in {"target", "item"}
      PROVE  walkFrom[x] <= Len(walked) /\ first[x] <= Len(ids) /\ ~PlainPart(x)'
    BY <1>0, <1>3 DEF InElement
  <2>1. x # d /\ phase[x] \in {"target", "item"}
    BY <1>2
  <2>2. PlainPart(x)' <=> PlainPart(x)
    BY <1>0 DEF PlainPart
  <2> QED BY <1>0, <2>1, <2>2 DEF SInv, InElement
<1> QED BY <1>6, <1>7, <1>8 DEF SInv

\* The invariant of what items and elements share.
THEOREM ShareInvariance ==
  ASSUME ~DeepTrees, ~Folding
  PROVE  Spec => []SInv
<1>1. Init => SInv
  BY DEF Init, SInv, InElement, PlainLists, Unmatched, Taken, Bounded, Apart, Levels
<1>2. ASSUME IInv, SInv, [Next]_vars PROVE SInv'
  <2>1. CASE RecordConstLocation
    BY <1>2, <2>1, ShareConst
  <2>2. CASE BeginSelect \/ (\E n \in Params : ParamRef(n)) \/ (\E d \in Levels : EndSelect(d))
    BY <1>2, <2>2, ShareWalk
  <2>3. CASE \/ \E d \in Levels : EndTargetList(d) \/ EndGroupClause(d)
             \/ (\E n \in Params : PassOver(n)) \/ Generate \/ UNCHANGED vars
    BY <1>2, <2>3, ShareIdle
  <2>4. ASSUME NEW d \in Levels, BeginTarget(d) \/ EndTarget(d) PROVE SInv'
    BY <1>2, <2>4, ShareBeginTarget, ShareEndTarget
  <2>5. ASSUME NEW d \in Levels, BeginGroupItem(d) \/ EndGroupItem(d) PROVE SInv'
    BY <1>2, <2>5, ShareBeginItem, ShareEndItem
  <2> QED BY <1>2, <2>1, <2>2, <2>3, <2>4, <2>5 DEF Next
<1> QED BY <1>1, <1>2, WalkInvariance, PTL DEF Spec

\* The only step that ends an item is EndGroupItem.
LEMMA ItemEnds ==
  ASSUME IInv, [Next]_vars, NEW d \in Levels, phase[d] = "item", phase'[d] = "group"
  PROVE  EndGroupItem(d)
<1>1. phase \in [Levels -> Phases] /\ depth \in 0 .. MaxDepth
  BY DEF IInv, TypeOK
<1>2. phase' # phase
  OBVIOUS
<1>3. CASE BeginSelect
  BY <1>1, <1>3 DEF BeginSelect
<1>4. ASSUME NEW x \in Levels,
             \/ BeginTarget(x) \/ EndTarget(x) \/ EndTargetList(x) \/ BeginGroupItem(x)
             \/ EndGroupClause(x)
      PROVE  FALSE
  BY <1>1, <1>4 DEF BeginTarget, EndTarget, EndTargetList, BeginGroupItem, EndGroupClause
<1>5. ASSUME NEW x \in Levels, EndGroupItem(x) PROVE x = d
  BY <1>1, <1>5 DEF EndGroupItem
<1>6. ASSUME NEW x \in Levels, EndSelect(x) PROVE FALSE
  BY <1>2, <1>6 DEF EndSelect
<1>7. ASSUME NEW n \in Params, ParamRef(n) \/ PassOver(n) PROVE FALSE
  BY <1>2, <1>7 DEF ParamRef, PassOver
<1>8. CASE RecordConstLocation \/ Generate \/ UNCHANGED vars
  BY <1>2, <1>8 DEF RecordConstLocation, Generate, vars
<1> QED BY <1>3, <1>4, <1>5, <1>6, <1>7, <1>8 DEF Next

\* A GROUP BY item that repeats a target list element of nothing but constants gets the
\* numbers of such an element, unless an element or an earlier item with its fingerprint
\* holds a $n (PlainGroupItemsShare). ~Folding: expressions of one fingerprint differ only in
\* what their places hold; lists that fingerprints shorten would be matched by mistake.
THEOREM PlainItemsShare ==
  ASSUME ~DeepTrees, ~Folding
  PROVE  Spec => PlainGroupItemsShare
<1> DEFINE Step ==
      \A d \in Levels : phase[d] = "item" /\ phase'[d] = "group" /\ itemFp[d] \notin bound[d] =>
        \A e \in own[d] :
          SameExpression(e, d) /\ ~TakenOver(e) /\ (\A i \in DOMAIN walks[e] : walks[e][i] = CONST)
            => Shares(e, d)
<1>1. ASSUME IInv, SInv, [Next]_vars PROVE Step
  <2> SUFFICES ASSUME NEW d \in Levels, phase[d] = "item", phase'[d] = "group",
                      itemFp[d] \notin bound[d], NEW e \in own[d], SameExpression(e, d), ~TakenOver(e), PlainWalk(walks[e])
               PROVE  Shares(e, d)
    BY DEF PlainWalk
  <2>1. EndGroupItem(d) /\ depth = d
    <3>1. EndGroupItem(d)
      BY <1>1, ItemEnds
    <3> QED BY <3>1 DEF EndGroupItem, In
  <2>2. d \in Nat /\ d <= depth
    BY <1>1, <2>1, AtTop
  <2>3. walks[e] \in Seq(Params \cup {CONST, OPEN, CLOSE}) /\ Len(walks[e]) \in Nat
    BY <1>1, <2>2, ElementTypes
  <2>4. PlainWalk(walks[e]) /\ fps[e] = itemFp[d] /\ walks[e] = Part(d)
    BY DEF SameExpression
  <2>5. \A f \in own[d] : PlainWalk(walks[f]) => Constants(f) = Len(walks[f])
    <3> SUFFICES ASSUME NEW f \in own[d], PlainWalk(walks[f]) PROVE Constants(f) = Len(walks[f])
      OBVIOUS
    <3>1. DOMAIN walks[f] = 1 .. Len(walks[f]) /\ Len(walks[f]) \in Nat
      BY <1>1, <2>2, ElementTypes
    <3>2. {i \in DOMAIN walks[f] : walks[f][i] = CONST} = 1 .. Len(walks[f])
      BY <3>1 DEF PlainWalk
    <3>3. Cardinality(1 .. Len(walks[f])) = Len(walks[f])
      BY <3>1, FS_Interval
    <3> QED BY <3>2, <3>3 DEF Constants
  <2>6. CASE match[d] = 0
    <3>1. e \in used
      BY <1>1, <2>2, <2>4, <2>6 DEF SInv, Unmatched
    <3>2. walks[e] = <<>>
      <4> SUFFICES ASSUME walks[e] # <<>> PROVE FALSE
        OBVIOUS
      <4>1. e # 0
        <5>1. e \in DOMAIN fps /\ fps \in Seq(Fps)
          BY <1>1, <2>2, ElementTypes DEF IInv, TypeOK
        <5> QED BY <5>1
      <4>2. Over(d, e)
        BY <1>1, <2>2, <2>4, <2>6, <3>1, <4>1 DEF SInv, Taken
      <4>3. Constants(e) > 0
        BY <2>3, <2>4, <2>5
      <4> QED BY <4>2, <4>3 DEF Over, TakenOver
    <3>3. Constants(e) = 0
      BY <2>3, <2>4, <2>5, <3>2
    <3> QED BY <3>3 DEF Shares
  <2>7. CASE match[d] # 0
    <3> DEFINE m == match[d]
    <3>1. m > 0
      BY <1>1, <2>7 DEF IInv, TypeOK
    <3>a. m \in own[d] /\ fps[m] = itemFp[d]
      BY <1>1, <2>2, <3>1 DEF IInv, Owned
    <3>b. walks[m] \in Seq(Params \cup {CONST, OPEN, CLOSE}) /\ ~HoldsParam(walks[m])
      BY <1>1, <2>2, <3>a, ElementTypes DEF SInv, Bounded
    <3>c. Shape(walks[m]) = Shape(walks[e])
      BY <2>1, <2>4, <3>a DEF EndGroupItem, Fits
    <3>d. ~HoldsParam(walks[e]) /\ ~HoldsParam(Part(d))
      BY <2>4, PlainIsUnbound
    <3>2. walks[m] = Part(d)
      BY <2>3, <2>4, <3>b, <3>c, <3>d, SameShape
    <3>3. /\ m \in own[d] /\ SameExpression(m, d)
          /\ \A j \in 1 .. Len(walks[m]) : ids'[first[d] + j] = ids'[offsets[m] + j]
      BY <1>1, <2>1, <2>4, <2>7, <3>2, <3>d, GivesNumbers
    <3>4. Constants(m) = Len(walks[m])
      BY <2>4, <2>5, <3>2, <3>3
    <3> QED BY <3>3, <3>4 DEF Shares
  <2> QED BY <2>6, <2>7
<1>2. PlainGroupItemsShare <=> [][Step]_vars
  BY DEF PlainGroupItemsShare
<1> HIDE DEF Step
<1> QED BY <1>1, <1>2, WalkInvariance, ShareInvariance, PTL DEF Spec
=============================================================================
