------------------------ MODULE DeparseCommentsProofs ------------------------
(***************************************************************************)
(* Queries of any length: comments are put back at most once, in order and   *)
(* in front of the code they stood in front of. The argument: the comments   *)
(* emitted are always the first ones, since match_location never decreases,  *)
(* and nothing printed for a statement lies behind the start of a later one. *)
(* FrontInv follows a comment that is put back until the node or statement   *)
(* that it stood in front of is printed: nothing else is, in between.        *)
(***************************************************************************)
EXTENDS DeparseComments, TLAPS, FiniteSetTheorems, WellFoundedInduction

\* match_location never decreases and lies in the part scanned.
Ordered ==
  /\ prior_non_comment_end <= pos
  /\ \A i \in DOMAIN comments : comments[i].match_location <= prior_non_comment_end
  /\ \A i, j \in DOMAIN comments :
       i < j => comments[i].match_location <= comments[j].match_location

Scanning == phase = "scan" => output = <<>> /\ emitted_comments = {}

\* The comments emitted, or filtered out, are the first ones.
FirstOnes == \A i \in emitted_comments : \A j \in DOMAIN comments : j < i => j \in emitted_comments

\* What is in the output lies before every statement that is still to come.
Behind ==
  /\ \A a \in DOMAIN output : IsComment(a) =>
       /\ output[a][2] \in emitted_comments
       /\ \A s \in Later : comments[output[a][2]].match_location < s
  /\ \A a \in DOMAIN output : IsText(a) =>
       /\ \A s \in Later : output[a][2] < s
       /\ \A i \in DOMAIN comments \ emitted_comments :
            output[a][2] < comments[i].match_location

\* The nodes printed before a comment lie in front of the code that it is placed behind.
NodesInFront ==
  \A a, b \in DOMAIN output :
    IsText(a) /\ IsComment(b) /\ a < b => output[a][2] < comments[output[b][2]].match_location

Located ==
  phase \in {"emit", "visit"} =>
    stmt_location \in Nat /\ \A s \in Later : location < s

IInv == TypeOK /\ Ordered /\ Scanning /\ FirstOnes /\ Behind /\ Located
          /\ CommentsOnceInOrder /\ NodesInFront

-----------------------------------------------------------------------------
(* Lemmas about the operators.                                               *)

\* A set of natural numbers has a least one.
LEMMA MinNat ==
  ASSUME NEW T \in SUBSET Nat, T # {}
  PROVE  \E m \in T : \A n \in T : m <= n
<1>1. PICK x \in T : \A y \in T : ~(<<y, x>> \in OpToRel(<, Nat))
  BY WFMin, NatLessThanWellFounded
<1>2. \A y \in T : ~(y < x)
  BY <1>1 DEF OpToRel
<1>3. x \in Nat /\ \A y \in T : y \in Nat
  OBVIOUS
<1>4. \A y \in T : x <= y
  BY <1>2, <1>3
<1> QED BY <1>4

\* The next token is behind the one before it, within the query or just past it.
LEMMA TokenAfterType ==
  ASSUME TypeOK, NEW p \in Nat
  PROVE  TokenAfter(p) \in Nat /\ (TokenAfter(p) <= Len(query) => TokenAfter(p) > p)
<1> DEFINE later == {q \in p + 1 .. Len(query) : query[q] \in Tokens}
<1>1. Len(query) \in Nat
  BY DEF TypeOK
<1>2. CASE later = {}
  BY <1>1, <1>2 DEF TokenAfter
<1>3. CASE later # {}
  <2>1. later \in SUBSET Nat
    BY <1>1
  <2>2. \E m \in later : \A n \in later : m <= n
    BY <2>1, <1>3, MinNat
  <2>3. TokenAfter(p) \in later
    BY <2>2, <1>3 DEF TokenAfter
  <2> QED BY <2>1, <2>3, <1>1
<1> QED BY <1>2, <1>3

\* Statements begin at natural numbers.
LEMMA StmtsType == ASSUME TypeOK PROVE Stmts \subseteq Nat /\ Later \subseteq Nat
<1>1. Len(query) \in Nat
  BY DEF TypeOK
<1>2. Stmts \subseteq Nat
  <2>1. \A s \in Stmts : s \in {0} \cup {p \in 1 .. Len(query) : query[p] = ";"}
    BY DEF Stmts
  <2>2. \A p \in 1 .. Len(query) : p \in Nat
    BY <1>1
  <2>3. \A s \in Stmts : s = 0 \/ s \in 1 .. Len(query)
    BY <2>1
  <2> QED BY <2>2, <2>3
<1> QED BY <1>2 DEF Later

\* A concatenation, element by element.
LEMMA Concat ==
  ASSUME NEW S, NEW s \in Seq(S), NEW t \in Seq(S)
  PROVE  /\ s \o t \in Seq(S) /\ Len(s \o t) = Len(s) + Len(t)
         /\ \A k \in 1 .. Len(s) : (s \o t)[k] = s[k]
         /\ \A k \in Len(s) + 1 .. Len(s) + Len(t) : (s \o t)[k] = t[k - Len(s)]
OBVIOUS

\* The parts of a comment.
LEMMA CommentType ==
  ASSUME TypeOK, NEW i \in DOMAIN comments
  PROVE  /\ comments[i].match_location \in Nat
         /\ comments[i].before \subseteq 1 .. Len(query)
         /\ comments[i].after \subseteq 1 .. Len(query)
         /\ i \in Nat /\ i >= 1
<1> DEFINE CType == [at : 1 .. Len(query), match_location : Nat,
                     before : SUBSET (1 .. Len(query)), after : SUBSET (1 .. Len(query))]
<1>1. comments \in Seq(CType)
  BY DEF TypeOK
<1> HIDE DEF CType
<1>2. comments[i] \in CType /\ i \in Nat /\ i >= 1
  BY <1>1
<1> QED BY <1>2 DEF CType

Emitted(o, b, i, c) == o \o Repeat(b) \o <<<<"comment", i>>>> \o Repeat(c)

IsEmitted(new, o, b, i, c) ==
  /\ new \in Seq({"comment", "newline", "text", "word"} \X Int)
  /\ Len(new) = Len(o) + b + 1 + c
  /\ \A k \in 1 .. Len(o) : new[k] = o[k]
  /\ new[Len(o) + b + 1] = <<"comment", i>>
  /\ \A k \in Len(o) + 1 .. Len(new) : k # Len(o) + b + 1 => new[k] = <<"newline", 0>>

\* What emitting a comment appends: newlines and that one comment.
LEMMA AppendComment ==
  ASSUME NEW o \in Seq({"comment", "newline", "text", "word"} \X Int),
         NEW b \in Nat, NEW c \in Nat, NEW i \in Int
  PROVE  IsEmitted(Emitted(o, b, i, c), o, b, i, c)
<1> DEFINE new == Emitted(o, b, i, c)
<1> DEFINE Items == {"comment", "newline", "text", "word"} \X Int
<1> DEFINE one == <<<<"comment", i>>>>
<1>1. /\ Repeat(b) \in Seq(Items) /\ Len(Repeat(b)) = b
      /\ \A k \in 1 .. b : Repeat(b)[k] = <<"newline", 0>>
  BY DEF Repeat
<1>2. /\ Repeat(c) \in Seq(Items) /\ Len(Repeat(c)) = c
      /\ \A k \in 1 .. c : Repeat(c)[k] = <<"newline", 0>>
  BY DEF Repeat
<1>3. one \in Seq(Items) /\ Len(one) = 1 /\ one[1] = <<"comment", i>>
  OBVIOUS
<1> HIDE DEF one, Items
<1>4. o \in Seq(Items)
  BY DEF Items
<1> HIDE DEF Repeat
<1> DEFINE ob == o \o Repeat(b)
<1>5. /\ ob \in Seq(Items) /\ Len(ob) = Len(o) + b
      /\ \A k \in 1 .. Len(o) : ob[k] = o[k]
      /\ \A k \in Len(o) + 1 .. Len(o) + b : ob[k] = Repeat(b)[k - Len(o)]
  <2>1. /\ ob \in Seq(Items) /\ Len(ob) = Len(o) + Len(Repeat(b))
        /\ \A k \in 1 .. Len(o) : ob[k] = o[k]
        /\ \A k \in Len(o) + 1 .. Len(o) + Len(Repeat(b)) : ob[k] = Repeat(b)[k - Len(o)]
    BY <1>1, <1>4, Concat
  <2> QED BY <2>1, <1>1
<1> DEFINE obo == ob \o one
<1> HIDE DEF ob
<1>6. /\ obo \in Seq(Items) /\ Len(obo) = Len(ob) + 1
      /\ \A k \in 1 .. Len(ob) : obo[k] = ob[k]
      /\ \A k \in Len(ob) + 1 .. Len(ob) + 1 : obo[k] = one[k - Len(ob)]
  <2>1. /\ obo \in Seq(Items) /\ Len(obo) = Len(ob) + Len(one)
        /\ \A k \in 1 .. Len(ob) : obo[k] = ob[k]
        /\ \A k \in Len(ob) + 1 .. Len(ob) + Len(one) : obo[k] = one[k - Len(ob)]
    BY <1>5, <1>3, Concat
  <2> QED BY <2>1, <1>3
<1> HIDE DEF obo
<1>7. new = obo \o Repeat(c)
  BY DEF obo, ob, one, Emitted
<1> HIDE DEF new
<1>8. /\ new \in Seq(Items) /\ Len(new) = Len(obo) + c
      /\ \A k \in 1 .. Len(obo) : new[k] = obo[k]
      /\ \A k \in Len(obo) + 1 .. Len(obo) + c : new[k] = Repeat(c)[k - Len(obo)]
  <2>1. /\ obo \o Repeat(c) \in Seq(Items) /\ Len(obo \o Repeat(c)) = Len(obo) + Len(Repeat(c))
        /\ \A k \in 1 .. Len(obo) : (obo \o Repeat(c))[k] = obo[k]
        /\ \A k \in Len(obo) + 1 .. Len(obo) + Len(Repeat(c)) :
              (obo \o Repeat(c))[k] = Repeat(c)[k - Len(obo)]
    BY <1>2, <1>6, Concat, ZenonT(40)
  <2> QED BY <2>1, <1>7, <1>2
<1>9. Len(o) \in Nat /\ Len(ob) = Len(o) + b /\ Len(obo) = Len(o) + b + 1
  BY <1>4, <1>5, <1>6
<1>10. new \in Seq(Items) /\ Len(new) = Len(o) + b + 1 + c
  BY <1>8, <1>9
<1>11. \A k \in 1 .. Len(o) : new[k] = o[k]
  <2> TAKE k \in 1 .. Len(o)
  <2>1. k \in 1 .. Len(ob) /\ k \in 1 .. Len(obo)
    BY <1>9
  <2>2. new[k] = obo[k] /\ obo[k] = ob[k] /\ ob[k] = o[k]
    BY <2>1, <1>5, <1>6, <1>8
  <2> QED BY <2>2
<1>12. new[Len(o) + b + 1] = <<"comment", i>>
  <2>1. obo[Len(ob) + 1] = one[1]
    BY <1>6, <1>9
  <2>2. Len(ob) + 1 \in 1 .. Len(obo)
    BY <1>9
  <2> QED BY <2>1, <2>2, <1>3, <1>8, <1>9
<1>13. \A k \in Len(o) + 1 .. Len(new) : k # Len(o) + b + 1 => new[k] = <<"newline", 0>>
  <2> TAKE k \in Len(o) + 1 .. Len(new)
  <2> HAVE k # Len(o) + b + 1
  <2>0. k \in Int /\ Len(o) + b + 1 \in Int /\ k > Len(o) /\ k <= Len(new)
    BY <1>9, <1>10
  <2>1. CASE k <= Len(o) + b
    <3>1. k \in 1 .. Len(ob) /\ k \in 1 .. Len(obo) /\ k - Len(o) \in 1 .. b
      BY <2>1, <1>9
    <3>2. k \in Len(o) + 1 .. Len(o) + b
      BY <2>1, <1>9, <1>10
    <3>3. new[k] = obo[k] /\ obo[k] = ob[k] /\ ob[k] = Repeat(b)[k - Len(o)]
      BY <3>1, <3>2, <1>5, <1>6, <1>8
    <3> QED BY <3>1, <3>3, <1>1
  <2>2. CASE k > Len(o) + b + 1
    <3>1. k \in Len(obo) + 1 .. Len(obo) + c /\ k - Len(obo) \in 1 .. c
      BY <2>2, <1>9, <1>10
    <3>2. new[k] = Repeat(c)[k - Len(obo)]
      BY <3>1, <1>8
    <3> QED BY <3>1, <3>2, <1>2
  <2>3. k <= Len(o) + b \/ k > Len(o) + b + 1
    <3>1. \A x, y \in Int : x # y + 1 => x <= y \/ x > y + 1
      OBVIOUS
    <3>2. Len(o) + b \in Int
      BY <1>9
    <3> HIDE DEF Items
    <3> QED BY <2>0, <3>1, <3>2
  <2> QED BY <2>1, <2>2, <2>3
<1>14. IsEmitted(new, o, b, i, c)
  BY <1>10, <1>11, <1>12, <1>13 DEF Items, IsEmitted
<1> QED BY <1>14 DEF new

-----------------------------------------------------------------------------
(* The invariant.                                                            *)

\* A query that has not been scanned yet.
LEMMA InitIInv == Init => IInv
<1>1. ASSUME NEW n \in 0 .. MaxLen, NEW q \in [1 .. n -> Tokens \cup Breaks], InitOn(q)
      PROVE  IInv
  <2>1. query \in Seq(Tokens \cup Breaks)
    BY <1>1, DeparseCommentsAssumption DEF InitOn
  <2>2. TypeOK
    <3>1. /\ comments = <<>> /\ output = <<>> /\ phase = "scan" /\ pos = 0
          /\ prior_token_was_comment = FALSE /\ prior_non_comment_end = 0
          /\ prior_token_end = 0 /\ stmt_location = -1 /\ location = 0
          /\ visited = {} /\ emitted_comments = {}
      BY <1>1 DEF InitOn
    <3>2. comments \in Seq([at : 1 .. Len(query), match_location : Nat,
                        before : SUBSET (1 .. Len(query)), after : SUBSET (1 .. Len(query))])
      BY <3>1
    <3>3. output \in Seq({"comment", "newline", "text", "word"} \X Int)
      BY <3>1
    <3>4. stmt_location \in Int /\ location \in Int
      BY <3>1
    <3> QED BY <2>1, <3>1, <3>2, <3>3, <3>4 DEF TypeOK
  <2> QED BY <1>1, <2>2 DEF InitOn, IInv, Ordered, Scanning, FirstOnes, Behind, Located,
                            CommentsOnceInOrder, NodesInFront
<1> QED BY <1>1 DEF Init

\* Scanning a token.
LEMMA ScanIInv == IInv /\ (Comment \/ OtherToken) => IInv'
<1> SUFFICES ASSUME IInv, Comment \/ OtherToken PROVE IInv'
  OBVIOUS
<1> DEFINE tok == TokenAfter(pos)
<1>1. phase = "scan" /\ phase' = "scan" /\ tok <= Len(query)
  BY DEF Comment, OtherToken
<1>2. TypeOK /\ Ordered /\ output = <<>> /\ emitted_comments = {}
  BY <1>1 DEF IInv, Scanning
<1>3. tok \in Nat /\ tok > pos /\ pos \in Nat /\ Len(query) \in Nat
  BY <1>1, <1>2, TokenAfterType DEF TypeOK
<1>4. output' = <<>> /\ emitted_comments' = {} /\ query' = query /\ pos' = tok
  BY <1>2 DEF Comment, OtherToken, state
<1> HIDE DEF tok
<1>5. CASE Comment
  <2> DEFINE c == [at |-> tok, match_location |-> prior_non_comment_end,
                   before |-> NewlinesBefore(tok), after |-> NewlinesAfter(tok)]
  <2>1. comments' = Append(comments, c) /\ prior_non_comment_end' = prior_non_comment_end
    BY <1>5 DEF Comment, MatchLocation, tok
  <2>2. \A a, b \in Int : a >= 0 /\ b <= Len(query) => Newlines(a, b) \subseteq 1 .. Len(query)
    BY <1>3 DEF Newlines
  <2>3. prior_token_end \in Nat
    BY <1>2 DEF TypeOK
  <2>4. NewlinesBefore(tok) \subseteq 1 .. Len(query)
    BY <2>2, <2>3, <1>1, <1>3 DEF NewlinesBefore
  <2>5. TokenAfter(tok) \in Nat
    BY <1>2, <1>3, TokenAfterType
  <2>6. NewlinesAfter(tok) \subseteq 1 .. Len(query)
    BY <2>2, <2>5, <1>3 DEF NewlinesAfter
  <2>7. prior_non_comment_end \in Nat /\ tok \in 1 .. Len(query)
    BY <1>1, <1>2, <1>3 DEF TypeOK
  <2> DEFINE CType == [at : 1 .. Len(query), match_location : Nat,
                       before : SUBSET (1 .. Len(query)), after : SUBSET (1 .. Len(query))]
  <2>8. c \in CType /\ comments \in Seq(CType)
    BY <2>4, <2>6, <2>7, <1>2 DEF TypeOK
  <2>9. c.match_location = prior_non_comment_end
    OBVIOUS
  <2> HIDE DEF c, CType
  <2>10. /\ comments' \in Seq(CType) /\ Len(comments') = Len(comments) + 1
         /\ Len(comments) \in Nat
         /\ \A i \in 1 .. Len(comments) : comments'[i] = comments[i]
         /\ comments'[Len(comments) + 1] = c
    BY <2>1, <2>8
  <2>11. TypeOK'
    <3>1. prior_token_end' = tok /\ prior_token_was_comment' = TRUE
      BY <1>5 DEF Comment, MatchLocation, tok
    <3>2. comments' \in Seq([at : 1 .. Len(query'), match_location : Nat,
                       before : SUBSET (1 .. Len(query')), after : SUBSET (1 .. Len(query'))])
      BY <2>10, <1>4 DEF CType
    <3>3. stmt_location' = stmt_location /\ location' = location /\ visited' = visited
      BY <1>5 DEF Comment, state
    <3> QED BY <3>1, <3>2, <3>3, <2>1, <1>1, <1>2, <1>3, <1>4 DEF TypeOK
  <2>12. Ordered'
    <3>1. \A i \in DOMAIN comments' : comments'[i].match_location <= prior_non_comment_end
      BY <2>10, <2>9, <2>7, <1>2 DEF Ordered
    <3>2. \A i \in DOMAIN comments' : \A j \in DOMAIN comments' :
            i < j => comments'[i].match_location <= comments'[j].match_location
      <4> TAKE i \in DOMAIN comments'
      <4> TAKE j \in DOMAIN comments'
      <4> HAVE i < j
      <4>1. i \in 1 .. Len(comments)
        BY <2>10
      <4>2. CASE j \in 1 .. Len(comments)
        BY <4>1, <4>2, <2>10, <1>2 DEF Ordered
      <4>3. CASE j = Len(comments) + 1
        BY <4>3, <3>1, <2>10, <2>9
      <4> QED BY <4>2, <4>3, <2>10
    <3>3. prior_non_comment_end <= tok
      BY <1>2, <1>3, <2>7 DEF Ordered
    <3> QED BY <3>1, <3>2, <3>3, <2>1, <1>4 DEF Ordered
  <2> QED BY <2>11, <2>12, <1>1, <1>4 DEF IInv, Scanning, FirstOnes, Behind, Located,
                                CommentsOnceInOrder, NodesInFront
<1>6. CASE OtherToken
  <2>1. /\ prior_non_comment_end' = tok /\ prior_token_end' = tok
        /\ prior_token_was_comment' = FALSE /\ comments' = comments
    BY <1>6 DEF OtherToken, tok
  <2>2. stmt_location' = stmt_location /\ location' = location /\ visited' = visited
    BY <1>6 DEF OtherToken, state
  <2>3. TypeOK'
    BY <2>1, <2>2, <1>1, <1>2, <1>3, <1>4 DEF TypeOK
  <2>4. \A i \in DOMAIN comments : comments[i].match_location \in Nat
    BY <1>2, CommentType
  <2>5. prior_non_comment_end \in Nat
    BY <1>2 DEF TypeOK
  <2>6. \A i \in DOMAIN comments : comments[i].match_location <= tok
    BY <2>4, <2>5, <1>2, <1>3 DEF Ordered
  <2>7. Ordered'
    BY <2>1, <2>6, <1>2, <1>3, <1>4 DEF Ordered
  <2> QED BY <2>3, <2>7, <1>1, <1>4 DEF IInv, Scanning, FirstOnes, Behind, Located,
                                CommentsOnceInOrder, NodesInFront
<1> QED BY <1>5, <1>6

\* The end of the scan.
LEMMA ScannedIInv == IInv /\ Scanned => IInv'
<1> SUFFICES ASSUME IInv, Scanned PROVE IInv'
  OBVIOUS
<1>1. phase = "scan" /\ phase' = "begin" /\ UNCHANGED <<query, scan, state, output>>
  BY DEF Scanned
<1>2. output = <<>> /\ emitted_comments = {}
  BY <1>1 DEF IInv, Scanning
<1>3. TypeOK' /\ Ordered'
  BY <1>1 DEF IInv, TypeOK, Ordered, scan, prior, state
<1>4. output' = <<>> /\ emitted_comments' = {}
  BY <1>1, <1>2 DEF state
<1> QED BY <1>1, <1>3, <1>4 DEF IInv, Scanning, FirstOnes, Behind, Located,
                               CommentsOnceInOrder, NodesInFront

\* The next statement: of the comments, those placed before it are filtered out, and
\* those in the output are among them.
LEMMA RawStmtIInv == IInv /\ DeparseRawStmt => IInv'
<1> SUFFICES ASSUME IInv, DeparseRawStmt PROVE IInv'
  OBVIOUS
<1>1. PICK s \in Later : /\ stmt_location' = s /\ location' = s
                         /\ emitted_comments' = PlacedBefore(s)
  BY DEF DeparseRawStmt
<1>2. /\ visited' = {} /\ phase' = "emit" /\ query' = query /\ comments' = comments
      /\ prior_non_comment_end' = prior_non_comment_end /\ pos' = pos
      /\ prior_token_end' = prior_token_end /\ output' = output
      /\ prior_token_was_comment' = prior_token_was_comment
  BY DEF DeparseRawStmt, scan, prior
<1>3. s \in Nat /\ Later \subseteq Nat /\ stmt_location \in Int
  BY StmtsType DEF IInv, TypeOK
<1>4. TypeOK'
  <2>1. emitted_comments' \subseteq DOMAIN comments'
    BY <1>1, <1>2 DEF PlacedBefore
  <2> QED BY <1>1, <1>2, <1>3, <2>1 DEF IInv, TypeOK
<1>5. Ordered' /\ Scanning'
  BY <1>2 DEF IInv, Ordered, Scanning
<1>6. Later' \subseteq Later /\ \A t \in Later' : s < t
  <2>1. Stmts' = Stmts
    BY <1>2 DEF Stmts, Within
  <2>2. Later' = {t \in Stmts : t > s}
    BY <2>1, <1>1 DEF Later
  <2>3. s > stmt_location /\ Stmts \subseteq Nat
    BY <1>1, StmtsType DEF Later, IInv
  <2>4. \A t \in Later' : t \in Stmts /\ t > s
    BY <2>2
  <2>5. \A x, y, z \in Int : x > y /\ y > z => x > z /\ y < x
    OBVIOUS
  <2>6. ASSUME NEW t \in Later' PROVE t > stmt_location /\ s < t /\ t \in Stmts
    <3>0. t > s /\ t \in Stmts
      BY <2>4
    <3>1. t \in Int /\ s \in Int /\ t > s /\ t \in Stmts
      BY <3>0, <2>3, <1>3
    <3> QED BY <3>1, <2>3, <2>5, <1>3
  <2> QED BY <2>6 DEF Later
<1>7. \A i \in DOMAIN comments : comments[i].match_location \in Nat /\ i \in Nat
  BY CommentType DEF IInv
<1>8. FirstOnes'
  <2> SUFFICES ASSUME NEW i \in PlacedBefore(s), NEW j \in DOMAIN comments, j < i
               PROVE  j \in PlacedBefore(s)
    BY <1>1, <1>2 DEF FirstOnes
  <2>1. i \in DOMAIN comments /\ comments[i].match_location < s
    BY DEF PlacedBefore
  <2>2. comments[j].match_location <= comments[i].match_location
    BY <2>1 DEF IInv, Ordered
  <2> QED BY <2>1, <2>2, <1>3, <1>7 DEF PlacedBefore
<1>9. Behind'
  <2>1. ASSUME NEW a \in DOMAIN output, IsComment(a)
        PROVE  /\ output[a][2] \in PlacedBefore(s)
               /\ \A t \in Later' : comments[output[a][2]].match_location < t
    <3>1. /\ output[a][2] \in emitted_comments
          /\ \A t \in Later : comments[output[a][2]].match_location < t
      BY <2>1 DEF IInv, Behind
    <3>2. output[a][2] \in DOMAIN comments
      BY <3>1 DEF IInv, TypeOK
    <3> QED BY <3>1, <3>2, <1>6 DEF PlacedBefore
  <2>2. ASSUME NEW a \in DOMAIN output, IsText(a)
        PROVE  /\ \A t \in Later' : output[a][2] < t
               /\ \A i \in DOMAIN comments \ PlacedBefore(s) :
                    output[a][2] < comments[i].match_location
    <3>1. \A t \in Later : output[a][2] < t
      BY <2>2 DEF IInv, Behind
    <3>2. output[a][2] \in Int
      BY DEF IInv, TypeOK
    <3>3. \A i \in DOMAIN comments \ PlacedBefore(s) : s <= comments[i].match_location
      BY <1>3, <1>7 DEF PlacedBefore
    <3>4. \A x, y, z \in Int : x < y /\ y <= z => x < z
      OBVIOUS
    <3>5. output[a][2] < s
      BY <3>1
    <3>6. \A i \in DOMAIN comments \ PlacedBefore(s) : output[a][2] < comments[i].match_location
      BY <3>2, <3>3, <3>4, <3>5, <1>3, <1>7
    <3>7. \A t \in Later' : output[a][2] < t
      BY <3>1, <1>6
    <3> QED BY <3>6, <3>7
  <2> QED BY <2>1, <2>2, <1>1, <1>2 DEF Behind, IsComment, IsText
<1>10. Located'
  BY <1>1, <1>3, <1>6 DEF Located
<1>11. CommentsOnceInOrder' /\ NodesInFront'
  BY <1>2 DEF IInv, CommentsOnceInOrder, NodesInFront, IsComment, IsText
<1> QED BY <1>4, <1>5, <1>8, <1>9, <1>10, <1>11 DEF IInv

\* What stays of the invariant when neither the comments nor the query change.
LEMMA Unscanned ==
  ASSUME IInv, phase # "scan", phase' # "scan", UNCHANGED <<query, scan, stmt_location>>
  PROVE  Ordered' /\ Scanning' /\ Later' = Later /\ Stmts' = Stmts
<1>1. query' = query /\ comments' = comments /\ prior_non_comment_end' = prior_non_comment_end
      /\ pos' = pos /\ stmt_location' = stmt_location
  BY DEF scan, prior
<1>2. Stmts' = Stmts
  BY <1>1 DEF Stmts, Within
<1> QED BY <1>1, <1>2 DEF IInv, Ordered, Scanning, Later

\* A comment is put back: the first one left, so it is behind those in the output.
LEMMA EmitCommentIInv == IInv /\ EmitComment => IInv'
<1> SUFFICES ASSUME IInv, EmitComment PROVE IInv'
  OBVIOUS
<1>1. PICK i \in Reached :
        /\ \A j \in Reached : i <= j
        /\ output' = output \o Repeat(Cardinality(comments[i].before))
                       \o <<<<"comment", i>>>> \o Repeat(Cardinality(comments[i].after))
        /\ emitted_comments' = emitted_comments \cup {i}
  BY DEF EmitComment
<1>2. /\ phase = "emit" /\ phase' = "emit" /\ query' = query /\ comments' = comments
      /\ stmt_location' = stmt_location /\ location' = location /\ visited' = visited
      /\ UNCHANGED scan
  BY DEF EmitComment, scan
<1>3. /\ i \in DOMAIN comments /\ i \notin emitted_comments
      /\ comments[i].match_location <= location /\ comments[i].match_location \in Nat
  BY CommentType DEF Reached, IInv
<1>4. \A k \in DOMAIN comments : comments[k].match_location \in Nat /\ k \in Nat
  BY CommentType DEF IInv
<1>5. location \in Int /\ Len(output) \in Nat
  BY DEF IInv, TypeOK
<1>6. Cardinality(comments[i].before) \in Nat /\ Cardinality(comments[i].after) \in Nat
  <2>1. Len(query) \in Nat
    BY DEF IInv, TypeOK
  <2>2. IsFiniteSet(1 .. Len(query))
    BY <2>1, FS_Interval
  <2>3. comments[i].before \subseteq 1 .. Len(query) /\ comments[i].after \subseteq 1 .. Len(query)
    BY <1>3, CommentType DEF IInv
  <2>4. IsFiniteSet(comments[i].before) /\ IsFiniteSet(comments[i].after)
    BY <2>2, <2>3, FS_Subset
  <2> QED BY <2>4, FS_CardinalityType
<1> DEFINE b == Cardinality(comments[i].before)
<1> DEFINE c == Cardinality(comments[i].after)
<1> DEFINE at == Len(output) + b + 1
<1>7. /\ output' \in Seq({"comment", "newline", "text", "word"} \X Int)
      /\ Len(output') = Len(output) + b + 1 + c
      /\ \A k \in 1 .. Len(output) : output'[k] = output[k]
      /\ output'[at] = <<"comment", i>>
      /\ \A k \in Len(output) + 1 .. Len(output') : k # at => output'[k] = <<"newline", 0>>
  <2>1. i \in Int /\ output \in Seq({"comment", "newline", "text", "word"} \X Int)
    BY <1>3, <1>4 DEF IInv, TypeOK
  <2>2. /\ b \in Nat /\ c \in Nat
        /\ output' = Emitted(output, b, i, c)
    BY <1>1, <1>6 DEF Emitted
  <2> HIDE DEF b, c
  <2>3. IsEmitted(Emitted(output, b, i, c), output, b, i, c)
    BY <2>1, <2>2, AppendComment
  <2> QED BY <2>2, <2>3 DEF IsEmitted
<1>8. b \in Nat /\ c \in Nat
  BY <1>6
<1> HIDE DEF b, c
<1>9. at \in Nat /\ at > Len(output) /\ DOMAIN output' = 1 .. Len(output')
      /\ DOMAIN output = 1 .. Len(output)
  <2>1. at \in Nat /\ at > Len(output)
    BY <1>5, <1>8
  <2> QED BY <2>1, <1>7 DEF IInv, TypeOK
<1> HIDE DEF at
<1>10. \A k \in DOMAIN output' :
         \/ k \in DOMAIN output /\ output'[k] = output[k] /\ k < at
         \/ k = at /\ output'[k] = <<"comment", i>>
         \/ output'[k] = <<"newline", 0>>
  <2> TAKE k \in DOMAIN output'
  <2>1. k \in Nat /\ k >= 1 /\ k <= Len(output')
    BY <1>7, <1>9
  <2>2. CASE k <= Len(output)
    <3>1. k \in 1 .. Len(output)
      BY <2>1, <2>2, <1>5
    <3>2. \A x, y, z \in Int : x <= y /\ z > y => x < z
      OBVIOUS
    <3>3. k < at
      BY <2>1, <2>2, <1>5, <1>9, <3>2
    <3> QED BY <3>1, <3>3, <1>7, <1>9
  <2>3. CASE k > Len(output)
    <3>1. k \in Len(output) + 1 .. Len(output')
      BY <2>1, <2>3, <1>5, <1>7, <1>8
    <3> QED BY <3>1, <1>7
  <2>4. \A x, y \in Int : x <= y \/ x > y
    OBVIOUS
  <2> QED BY <2>1, <2>2, <2>3, <2>4, <1>5
<1>11. \A k \in DOMAIN output' :
         /\ IsText(k)' => k \in DOMAIN output /\ IsText(k) /\ output'[k] = output[k] /\ k < at
         /\ IsComment(k)' =>
              \/ k \in DOMAIN output /\ IsComment(k) /\ output'[k] = output[k] /\ k < at
              \/ k = at /\ output'[k] = <<"comment", i>>
  <2> TAKE k \in DOMAIN output'
  <2>1. "text" # "comment" /\ "text" # "newline" /\ "comment" # "newline"
    OBVIOUS
  <2>2. (IsText(k)' <=> output'[k][1] = "text") /\ (IsComment(k)' <=> output'[k][1] = "comment")
    BY DEF IsText, IsComment
  <2>3. \A x : <<"newline", x>>[1] = "newline" /\ <<"comment", x>>[1] = "comment"
    OBVIOUS
  <2> QED BY <1>10, <2>1, <2>2, <2>3 DEF IsText, IsComment
<1>12. TypeOK'
  <2>1. emitted_comments' \subseteq DOMAIN comments'
    BY <1>1, <1>2, <1>3 DEF IInv, TypeOK
  <2> QED BY <2>1, <1>2, <1>7 DEF IInv, TypeOK, scan, prior
<1>13. Ordered' /\ Scanning' /\ Later' = Later
  <2>1. phase # "scan" /\ phase' # "scan"
    BY <1>2
  <2> QED BY <2>1, <1>2, Unscanned
<1>14. \A k \in emitted_comments : k < i
  <2> TAKE k \in emitted_comments
  <2>1. k \in DOMAIN comments /\ k # i
    BY <1>3 DEF IInv, TypeOK
  <2>2. ~(i < k)
    BY <1>3 DEF IInv, FirstOnes
  <2>3. \A x, y \in Int : x # y /\ ~(y < x) => x < y
    OBVIOUS
  <2> QED BY <2>1, <2>2, <2>3, <1>3, <1>4
<1>15. FirstOnes'
  <2> SUFFICES ASSUME NEW j \in DOMAIN comments, j < i PROVE j \in emitted_comments
    <3>1. \A k \in emitted_comments : \A j \in DOMAIN comments : j < k => j \in emitted_comments
      BY DEF IInv, FirstOnes
    <3> QED BY <3>1, <1>1, <1>2 DEF FirstOnes
  <2>1. comments[j].match_location <= comments[i].match_location
    BY <1>3 DEF IInv, Ordered
  <2>2. comments[j].match_location <= location
    BY <2>1, <1>3, <1>4, <1>5
  <2>3. ~(i <= j)
    BY <1>3, <1>4
  <2>4. j \notin Reached
    BY <2>3, <1>1
  <2> QED BY <2>2, <2>4 DEF Reached
<1>16. Behind'
  <2>1. ASSUME NEW k \in DOMAIN output', IsComment(k)'
        PROVE  /\ output'[k][2] \in emitted_comments'
               /\ \A s \in Later : comments[output'[k][2]].match_location < s
    <3>1. CASE k \in DOMAIN output /\ IsComment(k) /\ output'[k] = output[k]
      BY <3>1, <1>1 DEF IInv, Behind
    <3>2. CASE output'[k] = <<"comment", i>>
      <4>1. output'[k][2] = i
        BY <3>2
      <4>2. \A s \in Later : location < s /\ s \in Nat
        BY <1>2, StmtsType DEF IInv, Located
      <4>3. \A x, y, z \in Int : x <= y /\ y < z => x < z
        OBVIOUS
      <4>4. \A s \in Later : comments[i].match_location < s
        BY <4>2, <4>3, <1>3, <1>5
      <4> QED BY <4>1, <4>4, <1>1
    <3> QED BY <2>1, <3>1, <3>2, <1>11
  <2>2. ASSUME NEW k \in DOMAIN output', IsText(k)'
        PROVE  /\ \A s \in Later : output'[k][2] < s
               /\ \A j \in DOMAIN comments \ emitted_comments' : output'[k][2] < comments[j].match_location
    BY <2>2, <1>1, <1>11 DEF IInv, Behind
  <2> QED BY <2>1, <2>2, <1>2, <1>13 DEF Behind
<1>17. Located'
  BY <1>2, <1>13 DEF IInv, Located
<1>18. CommentsOnceInOrder'
  <2> SUFFICES ASSUME NEW k \in DOMAIN output', NEW l \in DOMAIN output',
                      IsComment(k)', IsComment(l)', k < l
               PROVE  output'[k][2] < output'[l][2]
    BY DEF CommentsOnceInOrder
  <2>0. k \in Nat /\ l \in Nat
    BY <1>7, <1>9
  <2>1. k \in DOMAIN output /\ IsComment(k) /\ output'[k] = output[k]
    <3>1. ~(at < l)
      BY <2>0, <1>9, <1>11
    <3> QED BY <3>1, <1>11
  <2>2. output[k][2] \in emitted_comments
    BY <2>1 DEF IInv, Behind
  <2>3. CASE l \in DOMAIN output /\ IsComment(l) /\ output'[l] = output[l]
    BY <2>1, <2>3 DEF IInv, CommentsOnceInOrder
  <2>4. CASE output'[l] = <<"comment", i>>
    BY <2>1, <2>2, <2>4, <1>14
  <2> QED BY <2>3, <2>4, <1>11
<1>19. NodesInFront'
  <2> SUFFICES ASSUME NEW k \in DOMAIN output', NEW l \in DOMAIN output',
                      IsText(k)', IsComment(l)', k < l
               PROVE  output'[k][2] < comments[output'[l][2]].match_location
    BY <1>2 DEF NodesInFront
  <2>1. k \in DOMAIN output /\ IsText(k) /\ output'[k] = output[k]
    BY <1>11
  <2>2. CASE l \in DOMAIN output /\ IsComment(l) /\ output'[l] = output[l]
    BY <2>1, <2>2 DEF IInv, NodesInFront
  <2>3. CASE output'[l] = <<"comment", i>>
    BY <2>1, <2>3, <1>3 DEF IInv, Behind
  <2> QED BY <2>2, <2>3, <1>11
<1> QED BY <1>12, <1>13, <1>15, <1>16, <1>17, <1>18, <1>19 DEF IInv

\* Code is printed once no comment is left that stood in front of it.
LEMMA EmitTextIInv == IInv /\ EmitText => IInv'
<1> SUFFICES ASSUME IInv, EmitText PROVE IInv'
  OBVIOUS
<1>1. /\ phase = "emit" /\ phase' = "visit" /\ Reached = {} /\ UNCHANGED <<query, scan, state>>
      /\ output' = Append(output, <<"text", location>>)
  BY DEF EmitText
<1>2. /\ query' = query /\ comments' = comments /\ stmt_location' = stmt_location
      /\ location' = location /\ visited' = visited /\ emitted_comments' = emitted_comments
  BY <1>1 DEF scan, state
<1>3. /\ location \in Int /\ Len(output) \in Nat
      /\ output \in Seq({"comment", "newline", "text", "word"} \X Int)
  BY DEF IInv, TypeOK
<1> DEFINE at == Len(output) + 1
<1>4. /\ output' \in Seq({"comment", "newline", "text", "word"} \X Int)
      /\ DOMAIN output' = DOMAIN output \cup {at}
      /\ \A k \in DOMAIN output : output'[k] = output[k] /\ k \in Nat /\ k < at
      /\ output'[at] = <<"text", location>>
  <2>1. <<"text", location>> \in {"comment", "newline", "text", "word"} \X Int
    BY <1>3
  <2> QED BY <2>1, <1>1, <1>3
<1>5. at \in Nat
  BY <1>3
<1> HIDE DEF at
<1>6. \A k \in DOMAIN output' :
        /\ IsComment(k)' => k \in DOMAIN output /\ IsComment(k) /\ output'[k] = output[k] /\ k < at
        /\ IsText(k)' =>
             \/ k \in DOMAIN output /\ IsText(k) /\ output'[k] = output[k] /\ k < at
             \/ k = at /\ output'[k] = <<"text", location>>
  <2> TAKE k \in DOMAIN output'
  <2>1. (IsText(k)' <=> output'[k][1] = "text") /\ (IsComment(k)' <=> output'[k][1] = "comment")
    BY DEF IsText, IsComment
  <2>2. <<"text", location>>[1] = "text" /\ "text" # "comment"
    OBVIOUS
  <2> QED BY <1>4, <2>1, <2>2 DEF IsText, IsComment
<1>7. TypeOK'
  BY <1>1, <1>2, <1>4 DEF IInv, TypeOK, scan, prior
<1>8. Ordered' /\ Scanning' /\ Later' = Later
  <2>1. phase # "scan" /\ phase' # "scan"
    BY <1>1
  <2> QED BY <2>1, <1>1, <1>2, Unscanned
<1>9. FirstOnes'
  BY <1>2 DEF IInv, FirstOnes
<1>10. Behind'
  <2>1. ASSUME NEW k \in DOMAIN output', IsComment(k)'
        PROVE  /\ output'[k][2] \in emitted_comments
               /\ \A s \in Later : comments[output'[k][2]].match_location < s
    BY <2>1, <1>6 DEF IInv, Behind
  <2>2. ASSUME NEW k \in DOMAIN output', IsText(k)'
        PROVE  /\ \A s \in Later : output'[k][2] < s
               /\ \A j \in DOMAIN comments \ emitted_comments : output'[k][2] < comments[j].match_location
    <3>1. CASE k \in DOMAIN output /\ IsText(k) /\ output'[k] = output[k]
      BY <3>1 DEF IInv, Behind
    <3>2. CASE output'[k] = <<"text", location>>
      <4>1. output'[k][2] = location
        BY <3>2
      <4>2. \A s \in Later : location < s
        BY <1>1 DEF IInv, Located
      <4>3. \A j \in DOMAIN comments \ emitted_comments : ~(comments[j].match_location <= location)
        BY <1>1 DEF Reached
      <4>4. \A j \in DOMAIN comments : comments[j].match_location \in Nat
        BY CommentType DEF IInv
      <4>5. \A j \in DOMAIN comments \ emitted_comments : location < comments[j].match_location
        BY <4>3, <4>4, <1>3
      <4> QED BY <4>1, <4>2, <4>5
    <3> QED BY <2>2, <3>1, <3>2, <1>6
  <2> QED BY <2>1, <2>2, <1>2, <1>8 DEF Behind
<1>11. Located'
  BY <1>1, <1>2, <1>8 DEF IInv, Located
<1>12. CommentsOnceInOrder'
  <2> SUFFICES ASSUME NEW k \in DOMAIN output', NEW l \in DOMAIN output',
                      IsComment(k)', IsComment(l)', k < l
               PROVE  output'[k][2] < output'[l][2]
    BY DEF CommentsOnceInOrder
  <2> QED BY <1>6 DEF IInv, CommentsOnceInOrder
<1>13. NodesInFront'
  <2> SUFFICES ASSUME NEW k \in DOMAIN output', NEW l \in DOMAIN output',
                      IsText(k)', IsComment(l)', k < l
               PROVE  output'[k][2] < comments[output'[l][2]].match_location
    BY <1>2 DEF NodesInFront
  <2>1. l \in DOMAIN output /\ IsComment(l) /\ output'[l] = output[l] /\ l < at /\ l \in Nat
    BY <1>4, <1>6
  <2>2. k # at
    BY <2>1, <1>5
  <2>3. k \in DOMAIN output /\ IsText(k) /\ output'[k] = output[k]
    BY <2>2, <1>6
  <2> QED BY <2>1, <2>3 DEF IInv, NodesInFront
<1> QED BY <1>7, <1>8, <1>9, <1>10, <1>11, <1>12, <1>13 DEF IInv

\* A node of the statement lies in front of the statements after it.
LEMMA VisitNodeIInv == IInv /\ VisitNode => IInv'
<1> SUFFICES ASSUME IInv, VisitNode PROVE IInv'
  OBVIOUS
<1>1. PICK p \in Nodes(stmt_location) \ visited : location' = p - 1 /\ visited' = visited \cup {p}
  BY DEF VisitNode
<1>2. /\ phase = "visit" /\ phase' = "emit" /\ query' = query /\ UNCHANGED scan
      /\ comments' = comments /\ stmt_location' = stmt_location
      /\ emitted_comments' = emitted_comments /\ output' = output
  BY DEF VisitNode, scan
<1>3. stmt_location \in Nat /\ Len(query) \in Nat
  BY <1>2 DEF IInv, Located, TypeOK
<1>4. p \in stmt_location + 1 .. Len(query) /\ Within(stmt_location, p)
  BY DEF Nodes
<1>5. p \in Nat /\ p >= 1 /\ p <= Len(query)
  BY <1>3, <1>4
<1>6. TypeOK'
  <2>1. p - 1 \in Int /\ p \in 1 .. Len(query)
    BY <1>3, <1>5
  <2> QED BY <2>1, <1>1, <1>2 DEF IInv, TypeOK, scan, prior
<1>7. Ordered' /\ Scanning' /\ Later' = Later
  <2>1. phase # "scan" /\ phase' # "scan"
    BY <1>2
  <2> QED BY <2>1, <1>2, Unscanned
<1>8. \A s \in Later : p - 1 < s
  <2> SUFFICES ASSUME NEW s \in Later, ~(p - 1 < s) PROVE FALSE
    OBVIOUS
  <2>1. s \in Nat /\ s > stmt_location
    BY StmtsType DEF IInv, Later
  <2>2. s # 0
    BY <2>1, <1>3
  <2>3. query[s] = ";"
    BY <2>2 DEF Later, Stmts
  <2>4. s \in stmt_location + 1 .. p
    BY <2>1, <1>3, <1>5
  <2> QED BY <2>3, <2>4, <1>4 DEF Within
<1>9. Located'
  BY <1>1, <1>2, <1>3, <1>7, <1>8 DEF Located
<1> QED BY <1>2, <1>6, <1>7, <1>9 DEF IInv, FirstOnes, Behind, IsComment, IsText,
                                     CommentsOnceInOrder, NodesInFront

\* A word adds an item to the output that is neither a comment nor a node.
LEMMA PrintWordOutput ==
  ASSUME IInv, PrintWord
  PROVE  /\ output' \in Seq({"comment", "newline", "text", "word"} \X Int)
         /\ DOMAIN output = 1 .. Len(output) /\ DOMAIN output' = 1 .. Len(output) + 1
         /\ Len(output) \in Nat /\ Len(output') = Len(output) + 1
         /\ \A k \in DOMAIN output : output'[k] = output[k] /\ k \in DOMAIN output'
         /\ output'[Len(output) + 1][1] = "word"
         /\ \A k \in DOMAIN output' :
              /\ IsComment(k)' => k \in DOMAIN output /\ IsComment(k)
              /\ IsText(k)' => k \in DOMAIN output /\ IsText(k)
         /\ \A k \in DOMAIN output : (IsComment(k)' <=> IsComment(k)) /\ (IsText(k)' <=> IsText(k))
<1>1. PICK p \in Words(stmt_location) : output' = Append(output, <<"word", p - 1>>)
  BY DEF PrintWord
<1>2. p - 1 \in Int
  <2>1. stmt_location \in Nat /\ Len(query) \in Nat
    BY DEF PrintWord, IInv, Located, TypeOK
  <2> QED BY <2>1 DEF Words
<1>3. PICK x : x = <<"word", p - 1>>
  OBVIOUS
<1>4. x \in {"comment", "newline", "text", "word"} \X Int /\ x[1] = "word"
  BY <1>2, <1>3
<1>5. output \in Seq({"comment", "newline", "text", "word"} \X Int)
  BY DEF IInv, TypeOK
<1>6. /\ output' \in Seq({"comment", "newline", "text", "word"} \X Int)
      /\ DOMAIN output = 1 .. Len(output) /\ DOMAIN output' = 1 .. Len(output) + 1
      /\ Len(output) \in Nat /\ Len(output') = Len(output) + 1
      /\ \A k \in DOMAIN output : output'[k] = output[k] /\ k \in DOMAIN output'
      /\ output'[Len(output) + 1] = x
  BY <1>1, <1>3, <1>4, <1>5
<1>7. \A k \in DOMAIN output : (IsComment(k)' <=> IsComment(k)) /\ (IsText(k)' <=> IsText(k))
  BY <1>6 DEF IsComment, IsText
<1>8. ASSUME NEW k \in DOMAIN output', IsComment(k)' \/ IsText(k)' PROVE k \in DOMAIN output
  <2>1. output'[k][1] # "word"
    BY <1>8 DEF IsComment, IsText
  <2>2. k # Len(output) + 1
    BY <2>1, <1>4, <1>6
  <2> QED BY <2>2, <1>6
<1> QED BY <1>4, <1>6, <1>7, <1>8

LEMMA PrintWordIInv == IInv /\ PrintWord => IInv'
<1> SUFFICES ASSUME IInv, PrintWord PROVE IInv'
  OBVIOUS
<1>1. phase = "visit" /\ phase' = "visit" /\ UNCHANGED <<query, scan, state>>
  BY DEF PrintWord
<1>2. /\ query' = query /\ comments' = comments /\ stmt_location' = stmt_location
      /\ location' = location /\ visited' = visited /\ emitted_comments' = emitted_comments
  BY <1>1 DEF scan, state
<1>3. /\ output' \in Seq({"comment", "newline", "text", "word"} \X Int)
      /\ \A k \in DOMAIN output : output'[k] = output[k]
      /\ \A k \in DOMAIN output' :
           /\ IsComment(k)' => k \in DOMAIN output /\ IsComment(k)
           /\ IsText(k)' => k \in DOMAIN output /\ IsText(k)
  BY PrintWordOutput
<1>4. TypeOK'
  BY <1>1, <1>2, <1>3 DEF IInv, TypeOK, scan, prior
<1>5. Ordered' /\ Scanning' /\ Later' = Later
  <2>1. phase # "scan" /\ phase' # "scan"
    BY <1>1
  <2> QED BY <2>1, <1>1, <1>2, Unscanned
<1>6. FirstOnes' /\ Located'
  BY <1>1, <1>2, <1>5 DEF IInv, FirstOnes, Located
<1>7. Behind'
  BY <1>2, <1>3, <1>5 DEF IInv, Behind
<1>8. CommentsOnceInOrder'
  BY <1>3 DEF IInv, CommentsOnceInOrder
<1>9. NodesInFront'
  BY <1>2, <1>3 DEF IInv, NodesInFront
<1> QED BY <1>4, <1>5, <1>6, <1>7, <1>8, <1>9 DEF IInv

\* The ends of a statement and of the query.
LEMMA EndIInv == IInv /\ (StmtEnds \/ Done) => IInv'
<1> SUFFICES ASSUME IInv, StmtEnds \/ Done PROVE IInv'
  OBVIOUS
<1>1. phase # "scan" /\ phase' \in {"begin", "done"} /\ UNCHANGED <<query, scan, state, output>>
  BY DEF StmtEnds, Done
<1>2. /\ query' = query /\ comments' = comments /\ stmt_location' = stmt_location
      /\ emitted_comments' = emitted_comments /\ output' = output
  BY <1>1 DEF scan, state
<1>3. Ordered' /\ Scanning' /\ Later' = Later
  BY <1>1, <1>2, Unscanned
<1>4. TypeOK'
  BY <1>1, <1>2 DEF IInv, TypeOK, scan, prior, state
<1>5. Located'
  BY <1>1 DEF Located
<1> QED BY <1>2, <1>3, <1>4, <1>5 DEF IInv, FirstOnes, Behind, IsComment, IsText,
                                     CommentsOnceInOrder, NodesInFront

\* A step that changes nothing.
LEMMA StutterIInv == IInv /\ UNCHANGED vars => IInv'
<1> SUFFICES ASSUME IInv, UNCHANGED vars PROVE IInv'
  OBVIOUS
<1>1. UNCHANGED <<query, scan, phase, state, output>>
  BY DEF vars
<1>2. Stmts' = Stmts
  BY <1>1 DEF Stmts, Within
<1>3. Later' = Later
  BY <1>1, <1>2 DEF Later, state
<1>4. TypeOK'
  BY <1>1 DEF IInv, TypeOK, scan, prior, state
<1> QED BY <1>1, <1>3, <1>4 DEF IInv, Ordered, Scanning, FirstOnes, Behind, Located, IsComment,
                               IsText, CommentsOnceInOrder, NodesInFront, scan, prior, state

\* Every step keeps the invariant.
LEMMA NextIInv == IInv /\ [Next]_vars => IInv'
BY ScanIInv, ScannedIInv, RawStmtIInv, EmitCommentIInv, EmitTextIInv, VisitNodeIInv,
   PrintWordIInv, EndIInv, StutterIInv DEF Next

-----------------------------------------------------------------------------
(* What the scan found: the comments with the newlines next to them.         *)

NoToken(a, b) == \A q \in a .. b : query[q] \notin Tokens

IsCode(p) == query[p] \in Tokens \ CommentTokens
NoCode(a, b) == \A q \in a .. b : ~IsCode(q)

\* Newline p is next to the comment at t, with no comment in front of it.
InFrontOf(p, t) ==
  /\ query[p] = "newline" /\ p < t /\ NoToken(p + 1, t - 1)
  /\ \A r \in 1 .. p : query[r] \in CommentTokens => ~NoToken(r + 1, p)

\* Newline p is next to the comment at t, and more tokens follow.
BehindOf(p, t) ==
  query[p] = "newline" /\ t < p /\ NoToken(t + 1, p) /\ TokenAfter(p) <= Len(query)

Found(c) ==
  /\ c.at <= pos /\ query[c.at] \in CommentTokens
  /\ c.match_location < c.at /\ NoCode(c.match_location + 1, c.at)
  /\ c.match_location = 0 \/ IsCode(c.match_location)
  /\ \A p \in 1 .. Len(query) :
       (p \in c.before <=> InFrontOf(p, c.at)) /\ (p \in c.after <=> BehindOf(p, c.at))

Prior ==
  /\ pos <= Len(query) /\ prior_token_end = pos /\ (pos = 0 \/ query[pos] \in Tokens)
  /\ prior_token_was_comment <=> (pos # 0 /\ query[pos] \in CommentTokens)
  /\ NoCode(prior_non_comment_end + 1, pos)
  /\ prior_non_comment_end = 0 \/ IsCode(prior_non_comment_end)

AllFound ==
  /\ \A i \in DOMAIN comments : Found(comments[i])
  /\ \A i, j \in DOMAIN comments : i < j => comments[i].at < comments[j].at
  /\ \A r \in 1 .. pos :
       query[r] \in CommentTokens => \E i \in DOMAIN comments : comments[i].at = r

AllScanned == phase # "scan" => NoToken(pos + 1, Len(query))

ScanInv == Parses /\ Prior /\ AllFound /\ AllScanned

-----------------------------------------------------------------------------
(* The comments put back, statement by statement.                            *)

PutBack == {output[a][2] : a \in {b \in DOMAIN output : IsComment(b)}}

ReachedIn(s, i, l) == s <= comments[i].match_location /\ comments[i].match_location <= l

\* The locations a statement leads to, and those of them already dealt with.
Locations(s, nodes) == {s} \cup {p - 1 : p \in nodes}
Settled == Locations(stmt_location, visited) \ (IF phase = "emit" THEN {location} ELSE {})
SettledOf(s) ==
  IF phase \in {"emit", "visit"} /\ s = stmt_location THEN Settled ELSE Locations(s, Nodes(s))

OnlyReached ==
  \A i \in PutBack : \E s \in Stmts : \E l \in Locations(s, Nodes(s)) : ReachedIn(s, i, l)

AllReached ==
  \A s \in Stmts \ Later : \A i \in DOMAIN comments :
    \A l \in SettledOf(s) : ReachedIn(s, i, l) => i \in PutBack

\* Where the deparser is.
Current ==
  /\ phase \in {"emit", "visit"} =>
       /\ stmt_location \in Stmts /\ visited \subseteq Nodes(stmt_location)
       /\ location \in Locations(stmt_location, visited)
       /\ PlacedBefore(stmt_location) \subseteq emitted_comments
       /\ emitted_comments \subseteq PlacedBefore(stmt_location) \cup PutBack
  /\ phase = "scan" => stmt_location = -1
  /\ phase = "done" => Later = {}

EmitInv == OnlyReached /\ AllReached /\ Current

-----------------------------------------------------------------------------
(* Lemmas about the places of tokens.                                        *)

\* The next token: none in between, and a token unless the query ends.
LEMMA NextToken ==
  ASSUME TypeOK, NEW p \in Nat
  PROVE  /\ TokenAfter(p) \in Nat /\ TokenAfter(p) <= Len(query) + 1
         /\ NoToken(p + 1, TokenAfter(p) - 1)
         /\ TokenAfter(p) <= Len(query) =>
              TokenAfter(p) > p /\ query[TokenAfter(p)] \in Tokens
         /\ \A q \in p + 1 .. Len(query) : query[q] \in Tokens => TokenAfter(p) <= q
<1> DEFINE later == {q \in p + 1 .. Len(query) : query[q] \in Tokens}
<1>1. Len(query) \in Nat
  BY DEF TypeOK
<1>2. CASE later = {}
  BY <1>1, <1>2 DEF TokenAfter, NoToken
<1>3. CASE later # {}
  <2>1. later \in SUBSET Nat
    BY <1>1
  <2>2. \E m \in later : \A n \in later : m <= n
    BY <2>1, <1>3, MinNat
  <2>3. TokenAfter(p) \in later /\ \A n \in later : TokenAfter(p) <= n
    BY <2>2, <1>3 DEF TokenAfter
  <2> HIDE <1>3
  <2>4. ASSUME NEW q \in p + 1 .. TokenAfter(p) - 1 PROVE query[q] \notin Tokens
    <3>1. TokenAfter(p) \in Nat /\ TokenAfter(p) <= Len(query)
      BY <2>3, <1>1
    <3>2. q \in p + 1 .. Len(query) /\ ~(TokenAfter(p) <= q)
      BY <3>1, <1>1
    <3> QED BY <3>2, <2>3
  <2> QED BY <2>1, <2>3, <2>4, <1>1 DEF NoToken
<1> QED BY <1>2, <1>3

\* Line breaks are not tokens.
LEMMA BreakIsNoToken == "newline" \notin Tokens /\ "return" \notin Tokens
BY DEF Tokens, CommentTokens

\* Comments are tokens.
LEMMA CommentIsToken == \A x \in CommentTokens : x \in Tokens
BY DEF Tokens

\* The last comment token of a range that has one.
LEMMA LastComment ==
  ASSUME TypeOK, NEW a \in Nat, NEW b \in Nat,
         \E r \in a .. b : query[r] \in CommentTokens
  PROVE  \E r \in a .. b : query[r] \in CommentTokens
           /\ \A s \in r + 1 .. b : query[s] \notin CommentTokens
<1> DEFINE D == {b - r : r \in {q \in a .. b : query[q] \in CommentTokens}}
<1>1. D \in SUBSET Nat /\ D # {}
  OBVIOUS
<1>2. PICK m \in D : \A n \in D : m <= n
  BY <1>1, MinNat
<1>3. PICK r \in a .. b : query[r] \in CommentTokens /\ m = b - r
  OBVIOUS
<1>4. ASSUME NEW s \in r + 1 .. b PROVE query[s] \notin CommentTokens
  <2>1. s \in a .. b /\ ~(b - r <= b - s)
    OBVIOUS
  <2>2. b - s \notin D
    BY <2>1, <1>2, <1>3
  <2> QED BY <2>1, <2>2
<1> QED BY <1>3, <1>4

\* Where a comment stands.
LEMMA CommentAt ==
  ASSUME TypeOK, NEW i \in DOMAIN comments
  PROVE  comments[i].at \in 1 .. Len(query) /\ comments[i].at \in Nat
<1> DEFINE CType == [at : 1 .. Len(query), match_location : Nat,
                     before : SUBSET (1 .. Len(query)), after : SUBSET (1 .. Len(query))]
<1>1. comments \in Seq(CType)
  BY DEF TypeOK
<1> HIDE DEF CType
<1>2. comments[i] \in CType
  BY <1>1
<1> QED BY <1>2 DEF CType

-----------------------------------------------------------------------------
(* The scan finds what stands next to each comment.                          *)

\* The newlines in front of a comment, as they are counted when it is scanned.
LEMMA FoundBefore ==
  ASSUME TypeOK, Prior, NEW t \in 1 .. Len(query), t > pos, NoToken(pos + 1, t - 1),
         NEW p \in 1 .. Len(query)
  PROVE  p \in NewlinesBefore(t) <=> InFrontOf(p, t)
<1>1. /\ pos \in Nat /\ prior_token_end = pos /\ (pos = 0 \/ query[pos] \in Tokens)
      /\ prior_token_was_comment <=> (pos # 0 /\ query[pos] \in CommentTokens)
      /\ Len(query) \in Nat
  BY DEF TypeOK, Prior
<1>2. CASE prior_token_was_comment
  <2>1. p \notin NewlinesBefore(t)
    BY <1>2 DEF NewlinesBefore
  <2>2. ASSUME InFrontOf(p, t) PROVE FALSE
    <3>1. /\ query[p] = "newline" /\ p < t /\ NoToken(p + 1, t - 1)
          /\ \A r \in 1 .. p : query[r] \in CommentTokens => ~NoToken(r + 1, p)
      BY <2>2 DEF InFrontOf
    <3>2. p > pos
      <4> SUFFICES ASSUME p < pos PROVE FALSE
        BY <1>1, <1>2, <3>1, BreakIsNoToken
      <4>1. pos \in p + 1 .. t - 1 /\ query[pos] \in Tokens
        BY <1>1, <1>2
      <4> QED BY <4>1, <3>1 DEF NoToken
    <3>3. pos \in 1 .. p /\ query[pos] \in CommentTokens
      BY <1>1, <1>2, <3>2
    <3>4. NoToken(pos + 1, p)
      BY <1>1, <3>1 DEF NoToken
    <3> QED BY <3>1, <3>3, <3>4
  <2> QED BY <2>1, <2>2
<1>3. CASE ~prior_token_was_comment
  <2>1. p \in NewlinesBefore(t) <=> pos < p /\ p < t /\ query[p] = "newline"
    BY <1>1, <1>3 DEF NewlinesBefore, Newlines
  <2>2. ASSUME pos < p, p < t, query[p] = "newline" PROVE InFrontOf(p, t)
    <3>1. NoToken(p + 1, t - 1)
      BY <1>1, <2>2 DEF NoToken
    <3>2. ASSUME NEW r \in 1 .. p, query[r] \in CommentTokens PROVE ~NoToken(r + 1, p)
      <4>0. query[r] \in Tokens
        BY <3>2 DEF Tokens
      <4>1. r <= pos
        <5> SUFFICES ASSUME r > pos PROVE FALSE
          BY <1>1
        <5>1. r \in pos + 1 .. t - 1
          BY <1>1, <2>2
        <5> QED BY <4>0, <5>1 DEF NoToken
      <4>2. r # pos
        BY <1>1, <1>3, <3>2
      <4>3. pos \in r + 1 .. p /\ query[pos] \in Tokens
        BY <4>1, <4>2, <1>1, <2>2
      <4> QED BY <4>3 DEF NoToken
    <3> QED BY <2>2, <3>1, <3>2 DEF InFrontOf
  <2>3. ASSUME InFrontOf(p, t) PROVE pos < p
    <3>1. query[p] = "newline" /\ NoToken(p + 1, t - 1)
      BY <2>3 DEF InFrontOf
    <3> SUFFICES ASSUME p < pos PROVE FALSE
      BY <1>1, <3>1, BreakIsNoToken
    <3>2. pos \in p + 1 .. t - 1 /\ query[pos] \in Tokens
      BY <1>1
    <3> QED BY <3>1, <3>2 DEF NoToken
  <2> QED BY <2>1, <2>2, <2>3 DEF InFrontOf
<1> QED BY <1>2, <1>3

\* The newlines behind a comment.
LEMMA FoundAfter ==
  ASSUME TypeOK, NEW t \in 1 .. Len(query), NEW p \in 1 .. Len(query)
  PROVE  p \in NewlinesAfter(t) <=> BehindOf(p, t)
<1>1. Len(query) \in Nat /\ t \in Nat /\ p \in Nat
  BY DEF TypeOK
<1> DEFINE next == TokenAfter(t)
<1>2. /\ next \in Nat /\ NoToken(t + 1, next - 1)
      /\ next <= Len(query) => next > t /\ query[next] \in Tokens
      /\ \A q \in t + 1 .. Len(query) : query[q] \in Tokens => next <= q
  BY <1>1, NextToken
<1>3. /\ TokenAfter(p) \in Nat
      /\ TokenAfter(p) <= Len(query) => TokenAfter(p) > p /\ query[TokenAfter(p)] \in Tokens
      /\ \A q \in p + 1 .. Len(query) : query[q] \in Tokens => TokenAfter(p) <= q
  BY <1>1, NextToken
<1>4. p \in NewlinesAfter(t) <=> next <= Len(query) /\ t < p /\ p < next /\ query[p] = "newline"
  BY <1>1, <1>2 DEF NewlinesAfter, Newlines
<1> HIDE DEF next
<1>5. ASSUME next <= Len(query), t < p, p < next, query[p] = "newline" PROVE BehindOf(p, t)
  <2>1. NoToken(t + 1, p)
    BY <1>1, <1>2, <1>5 DEF NoToken
  <2>2. next \in p + 1 .. Len(query) /\ query[next] \in Tokens
    BY <1>1, <1>2, <1>5
  <2>3. TokenAfter(p) <= Len(query)
    BY <2>2, <1>1, <1>2, <1>3
  <2> QED BY <1>5, <2>1, <2>3 DEF BehindOf
<1>6. ASSUME BehindOf(p, t) PROVE next <= Len(query) /\ p < next
  <2>1. t < p /\ NoToken(t + 1, p) /\ TokenAfter(p) <= Len(query)
    BY <1>6 DEF BehindOf
  <2>2. TokenAfter(p) \in t + 1 .. Len(query) /\ query[TokenAfter(p)] \in Tokens
    BY <2>1, <1>1, <1>3
  <2>3. next <= Len(query)
    BY <2>2, <1>1, <1>2, <1>3
  <2>4. ~(next <= p)
    <3> SUFFICES ASSUME next <= p PROVE FALSE
      OBVIOUS
    <3>1. next \in t + 1 .. p /\ query[next] \in Tokens
      BY <2>3, <1>1, <1>2
    <3> QED BY <3>1, <2>1 DEF NoToken
  <2> QED BY <2>3, <2>4, <1>1, <1>2
<1> QED BY <1>4, <1>5, <1>6 DEF BehindOf

\* The query has not been scanned yet.
LEMMA InitScanInv == Init => ScanInv /\ EmitInv
<1>1. ASSUME NEW n \in 0 .. MaxLen, NEW q \in [1 .. n -> Tokens \cup Breaks], InitOn(q), Parses
      PROVE  ScanInv /\ EmitInv
  <2>1. query \in Seq(Tokens \cup Breaks)
    BY <1>1, DeparseCommentsAssumption DEF InitOn
  <2>2. /\ pos = 0 /\ prior_token_was_comment = FALSE /\ prior_non_comment_end = 0
        /\ prior_token_end = 0 /\ comments = <<>> /\ phase = "scan" /\ stmt_location = -1
        /\ output = <<>> /\ Len(query) \in Nat
    BY <1>1, <2>1 DEF InitOn
  <2>3. Prior
    BY <2>2 DEF Prior, NoCode
  <2>4. AllFound
    BY <2>2 DEF AllFound
  <2>5. OnlyReached /\ AllReached
    BY <2>2 DEF OnlyReached, AllReached, PutBack
  <2>6. Current
    BY <2>2 DEF Current
  <2> QED BY <1>1, <2>2, <2>3, <2>4, <2>5, <2>6 DEF ScanInv, AllScanned, EmitInv
<1> QED BY <1>1 DEF Init

\* Parses, and the places of tokens, are about the query alone.
LEMMA SameQuery ==
  ASSUME query' = query
  PROVE  /\ Parses' = Parses /\ Stmts' = Stmts
         /\ \A p : TokenAfter(p)' = TokenAfter(p)
         /\ \A p, t : (InFrontOf(p, t)' <=> InFrontOf(p, t)) /\ (BehindOf(p, t)' <=> BehindOf(p, t))
         /\ \A p : IsCode(p)' <=> IsCode(p)
         /\ \A a, b : NoCode(a, b)' <=> NoCode(a, b)
         /\ \A s : Nodes(s)' = Nodes(s)
<1>1. Parses' = Parses /\ Stmts' = Stmts
  BY DEF Parses, Stmts, Within
<1>2. \A p : TokenAfter(p)' = TokenAfter(p)
  BY DEF TokenAfter
<1>3. \A p, t : (InFrontOf(p, t)' <=> InFrontOf(p, t)) /\ (BehindOf(p, t)' <=> BehindOf(p, t))
  BY <1>2 DEF InFrontOf, BehindOf, NoToken
<1>4. /\ \A p : IsCode(p)' <=> IsCode(p)
      /\ \A a, b : NoCode(a, b)' <=> NoCode(a, b)
  BY DEF IsCode, NoCode
<1>5. \A s : Nodes(s)' = Nodes(s)
  BY DEF Nodes, Within
<1> QED BY <1>1, <1>2, <1>3, <1>4, <1>5

\* Scanning a comment finds the newlines next to it.
LEMMA CommentScanInv == ASSUME IInv, ScanInv, Comment PROVE ScanInv'
<1> DEFINE tok == TokenAfter(pos)
<1>1. /\ TypeOK /\ Ordered /\ Parses /\ Prior /\ AllFound
  BY DEF IInv, ScanInv
<1>2. /\ pos \in Nat /\ Len(query) \in Nat /\ prior_non_comment_end \in Nat
      /\ prior_non_comment_end <= pos
  BY <1>1 DEF TypeOK, Ordered
<1>3. /\ tok <= Len(query) /\ query[tok] \in CommentTokens /\ query' = query
      /\ comments' = Append(comments,
           [at |-> tok, match_location |-> prior_non_comment_end,
            before |-> NewlinesBefore(tok), after |-> NewlinesAfter(tok)])
      /\ pos' = tok /\ prior_token_end' = tok /\ prior_token_was_comment' = TRUE
      /\ prior_non_comment_end' = prior_non_comment_end
  BY DEF Comment, MatchLocation
<1>4. tok \in Nat /\ tok > pos /\ tok \in 1 .. Len(query) /\ NoToken(pos + 1, tok - 1)
  <2>1. tok \in Nat /\ tok > pos /\ NoToken(pos + 1, tok - 1)
    BY <1>1, <1>2, <1>3, NextToken
  <2> HIDE DEF tok
  <2> QED BY <2>1, <1>2, <1>3
<1> DEFINE c == [at |-> tok, match_location |-> prior_non_comment_end,
                 before |-> NewlinesBefore(tok), after |-> NewlinesAfter(tok)]
<1>5. /\ c.at = tok /\ c.match_location = prior_non_comment_end
      /\ c.before = NewlinesBefore(tok) /\ c.after = NewlinesAfter(tok)
  OBVIOUS
<1>6. /\ DOMAIN comments' = 1 .. Len(comments) + 1 /\ Len(comments) \in Nat
      /\ DOMAIN comments = 1 .. Len(comments)
      /\ \A i \in 1 .. Len(comments) : comments'[i] = comments[i]
      /\ comments'[Len(comments) + 1] = c
  <2> DEFINE CType == [at : 1 .. Len(query), match_location : Nat,
                       before : SUBSET (1 .. Len(query)), after : SUBSET (1 .. Len(query))]
  <2>1. comments \in Seq(CType)
    BY <1>1 DEF TypeOK
  <2> HIDE DEF CType, c
  <2>2. comments' = Append(comments, c)
    BY <1>3 DEF c
  <2> QED BY <2>1, <2>2
<1> HIDE DEF c, tok
<1>7. NoCode(prior_non_comment_end + 1, tok)
  <2> SUFFICES ASSUME NEW q \in prior_non_comment_end + 1 .. tok PROVE ~IsCode(q)
    BY DEF NoCode
  <2>1. CASE q <= pos
    BY <2>1, <1>1, <1>2 DEF Prior, NoCode
  <2>2. CASE q > pos /\ q < tok
    <3>1. q \in pos + 1 .. tok - 1
      BY <2>2, <1>2, <1>4
    <3> QED BY <3>1, <1>4 DEF NoToken, IsCode
  <2>3. CASE q = tok
    BY <2>3, <1>3 DEF IsCode
  <2> QED BY <2>1, <2>2, <2>3, <1>2, <1>4
<1>8. \A p \in 1 .. Len(query) :
        (p \in c.before <=> InFrontOf(p, c.at)) /\ (p \in c.after <=> BehindOf(p, c.at))
  BY <1>1, <1>4, <1>5, FoundBefore, FoundAfter
<1>9. /\ query[c.at] \in CommentTokens /\ c.match_location < c.at
      /\ NoCode(c.match_location + 1, c.at)
      /\ c.match_location = 0 \/ IsCode(c.match_location)
  <2>1. prior_non_comment_end = 0 \/ IsCode(prior_non_comment_end)
    BY <1>1 DEF Prior
  <2> QED BY <2>1, <1>2, <1>3, <1>4, <1>5, <1>7
<1>10. ASSUME NEW i \in DOMAIN comments' PROVE Found(comments[i])'
  <2>1. CASE i \in DOMAIN comments
    <3>1. Found(comments[i]) /\ comments'[i] = comments[i]
      BY <2>1, <1>1, <1>6 DEF AllFound
    <3>2. comments[i].at <= tok
      <4>1. comments[i].at <= pos
        BY <3>1 DEF Found
      <4>2. comments[i].at \in Nat
        BY <2>1, <1>1, CommentAt
      <4> QED BY <4>1, <4>2, <1>2, <1>4
    <3> QED BY <3>1, <3>2, <1>3, SameQuery DEF Found
  <2>2. CASE i = Len(comments) + 1
    <3>1. comments'[i] = c /\ c.at <= pos'
      BY <2>2, <1>3, <1>4, <1>5, <1>6
    <3> QED BY <3>1, <1>3, <1>8, <1>9, SameQuery DEF Found
  <2> QED BY <2>1, <2>2, <1>6
<1>11. ASSUME NEW i \in DOMAIN comments', NEW j \in DOMAIN comments', i < j
       PROVE  comments'[i].at < comments'[j].at
  <2>1. i \in DOMAIN comments /\ comments'[i] = comments[i]
    BY <1>6, <1>11
  <2>2. CASE j \in DOMAIN comments
    BY <2>1, <2>2, <1>1, <1>6, <1>11 DEF AllFound
  <2>3. CASE j = Len(comments) + 1
    <3>1. comments[i].at <= pos /\ comments[i].at \in Nat
      BY <2>1, <1>1, CommentAt DEF AllFound, Found
    <3> QED BY <2>1, <2>3, <3>1, <1>2, <1>4, <1>5, <1>6
  <2> QED BY <2>2, <2>3, <1>6
<1>12. ASSUME NEW r \in 1 .. tok, query[r] \in CommentTokens
       PROVE  \E i \in DOMAIN comments' : comments'[i].at = r
  <2>1. CASE r <= pos
    <3>1. PICK i \in DOMAIN comments : comments[i].at = r
      BY <2>1, <1>1, <1>2, <1>12 DEF AllFound
    <3> QED BY <3>1, <1>6
  <2>2. CASE r = tok
    BY <2>2, <1>5, <1>6
  <2>3. CASE r > pos /\ r < tok
    <3>1. r \in pos + 1 .. tok - 1 /\ query[r] \in Tokens
      BY <2>3, <1>2, <1>4, <1>12, CommentIsToken
    <3> QED BY <3>1, <1>4 DEF NoToken
  <2> QED BY <2>1, <2>2, <2>3, <1>2, <1>4
<1>13. AllFound'
  BY <1>3, <1>10, <1>11, <1>12 DEF AllFound
<1>14. Prior'
  <2>1. query[tok] \in Tokens /\ tok # 0
    BY <1>3, <1>4, CommentIsToken
  <2>2. prior_non_comment_end = 0 \/ IsCode(prior_non_comment_end)
    BY <1>1 DEF Prior
  <2> QED BY <2>1, <2>2, <1>3, <1>4, <1>7, SameQuery DEF Prior
<1>15. phase' = "scan"
  BY DEF Comment
<1> QED BY <1>1, <1>3, <1>13, <1>14, <1>15, SameQuery DEF ScanInv, AllScanned

\* Scanning a token that is not a comment.
LEMMA OtherScanInv == ASSUME IInv, ScanInv, OtherToken PROVE ScanInv'
<1> DEFINE tok == TokenAfter(pos)
<1>1. /\ TypeOK /\ Ordered /\ Parses /\ Prior /\ AllFound
  BY DEF IInv, ScanInv
<1>2. /\ pos \in Nat /\ Len(query) \in Nat
  BY <1>1 DEF TypeOK
<1>3. /\ tok <= Len(query) /\ query[tok] \notin CommentTokens /\ query' = query
      /\ comments' = comments
      /\ pos' = tok /\ prior_token_end' = tok /\ prior_token_was_comment' = FALSE
      /\ prior_non_comment_end' = tok
  BY DEF OtherToken
<1>4. /\ tok \in Nat /\ tok > pos /\ tok \in 1 .. Len(query) /\ NoToken(pos + 1, tok - 1)
      /\ query[tok] \in Tokens
  <2>1. tok \in Nat /\ tok > pos /\ NoToken(pos + 1, tok - 1) /\ query[tok] \in Tokens
    BY <1>1, <1>2, <1>3, NextToken
  <2> HIDE DEF tok
  <2> QED BY <2>1, <1>2, <1>3
<1> HIDE DEF tok
<1>5. ASSUME NEW i \in DOMAIN comments PROVE Found(comments[i])'
  <2>1. Found(comments[i])
    BY <1>1 DEF AllFound
  <2>2. comments[i].at <= tok
    <3>1. comments[i].at <= pos
      BY <2>1 DEF Found
    <3>2. comments[i].at \in Nat
      BY <1>1, CommentAt
    <3> QED BY <3>1, <3>2, <1>2, <1>4
  <2> QED BY <2>1, <2>2, <1>3, SameQuery DEF Found
<1>6. ASSUME NEW r \in 1 .. tok, query[r] \in CommentTokens
      PROVE  \E i \in DOMAIN comments : comments[i].at = r
  <2>1. CASE r <= pos
    BY <2>1, <1>1, <1>2, <1>6 DEF AllFound
  <2>2. CASE r > pos /\ r < tok
    <3>1. r \in pos + 1 .. tok - 1 /\ query[r] \in Tokens
      BY <2>2, <1>2, <1>4, <1>6, CommentIsToken
    <3> QED BY <3>1, <1>4 DEF NoToken
  <2> QED BY <2>1, <2>2, <1>2, <1>3, <1>4, <1>6
<1>7. AllFound'
  BY <1>1, <1>3, <1>5, <1>6 DEF AllFound
<1>8. IsCode(tok) /\ NoCode(tok + 1, tok)
  BY <1>3, <1>4 DEF IsCode, NoCode
<1>9. Prior'
  BY <1>3, <1>4, <1>8, SameQuery DEF Prior
<1>10. phase' = "scan"
  BY DEF OtherToken
<1> QED BY <1>1, <1>3, <1>7, <1>9, <1>10, SameQuery DEF ScanInv, AllScanned

\* What the scan found stays as it is.
LEMMA KeepScanInv ==
  ASSUME ScanInv, UNCHANGED <<query, scan>>, phase' # "scan" => NoToken(pos + 1, Len(query))
  PROVE  ScanInv'
<1>1. /\ query' = query /\ pos' = pos /\ prior' = prior /\ comments' = comments
  BY DEF scan
<1>2. AllFound'
  BY <1>1, SameQuery DEF ScanInv, AllFound, Found
<1>3. Prior'
  BY <1>1, SameQuery DEF ScanInv, Prior, prior
<1>4. AllScanned'
  BY <1>1 DEF AllScanned, NoToken
<1> QED BY <1>1, <1>2, <1>3, <1>4, SameQuery DEF ScanInv

\* Every step keeps what the scan found.
LEMMA NextScanInv == IInv /\ ScanInv /\ [Next]_vars => ScanInv'
<1> SUFFICES ASSUME IInv, ScanInv, [Next]_vars PROVE ScanInv'
  OBVIOUS
<1>1. CASE Comment
  BY <1>1, CommentScanInv
<1>2. CASE OtherToken
  BY <1>2, OtherScanInv
<1>3. CASE Scanned
  <2>1. pos \in Nat /\ Len(query) \in Nat /\ TokenAfter(pos) > Len(query)
    BY <1>3 DEF Scanned, IInv, TypeOK
  <2>2. NoToken(pos + 1, Len(query))
    <3>1. TokenAfter(pos) \in Nat /\ NoToken(pos + 1, TokenAfter(pos) - 1)
      BY <2>1, NextToken DEF IInv
    <3> QED BY <2>1, <3>1 DEF NoToken
  <2> QED BY <1>3, <2>2, KeepScanInv DEF Scanned
<1>4. CASE \/ DeparseRawStmt \/ EmitComment \/ EmitText \/ VisitNode \/ PrintWord
          \/ StmtEnds \/ Done
  <2>1. phase # "scan" /\ UNCHANGED <<query, scan>>
    BY <1>4 DEF DeparseRawStmt, EmitComment, EmitText, VisitNode, PrintWord, StmtEnds, Done
  <2> QED BY <2>1, KeepScanInv DEF ScanInv, AllScanned
<1>5. CASE UNCHANGED vars
  <2>1. phase' = phase /\ UNCHANGED <<query, scan>>
    BY <1>5 DEF vars
  <2> QED BY <2>1, KeepScanInv DEF ScanInv, AllScanned
<1> QED BY <1>1, <1>2, <1>3, <1>4, <1>5 DEF Next

-----------------------------------------------------------------------------
(* The comments put back are those the code reaches.                         *)

\* The output grows by one comment and newlines.
LEMMA EmitCommentOutput ==
  ASSUME IInv, EmitComment
  PROVE  \E i \in Reached :
           /\ emitted_comments' = emitted_comments \cup {i}
           /\ Cardinality(comments[i].before) \in Nat /\ Cardinality(comments[i].after) \in Nat
           /\ IsEmitted(output', output, Cardinality(comments[i].before), i,
                        Cardinality(comments[i].after))
<1>1. PICK i \in Reached :
        /\ \A j \in Reached : i <= j
        /\ output' = output \o Repeat(Cardinality(comments[i].before))
                       \o <<<<"comment", i>>>> \o Repeat(Cardinality(comments[i].after))
        /\ emitted_comments' = emitted_comments \cup {i}
  BY DEF EmitComment
<1>2. i \in DOMAIN comments
  BY DEF Reached
<1>3. Cardinality(comments[i].before) \in Nat /\ Cardinality(comments[i].after) \in Nat
  <2>1. Len(query) \in Nat
    BY DEF IInv, TypeOK
  <2>2. IsFiniteSet(1 .. Len(query))
    BY <2>1, FS_Interval
  <2>3. comments[i].before \subseteq 1 .. Len(query) /\ comments[i].after \subseteq 1 .. Len(query)
    BY <1>2, CommentType DEF IInv
  <2>4. IsFiniteSet(comments[i].before) /\ IsFiniteSet(comments[i].after)
    BY <2>2, <2>3, FS_Subset
  <2> QED BY <2>4, FS_CardinalityType
<1> DEFINE b == Cardinality(comments[i].before)
<1> DEFINE c == Cardinality(comments[i].after)
<1>4. i \in Int /\ output \in Seq({"comment", "newline", "text", "word"} \X Int)
  BY <1>2, CommentType DEF IInv, TypeOK
<1>5. b \in Nat /\ c \in Nat /\ output' = Emitted(output, b, i, c)
  BY <1>1, <1>3 DEF Emitted
<1>6. IsEmitted(output', output, b, i, c)
  <2> HIDE DEF b, c
  <2> QED BY <1>4, <1>5, AppendComment
<1> QED BY <1>1, <1>3, <1>6

\* Which items of the output that has grown are comments, or code.
LEMMA EmitCommentItems ==
  ASSUME IInv, NEW b \in Nat, NEW i \in Int, NEW c \in Nat, IsEmitted(output', output, b, i, c)
  PROVE  /\ DOMAIN output' = 1 .. Len(output) + b + 1 + c /\ DOMAIN output = 1 .. Len(output)
         /\ Len(output) \in Nat /\ Len(output') = Len(output) + b + 1 + c
         /\ \A k \in DOMAIN output : k \in DOMAIN output' /\ output'[k] = output[k]
         /\ output'[Len(output) + b + 1] = <<"comment", i>>
         /\ \A k \in DOMAIN output' : IsComment(k)' =>
              (k \in DOMAIN output /\ IsComment(k)) \/ k = Len(output) + b + 1
         /\ \A k \in DOMAIN output' \ DOMAIN output :
              k # Len(output) + b + 1 => output'[k] = <<"newline", 0>>
<1>1. /\ output' \in Seq({"comment", "newline", "text", "word"} \X Int)
      /\ Len(output') = Len(output) + b + 1 + c
      /\ \A k \in 1 .. Len(output) : output'[k] = output[k]
      /\ output'[Len(output) + b + 1] = <<"comment", i>>
      /\ \A k \in Len(output) + 1 .. Len(output') :
           k # Len(output) + b + 1 => output'[k] = <<"newline", 0>>
  BY DEF IsEmitted
<1>2. Len(output) \in Nat /\ DOMAIN output = 1 .. Len(output)
  BY DEF IInv, TypeOK
<1>3. DOMAIN output' = 1 .. Len(output) + b + 1 + c
  BY <1>1
<1> DEFINE at == Len(output) + b + 1
<1>4. at \in Nat
  BY <1>2
<1>5. \A k \in DOMAIN output : k \in DOMAIN output' /\ output'[k] = output[k]
  BY <1>1, <1>2, <1>3
<1>6. \A k \in DOMAIN output' \ DOMAIN output : k # at => output'[k] = <<"newline", 0>>
  <2> TAKE k \in DOMAIN output' \ DOMAIN output
  <2>1. k \in Len(output) + 1 .. Len(output')
    BY <1>1, <1>2, <1>3
  <2> QED BY <2>1, <1>1
<1>7. ASSUME NEW k \in DOMAIN output', IsComment(k)', k # at
      PROVE  k \in DOMAIN output /\ IsComment(k)
  <2>1. output'[k][1] = "comment" /\ <<"newline", 0>>[1] = "newline"
    BY <1>7 DEF IsComment
  <2>2. k \in DOMAIN output
    BY <2>1, <1>6, <1>7
  <2> QED BY <2>1, <2>2, <1>5 DEF IsComment
<1> QED BY <1>1, <1>2, <1>3, <1>5, <1>6, <1>7

\* Emitting adds that comment to those put back.
LEMMA EmitCommentPutBack ==
  ASSUME IInv, NEW b \in Nat, NEW i \in Int, NEW c \in Nat, IsEmitted(output', output, b, i, c)
  PROVE  PutBack' = PutBack \cup {i}
<1> DEFINE at == Len(output) + b + 1
<1>1. /\ \A k \in DOMAIN output : k \in DOMAIN output' /\ output'[k] = output[k]
      /\ output'[at] = <<"comment", i>> /\ at \in DOMAIN output'
      /\ \A k \in DOMAIN output' : IsComment(k)' => (k \in DOMAIN output /\ IsComment(k)) \/ k = at
  <2>1. at \in 1 .. Len(output) + b + 1 + c
    BY EmitCommentItems
  <2> QED BY <2>1, EmitCommentItems
<1> HIDE DEF at
<1>2. output'[at][1] = "comment" /\ output'[at][2] = i
  BY <1>1
<1>3. \A k \in DOMAIN output : IsComment(k)' <=> IsComment(k)
  BY <1>1 DEF IsComment
<1>4. PutBack' \subseteq PutBack \cup {i}
  BY <1>1, <1>2 DEF PutBack
<1>5. PutBack \subseteq PutBack'
  BY <1>1, <1>3 DEF PutBack
<1>6. i \in PutBack'
  BY <1>1, <1>2 DEF PutBack, IsComment
<1> QED BY <1>4, <1>5, <1>6

\* Code is not a comment.
LEMMA EmitTextPutBack == ASSUME IInv, EmitText PROVE PutBack' = PutBack
<1> DEFINE at == Len(output) + 1
<1>1. /\ output' = Append(output, <<"text", location>>) /\ location \in Int
      /\ output \in Seq({"comment", "newline", "text", "word"} \X Int)
  BY DEF EmitText, IInv, TypeOK
<1>2. /\ DOMAIN output' = DOMAIN output \cup {at}
      /\ \A k \in DOMAIN output : output'[k] = output[k]
      /\ output'[at] = <<"text", location>>
  <2>1. <<"text", location>> \in {"comment", "newline", "text", "word"} \X Int
    BY <1>1
  <2> QED BY <2>1, <1>1
<1> HIDE DEF at
<1>3. output'[at][1] = "text" /\ "text" # "comment"
  BY <1>2
<1>4. \A k \in DOMAIN output : IsComment(k)' <=> IsComment(k)
  BY <1>2 DEF IsComment
<1>5. \A k \in DOMAIN output' : IsComment(k)' => k \in DOMAIN output /\ IsComment(k)
  <2> TAKE k \in DOMAIN output'
  <2>1. IsComment(k)' => output'[k][1] = "comment"
    BY DEF IsComment
  <2> QED BY <2>1, <1>2, <1>3, <1>4
<1>6. \A x \in PutBack' : x \in PutBack
  BY <1>2, <1>5 DEF PutBack
<1>7. \A x \in PutBack : x \in PutBack'
  BY <1>2, <1>4 DEF PutBack
<1> QED BY <1>6, <1>7

\* While the query is scanned, every statement is still to come.
LEMMA ScanEmitInv ==
  ASSUME IInv, EmitInv, Comment \/ OtherToken \/ Scanned
  PROVE  EmitInv'
<1>1. /\ phase = "scan" /\ phase' \in {"scan", "begin"} /\ query' = query /\ output' = output
      /\ stmt_location' = stmt_location
  BY DEF Comment, OtherToken, Scanned, state
<1>2. output = <<>> /\ stmt_location = -1 /\ Stmts \subseteq Nat
  BY <1>1, StmtsType DEF IInv, EmitInv, Scanning, Current
<1>3. PutBack' = {}
  BY <1>1, <1>2 DEF PutBack
<1>4. Stmts' \ Later' = {}
  <2>1. Stmts' = Stmts /\ stmt_location' = -1
    BY <1>1, <1>2, SameQuery
  <2>2. \A t \in Stmts' : t > stmt_location'
    BY <2>1, <1>2
  <2> QED BY <2>2 DEF Later
<1> QED BY <1>1, <1>2, <1>3, <1>4 DEF EmitInv, OnlyReached, AllReached, Current

\* A statement begins with no location settled.
LEMMA RawStmtEmitInv == ASSUME IInv, EmitInv, DeparseRawStmt PROVE EmitInv'
<1>1. PICK s \in Later : /\ \A t \in Later : s <= t
                         /\ stmt_location' = s /\ location' = s
                         /\ emitted_comments' = PlacedBefore(s)
  BY DEF DeparseRawStmt
<1>2. /\ phase = "begin" /\ visited' = {} /\ phase' = "emit" /\ query' = query
      /\ comments' = comments /\ output' = output
  BY DEF DeparseRawStmt, scan
<1>3. PutBack' = PutBack /\ Stmts' = Stmts /\ \A t : Nodes(t)' = Nodes(t)
  BY <1>2, SameQuery DEF PutBack, IsComment
<1>4. s \in Stmts /\ Stmts \subseteq Nat /\ stmt_location \in Int
  BY StmtsType DEF Later, IInv, TypeOK
<1>5. ASSUME NEW t \in Stmts' \ Later', t # s PROVE t \in Stmts \ Later
  <2>1. t \in Stmts /\ ~(t > s)
    BY <1>1, <1>3 DEF Later
  <2>2. ~(s <= t)
    BY <2>1, <1>4, <1>5
  <2> QED BY <2>1, <2>2, <1>1
<1>6. OnlyReached'
  BY <1>2, <1>3 DEF EmitInv, OnlyReached, ReachedIn, Locations
<1>7. AllReached'
  <2> SUFFICES ASSUME NEW t \in Stmts' \ Later', NEW i \in DOMAIN comments,
                      NEW l \in SettledOf(t)', ReachedIn(t, i, l)
               PROVE  i \in PutBack
    BY <1>2, <1>3 DEF AllReached, ReachedIn
  <2>1. t # s
    BY <1>1, <1>2 DEF SettledOf, Settled, Locations
  <2>2. t \in Stmts \ Later /\ l \in SettledOf(t)
    BY <2>1, <1>1, <1>2, <1>3, <1>5 DEF SettledOf, Locations
  <2> QED BY <2>2 DEF EmitInv, AllReached
<1>8. Current'
  <2>1. PlacedBefore(s)' = PlacedBefore(s)
    BY <1>2 DEF PlacedBefore
  <2> QED BY <2>1, <1>1, <1>2, <1>3, <1>4 DEF Current, Locations, PlacedBefore
<1> QED BY <1>6, <1>7, <1>8 DEF EmitInv

\* A comment is put back that stands in the statement, no later than the location.
LEMMA EmitCommentEmitInv == ASSUME IInv, EmitInv, EmitComment PROVE EmitInv'
<1>1. PICK i \in Reached :
        /\ emitted_comments' = emitted_comments \cup {i}
        /\ Cardinality(comments[i].before) \in Nat /\ Cardinality(comments[i].after) \in Nat
        /\ IsEmitted(output', output, Cardinality(comments[i].before), i,
                     Cardinality(comments[i].after))
  BY EmitCommentOutput
<1>2. /\ phase = "emit" /\ phase' = "emit" /\ query' = query /\ comments' = comments
      /\ stmt_location' = stmt_location /\ location' = location /\ visited' = visited
  BY DEF EmitComment, scan
<1>3. /\ i \in DOMAIN comments /\ i \notin emitted_comments
      /\ comments[i].match_location <= location /\ comments[i].match_location \in Nat /\ i \in Int
  BY CommentType DEF Reached, IInv
<1>4. PutBack' = PutBack \cup {i}
  BY <1>1, <1>3, EmitCommentPutBack
<1>5. /\ Stmts' = Stmts /\ Later' = Later /\ \A s : Nodes(s)' = Nodes(s)
      /\ \A s : PlacedBefore(s)' = PlacedBefore(s)
  BY <1>2, SameQuery DEF Later, PlacedBefore
<1>6. /\ stmt_location \in Stmts /\ visited \subseteq Nodes(stmt_location)
      /\ location \in Locations(stmt_location, visited)
      /\ PlacedBefore(stmt_location) \subseteq emitted_comments
      /\ emitted_comments \subseteq PlacedBefore(stmt_location) \cup PutBack
      /\ stmt_location \in Nat
  BY <1>2, StmtsType DEF EmitInv, Current, IInv
<1>7. OnlyReached'
  <2>1. location \in Locations(stmt_location, Nodes(stmt_location))
    BY <1>6 DEF Locations
  <2>2. i \notin PlacedBefore(stmt_location)
    BY <1>3, <1>6
  <2>3. stmt_location <= comments[i].match_location
    BY <2>2, <1>3, <1>6 DEF PlacedBefore
  <2>4. ReachedIn(stmt_location, i, location)
    BY <2>3, <1>3 DEF ReachedIn
  <2>5. \A j \in PutBack : \E s \in Stmts : \E l \in Locations(s, Nodes(s)) : ReachedIn(s, j, l)
    BY DEF EmitInv, OnlyReached
  <2>6. \A j \in PutBack' : \E s \in Stmts : \E l \in Locations(s, Nodes(s)) : ReachedIn(s, j, l)
    BY <2>1, <2>4, <2>5, <1>4, <1>6
  <2> QED BY <2>6, <1>2, <1>5 DEF OnlyReached, ReachedIn, Locations
<1>8. AllReached'
  <2>1. \A s : SettledOf(s)' = SettledOf(s)
    BY <1>2, <1>5 DEF SettledOf, Settled, Locations
  <2> QED BY <2>1, <1>2, <1>4, <1>5 DEF EmitInv, AllReached, ReachedIn
<1>9. Current'
  <2>1. /\ PlacedBefore(stmt_location) \subseteq emitted_comments'
        /\ emitted_comments' \subseteq PlacedBefore(stmt_location) \cup PutBack'
    BY <1>1, <1>4, <1>6
  <2> QED BY <2>1, <1>2, <1>5, <1>6 DEF Current, Locations, PlacedBefore
<1> QED BY <1>7, <1>8, <1>9 DEF EmitInv

\* Before code is printed, all comments up to its location have been put back.
LEMMA EmitTextEmitInv == ASSUME IInv, EmitInv, EmitText PROVE EmitInv'
<1>1. /\ phase = "emit" /\ phase' = "visit" /\ Reached = {}
      /\ query' = query /\ comments' = comments /\ stmt_location' = stmt_location
      /\ location' = location /\ visited' = visited /\ emitted_comments' = emitted_comments
  BY DEF EmitText, scan, state
<1>2. PutBack' = PutBack
  BY EmitTextPutBack
<1>3. /\ Stmts' = Stmts /\ Later' = Later /\ \A s : Nodes(s)' = Nodes(s)
      /\ \A s : PlacedBefore(s)' = PlacedBefore(s)
  BY <1>1, SameQuery DEF Later, PlacedBefore
<1>4. OnlyReached'
  BY <1>1, <1>2, <1>3 DEF EmitInv, OnlyReached, ReachedIn, Locations
<1>5. AllReached'
  <2> SUFFICES ASSUME NEW s \in Stmts \ Later, NEW i \in DOMAIN comments,
                      NEW l \in SettledOf(s)', ReachedIn(s, i, l)
               PROVE  i \in PutBack
    BY <1>1, <1>2, <1>3 DEF AllReached, ReachedIn
  <2>1. CASE l \in SettledOf(s)
    BY <2>1 DEF EmitInv, AllReached
  <2>2. CASE l \notin SettledOf(s)
    <3>1. s = stmt_location /\ l = location
      BY <2>2, <1>1, <1>3 DEF SettledOf, Settled, Locations
    <3>2. i \in emitted_comments
      BY <3>1, <1>1 DEF ReachedIn, Reached
    <3>3. i \notin PlacedBefore(s)
      <4>1. comments[i].match_location \in Nat /\ s \in Nat
        BY CommentType, StmtsType DEF IInv
      <4>2. s <= comments[i].match_location
        BY DEF ReachedIn
      <4> QED BY <4>1, <4>2 DEF PlacedBefore
    <3> QED BY <3>1, <3>2, <3>3, <1>1 DEF EmitInv, Current
  <2> QED BY <2>1, <2>2
<1>6. Current'
  BY <1>1, <1>2, <1>3 DEF EmitInv, Current, Locations, PlacedBefore
<1> QED BY <1>4, <1>5, <1>6 DEF EmitInv

\* The deparser goes on to a node.
LEMMA VisitNodeEmitInv == ASSUME IInv, EmitInv, VisitNode PROVE EmitInv'
<1>1. PICK p \in Nodes(stmt_location) \ visited : location' = p - 1 /\ visited' = visited \cup {p}
  BY DEF VisitNode
<1>2. /\ phase = "visit" /\ phase' = "emit" /\ query' = query
      /\ comments' = comments /\ stmt_location' = stmt_location
      /\ emitted_comments' = emitted_comments /\ output' = output
  BY DEF VisitNode, scan
<1>3. /\ Stmts' = Stmts /\ Later' = Later /\ \A s : Nodes(s)' = Nodes(s) /\ PutBack' = PutBack
      /\ \A s : PlacedBefore(s)' = PlacedBefore(s)
  BY <1>2, SameQuery DEF Later, PutBack, IsComment, PlacedBefore
<1>4. OnlyReached'
  BY <1>2, <1>3 DEF EmitInv, OnlyReached, ReachedIn, Locations
<1>5. AllReached'
  <2>1. \A s : SettledOf(s)' \subseteq SettledOf(s)
    BY <1>1, <1>2, <1>3 DEF SettledOf, Settled, Locations
  <2> QED BY <2>1, <1>2, <1>3 DEF EmitInv, AllReached, ReachedIn
<1>6. Current'
  <2>1. p - 1 \in Locations(stmt_location, visited \cup {p})
    BY DEF Locations
  <2> QED BY <2>1, <1>1, <1>2, <1>3 DEF EmitInv, Current, Locations, PlacedBefore
<1> QED BY <1>4, <1>5, <1>6 DEF EmitInv

\* A word is printed, whatever comments there are.
LEMMA PrintWordEmitInv == ASSUME IInv, EmitInv, PrintWord PROVE EmitInv'
<1>1. /\ phase = "visit" /\ phase' = "visit" /\ query' = query
      /\ comments' = comments /\ stmt_location' = stmt_location /\ location' = location
      /\ visited' = visited /\ emitted_comments' = emitted_comments
  BY DEF PrintWord, scan, state
<1>2. PutBack' = PutBack
  <2>1. /\ \A k \in DOMAIN output : output'[k] = output[k] /\ k \in DOMAIN output'
        /\ \A k \in DOMAIN output' : IsComment(k)' => k \in DOMAIN output /\ IsComment(k)
        /\ \A k \in DOMAIN output : IsComment(k)' <=> IsComment(k)
    BY PrintWordOutput
  <2>2. \A x \in PutBack' : x \in PutBack
    BY <2>1 DEF PutBack
  <2>3. \A x \in PutBack : x \in PutBack'
    BY <2>1 DEF PutBack
  <2> QED BY <2>2, <2>3
<1>3. /\ Stmts' = Stmts /\ Later' = Later /\ \A s : Nodes(s)' = Nodes(s)
      /\ \A s : PlacedBefore(s)' = PlacedBefore(s)
  BY <1>1, SameQuery DEF Later, PlacedBefore
<1>4. \A s : SettledOf(s)' = SettledOf(s)
  BY <1>1, <1>3 DEF SettledOf, Settled, Locations
<1>5. OnlyReached' /\ AllReached'
  BY <1>1, <1>2, <1>3, <1>4 DEF EmitInv, OnlyReached, AllReached, ReachedIn, Locations
<1>6. Current'
  BY <1>1, <1>2, <1>3 DEF EmitInv, Current, Locations, PlacedBefore
<1> QED BY <1>5, <1>6 DEF EmitInv

\* A statement ends when all its nodes are printed, the query when no statement is left.
LEMMA EndEmitInv == ASSUME IInv, EmitInv, StmtEnds \/ Done PROVE EmitInv'
<1>1. /\ phase' \in {"begin", "done"} /\ query' = query /\ output' = output
      /\ comments' = comments /\ stmt_location' = stmt_location
  BY DEF StmtEnds, Done, scan, state
<1>2. Stmts' = Stmts /\ Later' = Later /\ \A s : Nodes(s)' = Nodes(s) /\ PutBack' = PutBack
  BY <1>1, SameQuery DEF Later, PutBack, IsComment
<1>3. OnlyReached'
  BY <1>1, <1>2 DEF EmitInv, OnlyReached, ReachedIn, Locations
<1>4. \A s : SettledOf(s)' = SettledOf(s)
  <2> TAKE s
  <2>1. SettledOf(s)' = Locations(s, Nodes(s))
    BY <1>1, <1>2 DEF SettledOf, Locations
  <2>2. CASE StmtEnds
    <3>1. phase = "visit" /\ visited = Nodes(stmt_location)
      BY <2>2 DEF StmtEnds
    <3>2. Settled = Locations(stmt_location, Nodes(stmt_location))
      BY <3>1 DEF Settled
    <3> QED BY <2>1, <3>2 DEF SettledOf
  <2>3. CASE Done
    BY <2>1, <2>3 DEF Done, SettledOf
  <2> QED BY <2>2, <2>3
<1>5. AllReached'
  BY <1>1, <1>2, <1>4 DEF EmitInv, AllReached, ReachedIn
<1>6. Current'
  BY <1>1, <1>2 DEF EmitInv, Current, StmtEnds, Done
<1> QED BY <1>3, <1>5, <1>6 DEF EmitInv

\* Every step keeps it.
LEMMA NextEmitInv == IInv /\ EmitInv /\ [Next]_vars => EmitInv'
<1> SUFFICES ASSUME IInv, EmitInv, [Next]_vars PROVE EmitInv'
  OBVIOUS
<1>1. CASE UNCHANGED vars
  <2>1. /\ query' = query /\ comments' = comments /\ stmt_location' = stmt_location
        /\ phase' = phase /\ location' = location /\ visited' = visited
        /\ emitted_comments' = emitted_comments /\ output' = output
    BY <1>1 DEF vars, scan, state
  <2>2. /\ Stmts' = Stmts /\ Later' = Later /\ \A s : Nodes(s)' = Nodes(s) /\ PutBack' = PutBack
        /\ \A s : PlacedBefore(s)' = PlacedBefore(s)
    BY <2>1, SameQuery DEF Later, PutBack, IsComment, PlacedBefore
  <2>3. \A s : SettledOf(s)' = SettledOf(s)
    BY <2>1, <2>2 DEF SettledOf, Settled, Locations
  <2>4. OnlyReached' /\ AllReached'
    BY <2>1, <2>2, <2>3 DEF EmitInv, OnlyReached, AllReached, ReachedIn, Locations
  <2>5. Current'
    BY <2>1, <2>2 DEF EmitInv, Current, Locations, PlacedBefore
  <2> QED BY <2>4, <2>5 DEF EmitInv
<1> QED BY <1>1, ScanEmitInv, RawStmtEmitInv, EmitCommentEmitInv, EmitTextEmitInv, VisitNodeEmitInv,
           PrintWordEmitInv, EndEmitInv DEF Next

-----------------------------------------------------------------------------
(* Line comments.                                                            *)

\* Where the deparser is, code of the statement is still ahead.
LEMMA CodeAhead ==
  ASSUME IInv, EmitInv, phase = "emit"
  PROVE  \E p \in 1 .. Len(query) : IsCode(p) /\ location < p
<1>1. /\ stmt_location \in Stmts /\ visited \subseteq Nodes(stmt_location)
      /\ location \in Locations(stmt_location, visited)
  BY DEF EmitInv, Current
<1>2. Len(query) \in Nat /\ stmt_location \in Nat
  BY <1>1, StmtsType DEF IInv, TypeOK
<1>3. "word" \in Tokens \ CommentTokens /\ "node" \in Tokens \ CommentTokens
  BY DEF Tokens, CommentTokens
<1>4. CASE location = stmt_location
  <2>1. PICK p \in stmt_location + 1 .. Len(query) : query[p] = "word"
    BY <1>1 DEF Stmts
  <2>2. p \in 1 .. Len(query) /\ location < p
    BY <1>2, <1>4
  <2> QED BY <2>1, <2>2, <1>3 DEF IsCode
<1>5. CASE \E p \in visited : location = p - 1
  <2>1. PICK p \in visited : location = p - 1
    BY <1>5
  <2>2. p \in stmt_location + 1 .. Len(query) /\ query[p] = "node"
    BY <1>1 DEF Nodes
  <2>3. p \in 1 .. Len(query) /\ location < p
    BY <2>1, <2>2, <1>2
  <2> QED BY <2>2, <2>3, <1>3 DEF IsCode
<1> QED BY <1>1, <1>4, <1>5 DEF Locations

\* A line comment that is put back has its newline behind it: code followed it.
LEMMA LineHasNewline ==
  ASSUME IInv, ScanInv, EmitInv, phase = "emit", "return" \notin Breaks,
         NEW i \in Reached, query[comments[i].at] = "line"
  PROVE  comments[i].after # {}
<1>1. PICK p \in 1 .. Len(query) : IsCode(p) /\ location < p
  BY CodeAhead
<1> DEFINE at == comments[i].at
<1>2. /\ i \in DOMAIN comments /\ comments[i].match_location <= location
      /\ comments[i].match_location \in Nat /\ at \in 1 .. Len(query) /\ at \in Nat
      /\ location \in Int /\ Len(query) \in Nat
  BY CommentType, CommentAt, SMTT(30) DEF Reached, IInv, TypeOK
<1>3. /\ NoCode(comments[i].match_location + 1, at)
      /\ \A q \in 1 .. Len(query) : q \in comments[i].after <=> BehindOf(q, at)
  BY <1>2 DEF ScanInv, AllFound, Found
<1>4. p > at
  <2> SUFFICES ASSUME p <= at PROVE FALSE
    BY <1>2
  <2>1. p \in comments[i].match_location + 1 .. at
    BY <1>1, <1>2
  <2> QED BY <2>1, <1>1, <1>3 DEF NoCode
<1>5. query[at + 1] = "newline"
  <2>1. query[at + 1] \in Breaks
    BY <1>2, <1>4 DEF ScanInv, Parses
  <2> QED BY <2>1, DeparseCommentsAssumption
<1>6. p # at + 1
  BY <1>1, <1>5, BreakIsNoToken DEF IsCode
<1>7. at + 1 \in 1 .. Len(query) /\ p \in (at + 1) + 1 .. Len(query) /\ query[p] \in Tokens
  BY <1>1, <1>2, <1>4, <1>6 DEF IsCode
<1>8. TokenAfter(at + 1) <= Len(query)
  <2>0. TypeOK /\ at + 1 \in Nat
    BY <1>2 DEF IInv
  <2> HIDE DEF at
  <2>1. TokenAfter(at + 1) <= p /\ TokenAfter(at + 1) \in Nat
    BY <2>0, <1>7, NextToken
  <2> QED BY <2>1, <1>2
<1>9. NoToken(at + 1, at + 1)
  BY <1>2, <1>5, BreakIsNoToken DEF NoToken
<1>10. BehindOf(at + 1, at)
  BY <1>2, <1>5, <1>8, <1>9 DEF BehindOf
<1> QED BY <1>3, <1>7, <1>10

\* Printing keeps it: what follows a comment in the output stays there.
LEMMA NextLineCommentsEnd ==
  ASSUME IInv, ScanInv, EmitInv, "return" \notin Breaks, LineCommentsEnd, [Next]_vars
  PROVE  LineCommentsEnd'
<1>1. CASE Comment \/ OtherToken
  <2>1. output' = <<>>
    BY <1>1 DEF Comment, OtherToken, IInv, Scanning
  <2> QED BY <2>1 DEF LineCommentsEnd
<1>2. CASE Scanned \/ DeparseRawStmt \/ VisitNode \/ StmtEnds \/ Done \/ UNCHANGED vars
  <2>1. output' = output /\ comments' = comments /\ query' = query
    BY <1>2 DEF Scanned, DeparseRawStmt, VisitNode, StmtEnds, Done, vars, scan
  <2> QED BY <2>1 DEF LineCommentsEnd, IsComment
<1>3. CASE EmitText
  <2> DEFINE at == Len(output) + 1
  <2>1. /\ output' = Append(output, <<"text", location>>) /\ location \in Int
        /\ output \in Seq({"comment", "newline", "text", "word"} \X Int)
        /\ comments' = comments /\ query' = query
    BY <1>3 DEF EmitText, scan, IInv, TypeOK
  <2>2. /\ DOMAIN output' = 1 .. at /\ Len(output') = at /\ Len(output) \in Nat
        /\ DOMAIN output = 1 .. Len(output)
        /\ \A k \in DOMAIN output : output'[k] = output[k]
        /\ output'[at] = <<"text", location>>
    <3>1. <<"text", location>> \in {"comment", "newline", "text", "word"} \X Int
      BY <2>1
    <3> QED BY <3>1, <2>1
  <2> SUFFICES ASSUME NEW a \in DOMAIN output', output'[a][1] = "comment",
                      query[comments[output'[a][2]].at] = "line"
               PROVE  a < Len(output') /\ output'[a + 1][1] = "newline"
    BY <2>1 DEF LineCommentsEnd, IsComment
  <2>3. output'[at][1] = "text"
    BY <2>2
  <2>4. a \in DOMAIN output /\ output'[a] = output[a]
    BY <2>2, <2>3
  <2>5. a < Len(output) /\ output[a + 1][1] = "newline"
    BY <2>4 DEF LineCommentsEnd, IsComment
  <2>6. a + 1 \in DOMAIN output
    BY <2>2, <2>4, <2>5
  <2> QED BY <2>2, <2>4, <2>5, <2>6
<1>4. CASE EmitComment
  <2>1. PICK i \in Reached :
          /\ emitted_comments' = emitted_comments \cup {i}
          /\ Cardinality(comments[i].before) \in Nat /\ Cardinality(comments[i].after) \in Nat
          /\ IsEmitted(output', output, Cardinality(comments[i].before), i,
                       Cardinality(comments[i].after))
    BY <1>4, EmitCommentOutput
  <2>2. i \in Int /\ comments' = comments /\ query' = query /\ phase = "emit"
    BY <1>4, CommentType DEF EmitComment, Reached, scan, IInv
  <2> DEFINE b == Cardinality(comments[i].before)
  <2> DEFINE c == Cardinality(comments[i].after)
  <2> DEFINE at == Len(output) + b + 1
  <2>3. b \in Nat /\ c \in Nat /\ IsEmitted(output', output, b, i, c)
    BY <2>1
  <2>4. query[comments[i].at] = "line" => c > 0
    <3> SUFFICES ASSUME query[comments[i].at] = "line" PROVE c # 0
      BY <2>3
    <3>1. comments[i].after # {}
      BY <2>2, LineHasNewline
    <3>2. IsFiniteSet(comments[i].after)
      <4>1. Len(query) \in Nat
        BY DEF IInv, TypeOK
      <4>2. comments[i].after \subseteq 1 .. Len(query)
        <5>1. i \in DOMAIN comments /\ TypeOK
          BY DEF IInv, Reached
        <5> QED BY <5>1, CommentType
      <4>3. IsFiniteSet(1 .. Len(query))
        BY <4>1, FS_Interval
      <4> QED BY <4>2, <4>3, FS_Subset
    <3> QED BY <3>1, <3>2, FS_EmptySet
  <2> HIDE DEF b, c
  <2>5. /\ DOMAIN output' = 1 .. Len(output) + b + 1 + c /\ DOMAIN output = 1 .. Len(output)
        /\ Len(output) \in Nat /\ Len(output') = Len(output) + b + 1 + c
        /\ \A k \in DOMAIN output : k \in DOMAIN output' /\ output'[k] = output[k]
        /\ output'[at] = <<"comment", i>>
        /\ \A k \in DOMAIN output' : IsComment(k)' => (k \in DOMAIN output /\ IsComment(k)) \/ k = at
        /\ \A k \in DOMAIN output' \ DOMAIN output : k # at => output'[k] = <<"newline", 0>>
    BY <2>2, <2>3, EmitCommentItems
  <2> SUFFICES ASSUME NEW a \in DOMAIN output', IsComment(a)',
                      query[comments[output'[a][2]].at] = "line"
               PROVE  a < Len(output') /\ output'[a + 1][1] = "newline"
    BY <2>2 DEF LineCommentsEnd
  <2>6. CASE a \in DOMAIN output /\ IsComment(a)
    <3>1. a < Len(output) /\ output[a + 1][1] = "newline"
      BY <2>5, <2>6 DEF LineCommentsEnd
    <3>2. a + 1 \in DOMAIN output
      BY <2>5, <2>6, <3>1
    <3> QED BY <2>3, <2>5, <2>6, <3>1, <3>2
  <2>7. CASE a = at
    <3>1. c > 0
      BY <2>4, <2>5, <2>7
    <3>2. a + 1 \in DOMAIN output' \ DOMAIN output /\ a + 1 # at /\ a < Len(output')
      BY <3>1, <2>3, <2>5, <2>7
    <3> QED BY <3>2, <2>5
  <2> QED BY <2>5, <2>6, <2>7
<1>5. CASE PrintWord
  <2>1. /\ Len(output) \in Nat /\ Len(output') = Len(output) + 1
        /\ DOMAIN output = 1 .. Len(output)
        /\ \A k \in DOMAIN output : output'[k] = output[k]
        /\ \A k \in DOMAIN output' : IsComment(k)' => k \in DOMAIN output /\ IsComment(k)
        /\ comments' = comments /\ query' = query
    BY <1>5, PrintWordOutput DEF PrintWord, scan
  <2> SUFFICES ASSUME NEW a \in DOMAIN output', IsComment(a)',
                      query[comments[output'[a][2]].at] = "line"
               PROVE  a < Len(output') /\ output'[a + 1][1] = "newline"
    BY <2>1 DEF LineCommentsEnd
  <2>2. a \in DOMAIN output /\ IsComment(a) /\ output'[a] = output[a]
    BY <2>1
  <2>3. a < Len(output) /\ output[a + 1][1] = "newline"
    BY <2>2 DEF LineCommentsEnd
  <2>4. a + 1 \in DOMAIN output
    BY <2>1, <2>2, <2>3
  <2> QED BY <2>1, <2>3, <2>4
<1> QED BY <1>1, <1>2, <1>3, <1>4, <1>5 DEF Next

-----------------------------------------------------------------------------
(* The places comments come back in.                                         *)

\* No text has been printed behind comment a.
Pending(a) == IsComment(a) /\ \A c \in a + 1 .. Len(output) : ~IsText(c)

NoWord(a, b) == \A c \in a + 1 .. b : output[c][1] # "word"

StoodInFront(i, l) == ~CodeBetween(l, comments[i].at) /\ Within(comments[i].at, l)

\* Between a comment and what it was looked up for nothing but comments is printed.
FrontInv ==
  /\ \A b \in DOMAIN output : IsText(b) => output[b][2] \in Nat
  /\ \A a, b \in DOMAIN output : IsComment(a) /\ PrintedBehind(a, b) =>
       StoodInFront(output[a][2], output[b][2]) /\ NoWord(a, b - 1)
  /\ \A a \in DOMAIN output : Pending(a) =>
       /\ phase = "emit" /\ ReachedIn(stmt_location, output[a][2], location)
       /\ NoWord(a, Len(output))

\* A comment of the statement that is placed at or before the location stood in front of it.
LEMMA StandsInFront ==
  ASSUME IInv, ScanInv, EmitInv, phase = "emit", NEW i \in DOMAIN comments,
         ReachedIn(stmt_location, i, location)
  PROVE  StoodInFront(i, location) /\ location \in Nat
<1>1. /\ comments[i].match_location \in Nat /\ comments[i].at \in Nat /\ stmt_location \in Nat
      /\ location \in Int
  BY CommentType, CommentAt DEF IInv, Located, TypeOK
<1>2. PICK m \in Nat, p \in Nat, s \in Nat, l \in Int :
        /\ m = comments[i].match_location /\ p = comments[i].at
        /\ s = stmt_location /\ l = location /\ s <= m /\ m <= l
  BY <1>1 DEF ReachedIn
<1>3. m < p /\ NoCode(m + 1, p)
  BY <1>2 DEF ScanInv, AllFound, Found
<1>4. l \in Locations(s, visited) /\ visited \subseteq Nodes(s)
  BY <1>2 DEF EmitInv, Current
<1>5. l \in Nat /\ Within(s, l)
  <2>1. CASE l = s
    <3>1. \A r \in s + 1 .. l : FALSE
      BY <2>1
    <3> QED BY <2>1, <3>1 DEF Within
  <2>2. CASE \E q \in visited : l = q - 1
    <3>1. PICK q \in visited : l = q - 1
      BY <2>2
    <3>2. q \in s + 1 .. Len(query) /\ Within(s, q)
      BY <1>4, <3>1 DEF Nodes
    <3>3. q \in Nat /\ q > s
      BY <3>2 DEF IInv, TypeOK
    <3>4. l \in Nat /\ \A r \in s + 1 .. l : r \in s + 1 .. q
      BY <3>1, <3>3
    <3> QED BY <3>2, <3>4 DEF Within
  <2> QED BY <1>4, <2>1, <2>2 DEF Locations
<1>6. ~CodeBetween(l, p)
  <2>1. \A q \in l + 1 .. p : q \in m + 1 .. p
    BY <1>2
  <2> QED BY <1>3, <2>1 DEF CodeBetween, NoCode, IsCode
<1>7. Within(p, l)
  <2>1. m < p
    BY <1>3
  <2>2. \A r \in p + 1 .. l : r \in s + 1 .. l
    BY <1>2, <2>1
  <2> QED BY <1>5, <2>2 DEF Within
<1> QED BY <1>2, <1>5, <1>6, <1>7 DEF StoodInFront

\* What has been printed stays as it is.
LEMMA FrontStays ==
  ASSUME FrontInv, query' = query, comments' = comments, Len(output) \in Nat,
         DOMAIN output = 1 .. Len(output),
         \A k \in DOMAIN output : output'[k] = output[k]
  PROVE  /\ \A k \in DOMAIN output : (IsComment(k)' <=> IsComment(k)) /\ (IsText(k)' <=> IsText(k))
         /\ \A i, l : StoodInFront(i, l)' <=> StoodInFront(i, l)
         /\ \A a, b \in DOMAIN output : IsComment(a)' /\ PrintedBehind(a, b)' =>
              StoodInFront(output[a][2], output[b][2])' /\ NoWord(a, b - 1)'
<1>1. \A k \in DOMAIN output : (IsComment(k)' <=> IsComment(k)) /\ (IsText(k)' <=> IsText(k))
  BY DEF IsComment, IsText
<1>2. \A i, l : StoodInFront(i, l)' <=> StoodInFront(i, l)
  BY DEF StoodInFront, CodeBetween, Within
<1>3. ASSUME NEW a \in DOMAIN output, NEW b \in DOMAIN output, IsComment(a)', PrintedBehind(a, b)'
      PROVE  StoodInFront(output[a][2], output[b][2])' /\ NoWord(a, b - 1)'
  <2>1. \A c \in a + 1 .. b - 1 : c \in DOMAIN output
    OBVIOUS
  <2>2. IsComment(a) /\ PrintedBehind(a, b)
    BY <1>1, <1>3, <2>1 DEF PrintedBehind
  <2>3. StoodInFront(output[a][2], output[b][2]) /\ NoWord(a, b - 1)
    BY <2>2 DEF FrontInv
  <2> QED BY <1>2, <2>1, <2>3 DEF NoWord
<1> QED BY <1>1, <1>2, <1>3

\* Steps that print nothing.
LEMMA SilentFront ==
  ASSUME IInv, FrontInv, query' = query, comments' = comments, output' = output,
         \/ phase # "emit"
         \/ phase' = phase /\ stmt_location' = stmt_location /\ location' = location
  PROVE  FrontInv'
<1>1. Len(output) \in Nat /\ DOMAIN output = 1 .. Len(output)
  BY DEF IInv, TypeOK
<1>2. \A k \in DOMAIN output : (IsComment(k)' <=> IsComment(k)) /\ (IsText(k)' <=> IsText(k))
  BY DEF IsComment, IsText
<1>3. \A b \in DOMAIN output' : IsText(b)' => output'[b][2] \in Nat
  BY <1>2 DEF FrontInv
<1>4. \A a, b \in DOMAIN output' : IsComment(a)' /\ PrintedBehind(a, b)' =>
        StoodInFront(output[a][2], output[b][2])' /\ NoWord(a, b - 1)'
  BY <1>1, FrontStays
<1>5. ASSUME NEW a \in DOMAIN output', Pending(a)'
      PROVE  /\ phase' = "emit" /\ ReachedIn(stmt_location, output[a][2], location)'
             /\ NoWord(a, Len(output))'
  <2>1. Pending(a)
    <3>1. \A c \in a + 1 .. Len(output) : c \in DOMAIN output
      BY <1>1
    <3> QED BY <1>2, <1>5, <3>1 DEF Pending
  <2>2. /\ phase = "emit" /\ ReachedIn(stmt_location, output[a][2], location)
        /\ NoWord(a, Len(output))
    BY <2>1 DEF FrontInv
  <2> QED BY <2>2 DEF ReachedIn, NoWord
<1> QED BY <1>3, <1>4, <1>5 DEF FrontInv

\* While the query is scanned nothing is printed.
LEMMA ScanFront ==
  ASSUME IInv, FrontInv, Comment \/ OtherToken
  PROVE  FrontInv'
<1>1. output' = <<>>
  BY DEF Comment, OtherToken, IInv, Scanning
<1> QED BY <1>1 DEF FrontInv

\* A comment is printed because the location reached is at or behind its place.
LEMMA EmitCommentFront ==
  ASSUME IInv, EmitInv, FrontInv, EmitComment
  PROVE  FrontInv'
<1>1. PICK i \in Reached :
        /\ emitted_comments' = emitted_comments \cup {i}
        /\ Cardinality(comments[i].before) \in Nat /\ Cardinality(comments[i].after) \in Nat
        /\ IsEmitted(output', output, Cardinality(comments[i].before), i,
                     Cardinality(comments[i].after))
  BY EmitCommentOutput
<1>2. /\ phase = "emit" /\ phase' = "emit" /\ query' = query /\ comments' = comments
      /\ stmt_location' = stmt_location /\ location' = location
  BY DEF EmitComment, scan
<1>3. /\ i \in DOMAIN comments /\ i \notin emitted_comments /\ i \in Int
      /\ comments[i].match_location <= location /\ comments[i].match_location \in Nat
  BY CommentType DEF Reached, IInv
<1>4. PICK b \in Nat, c \in Nat : IsEmitted(output', output, b, i, c)
  BY <1>1
<1>5. PICK n \in Nat, at \in Nat : n = Len(output) /\ at = Len(output) + b + 1
  BY DEF IInv, TypeOK
<1>6. /\ DOMAIN output' = 1 .. n + b + 1 + c /\ DOMAIN output = 1 .. n
      /\ Len(output') = n + b + 1 + c /\ n < at
      /\ \A k \in DOMAIN output : k \in DOMAIN output' /\ output'[k] = output[k]
      /\ output'[at] = <<"comment", i>>
      /\ \A k \in DOMAIN output' : IsComment(k)' => (k \in DOMAIN output /\ IsComment(k)) \/ k = at
      /\ \A k \in DOMAIN output' \ DOMAIN output : k # at => output'[k] = <<"newline", 0>>
  <2>1. /\ DOMAIN output' = 1 .. Len(output) + b + 1 + c /\ DOMAIN output = 1 .. Len(output)
        /\ Len(output) \in Nat /\ Len(output') = Len(output) + b + 1 + c
        /\ \A k \in DOMAIN output : k \in DOMAIN output' /\ output'[k] = output[k]
        /\ output'[Len(output) + b + 1] = <<"comment", i>>
        /\ \A k \in DOMAIN output' : IsComment(k)' =>
             (k \in DOMAIN output /\ IsComment(k)) \/ k = Len(output) + b + 1
        /\ \A k \in DOMAIN output' \ DOMAIN output :
             k # Len(output) + b + 1 => output'[k] = <<"newline", 0>>
    BY <1>3, <1>4, EmitCommentItems
  <2>2. n < at
    BY <1>5
  <2> QED BY <1>5, <2>1, <2>2
<1>7. \A k \in DOMAIN output' \ DOMAIN output : output'[k][1] # "text" /\ output'[k][1] # "word"
  BY <1>6
<1>8. \A k \in DOMAIN output' : IsText(k)' => k \in DOMAIN output /\ IsText(k)
  BY <1>6, <1>7 DEF IsText
<1>9. /\ \A k \in DOMAIN output : (IsComment(k)' <=> IsComment(k)) /\ (IsText(k)' <=> IsText(k))
      /\ \A a, d \in DOMAIN output : IsComment(a)' /\ PrintedBehind(a, d)' =>
           StoodInFront(output[a][2], output[d][2])' /\ NoWord(a, d - 1)'
  BY <1>2, <1>5, <1>6, FrontStays
<1>10. \A d \in DOMAIN output' : IsText(d)' => output'[d][2] \in Nat
  BY <1>6, <1>8 DEF FrontInv
<1>11. ASSUME NEW a \in DOMAIN output', NEW d \in DOMAIN output', IsComment(a)',
              PrintedBehind(a, d)'
       PROVE  StoodInFront(output[a][2], output[d][2])' /\ NoWord(a, d - 1)'
  <2>1. a < d /\ IsText(d)'
    BY <1>11 DEF PrintedBehind
  <2>2. d \in DOMAIN output
    BY <1>8, <2>1
  <2>3. a \in DOMAIN output
    BY <1>6, <2>1, <2>2
  <2> QED BY <1>9, <1>11, <2>2, <2>3
<1>12. ASSUME NEW a \in DOMAIN output', Pending(a)'
       PROVE  /\ phase' = "emit" /\ ReachedIn(stmt_location, output[a][2], location)'
              /\ NoWord(a, Len(output))'
  <2>1. CASE a \in DOMAIN output
    <3>1. \A d \in a + 1 .. n : d \in DOMAIN output /\ d \in a + 1 .. Len(output')
      BY <1>6, <2>1
    <3>2. Pending(a)
      BY <1>5, <1>9, <1>12, <2>1, <3>1 DEF Pending
    <3>3. ReachedIn(stmt_location, output[a][2], location) /\ NoWord(a, n)
      BY <1>5, <2>1, <3>2 DEF FrontInv
    <3>4. \A d \in a + 1 .. Len(output') :
            d \in a + 1 .. n \/ d \in DOMAIN output' \ DOMAIN output
      BY <1>6, <2>1
    <3>5. NoWord(a, Len(output))'
      BY <1>6, <1>7, <3>1, <3>3, <3>4 DEF NoWord
    <3> QED BY <1>2, <1>6, <2>1, <3>3, <3>5 DEF ReachedIn
  <2>2. CASE a \notin DOMAIN output
    <3>1. a = at
      BY <1>6, <1>12, <2>2 DEF Pending
    <3>2. output'[a][2] = i
      BY <1>6, <3>1
    <3>3. i \notin PlacedBefore(stmt_location) /\ stmt_location \in Nat
      BY <1>2, <1>3 DEF EmitInv, Current, IInv, Located
    <3>4. stmt_location <= comments[i].match_location
      BY <1>3, <3>3 DEF PlacedBefore
    <3>5. ReachedIn(stmt_location, output[a][2], location)'
      BY <1>2, <1>3, <3>2, <3>4 DEF ReachedIn
    <3>6. \A d \in a + 1 .. Len(output') : d \in DOMAIN output' \ DOMAIN output
      BY <1>6, <3>1
    <3>7. NoWord(a, Len(output))'
      BY <1>7, <3>6 DEF NoWord
    <3> QED BY <1>2, <3>5, <3>7
  <2> QED BY <2>1, <2>2
<1> QED BY <1>10, <1>11, <1>12 DEF FrontInv

\* The text that pending comments were looked up for is printed behind them.
LEMMA EmitTextFront ==
  ASSUME IInv, ScanInv, EmitInv, FrontInv, EmitText
  PROVE  FrontInv'
<1>1. /\ phase = "emit" /\ phase' = "visit" /\ query' = query /\ comments' = comments
      /\ location' = location /\ output' = Append(output, <<"text", location>>)
  BY DEF EmitText, scan, state
<1>2. location \in Nat
  <2>1. /\ location \in Locations(stmt_location, visited) /\ stmt_location \in Nat
        /\ \A q \in visited : q - 1 \in Nat
    <3>1. visited \subseteq 1 .. Len(query) /\ Len(query) \in Nat /\ stmt_location \in Nat
      BY <1>1 DEF IInv, TypeOK, Located
    <3> QED BY <1>1, <3>1 DEF EmitInv, Current
  <2> QED BY <2>1 DEF Locations
<1>3. PICK x : x = <<"text", location>>
  OBVIOUS
<1>4. /\ x \in {"comment", "newline", "text", "word"} \X Int
      /\ output \in Seq({"comment", "newline", "text", "word"} \X Int)
      /\ x[1] = "text" /\ x[2] = location
  BY <1>2, <1>3 DEF IInv, TypeOK
<1>5. PICK n \in Nat, at \in Nat : n = Len(output) /\ at = n + 1
  BY <1>4
<1>6. /\ DOMAIN output = 1 .. n /\ DOMAIN output' = 1 .. at /\ Len(output') = at
      /\ \A k \in DOMAIN output : output'[k] = output[k]
      /\ output'[at] = x
  BY <1>1, <1>3, <1>4, <1>5
<1>7. /\ \A k \in DOMAIN output : (IsComment(k)' <=> IsComment(k)) /\ (IsText(k)' <=> IsText(k))
      /\ \A i, l : StoodInFront(i, l)' <=> StoodInFront(i, l)
      /\ \A a, d \in DOMAIN output : IsComment(a)' /\ PrintedBehind(a, d)' =>
           StoodInFront(output[a][2], output[d][2])' /\ NoWord(a, d - 1)'
  BY <1>1, <1>5, <1>6, FrontStays
<1>8. \A k \in DOMAIN output' : k \in DOMAIN output \/ k = at
  BY <1>5, <1>6
<1>9. ~IsComment(at)' /\ IsText(at)'
  BY <1>4, <1>6 DEF IsComment, IsText
<1>10. \A d \in DOMAIN output' : IsText(d)' => output'[d][2] \in Nat
  BY <1>2, <1>4, <1>6, <1>7, <1>8 DEF FrontInv
<1>11. ASSUME NEW a \in DOMAIN output', NEW d \in DOMAIN output', IsComment(a)',
              PrintedBehind(a, d)'
       PROVE  StoodInFront(output[a][2], output[d][2])' /\ NoWord(a, d - 1)'
  <2>1. a \in DOMAIN output
    BY <1>8, <1>9, <1>11
  <2>2. CASE d \in DOMAIN output
    BY <1>7, <1>11, <2>1, <2>2
  <2>3. CASE d = at
    <3>1. \A c \in a + 1 .. n : c \in DOMAIN output /\ c \in a + 1 .. d - 1
      BY <1>5, <1>6, <2>1, <2>3
    <3>2. Pending(a)
      BY <1>5, <1>7, <1>11, <2>1, <3>1 DEF Pending, PrintedBehind
    <3>3. ReachedIn(stmt_location, output[a][2], location) /\ NoWord(a, n)
      BY <1>5, <2>1, <3>2 DEF FrontInv
    <3>4. output[a][2] \in DOMAIN comments
      BY <2>1, <3>2 DEF IInv, TypeOK, Behind, Pending
    <3>5. StoodInFront(output[a][2], location)
      BY <1>1, <3>3, <3>4, StandsInFront
    <3>6. output'[a] = output[a] /\ output'[d][2] = location
      BY <1>4, <1>6, <2>1, <2>3
    <3>7. \A c \in a + 1 .. d - 1 : c \in a + 1 .. n
      BY <1>5, <2>3
    <3>8. NoWord(a, d - 1)'
      BY <1>6, <3>1, <3>3, <3>7 DEF NoWord
    <3>9. StoodInFront(output[a][2], output[d][2])'
      BY <1>7, <3>5, <3>6
    <3> QED BY <3>8, <3>9
  <2> QED BY <1>8, <2>2, <2>3
<1>12. \A a \in DOMAIN output' : ~Pending(a)'
  <2> SUFFICES ASSUME NEW a \in DOMAIN output', Pending(a)' PROVE FALSE
    OBVIOUS
  <2>1. a \in DOMAIN output
    BY <1>8, <1>9 DEF Pending
  <2>2. at \in a + 1 .. Len(output')
    BY <1>5, <1>6, <2>1
  <2> QED BY <1>9, <2>2 DEF Pending
<1> QED BY <1>10, <1>11, <1>12 DEF FrontInv

\* A word is printed behind the text of the comments before it.
LEMMA PrintWordFront ==
  ASSUME IInv, FrontInv, PrintWord
  PROVE  FrontInv'
<1>1. phase = "visit" /\ query' = query /\ comments' = comments
  BY DEF PrintWord, scan
<1>2. PICK n \in Nat : n = Len(output)
  BY DEF IInv, TypeOK
<1>3. /\ DOMAIN output = 1 .. n /\ DOMAIN output' = 1 .. n + 1 /\ Len(output') = n + 1
      /\ \A k \in DOMAIN output : output'[k] = output[k] /\ k \in DOMAIN output'
      /\ \A k \in DOMAIN output' :
           /\ IsComment(k)' => k \in DOMAIN output /\ IsComment(k)
           /\ IsText(k)' => k \in DOMAIN output /\ IsText(k)
  BY <1>2, PrintWordOutput
<1>4. /\ \A k \in DOMAIN output : (IsComment(k)' <=> IsComment(k)) /\ (IsText(k)' <=> IsText(k))
      /\ \A a, d \in DOMAIN output : IsComment(a)' /\ PrintedBehind(a, d)' =>
           StoodInFront(output[a][2], output[d][2])' /\ NoWord(a, d - 1)'
  BY <1>1, <1>2, <1>3, FrontStays
<1>5. \A d \in DOMAIN output' : IsText(d)' => output'[d][2] \in Nat
  BY <1>3 DEF FrontInv
<1>6. \A a, d \in DOMAIN output' : IsComment(a)' /\ PrintedBehind(a, d)' =>
        StoodInFront(output[a][2], output[d][2])' /\ NoWord(a, d - 1)'
  BY <1>3, <1>4 DEF PrintedBehind
<1>7. \A a \in DOMAIN output' : ~Pending(a)'
  <2> SUFFICES ASSUME NEW a \in DOMAIN output', Pending(a)' PROVE FALSE
    OBVIOUS
  <2>1. a \in DOMAIN output /\ IsComment(a)
    BY <1>3 DEF Pending
  <2>2. \A c \in a + 1 .. n : c \in DOMAIN output /\ c \in a + 1 .. Len(output')
    BY <1>3, <2>1
  <2>3. Pending(a)
    BY <1>2, <1>4, <2>1, <2>2 DEF Pending
  <2> QED BY <1>1, <2>1, <2>3 DEF FrontInv
<1> QED BY <1>5, <1>6, <1>7 DEF FrontInv

LEMMA NextFrontInv == IInv /\ (ScanInv /\ EmitInv) /\ FrontInv /\ [Next]_vars => FrontInv'
<1> SUFFICES ASSUME IInv, ScanInv, EmitInv, FrontInv, [Next]_vars PROVE FrontInv'
  OBVIOUS
<1>1. CASE Scanned \/ DeparseRawStmt \/ VisitNode \/ StmtEnds \/ Done
  <2>1. phase # "emit" /\ query' = query /\ comments' = comments /\ output' = output
    BY <1>1 DEF Scanned, DeparseRawStmt, VisitNode, StmtEnds, Done, scan
  <2> QED BY <2>1, SilentFront
<1>2. CASE UNCHANGED vars
  <2>1. /\ phase' = phase /\ stmt_location' = stmt_location /\ location' = location
        /\ query' = query /\ comments' = comments /\ output' = output
    BY <1>2 DEF vars, scan, state
  <2> QED BY <2>1, SilentFront
<1> QED BY <1>1, <1>2, ScanFront, EmitCommentFront, EmitTextFront, PrintWordFront DEF Next

\* Code that a comment is placed behind stands between it and the nodes in front of that.
LEMMA PlacesShown ==
  ASSUME IInv, ScanInv, FrontInv
  PROVE  CommentsInFront
<1> SUFFICES ASSUME NEW a \in DOMAIN output, IsComment(a)
             PROVE  LET p == comments[output[a][2]].at
                    IN  /\ \A b \in 1 .. a - 1 : IsText(b) => CodeBetween(output[b][2], p)
                        /\ \A b \in DOMAIN output : PrintedBehind(a, b) =>
                             /\ ~CodeBetween(output[b][2], p) /\ Within(p, output[b][2])
                             /\ \A c \in a + 1 .. b - 1 : output[c][1] # "word"
  BY DEF CommentsInFront
<1>1. PICK i \in DOMAIN comments : i = output[a][2]
  BY DEF IInv, TypeOK, Behind
<1>2. PICK p \in Nat, m \in Nat : p = comments[i].at /\ m = comments[i].match_location
  BY CommentAt, CommentType DEF IInv
<1>3. m < p /\ (m = 0 \/ IsCode(m))
  BY <1>2 DEF ScanInv, AllFound, Found
<1>4. ASSUME NEW b \in 1 .. a - 1, IsText(b) PROVE CodeBetween(output[b][2], p)
  <2>1. b \in DOMAIN output /\ b < a
    <3>1. DOMAIN output = 1 .. Len(output) /\ Len(output) \in Nat
      BY DEF IInv, TypeOK
    <3> QED BY <3>1
  <2>2. PICK l \in Nat : l = output[b][2]
    BY <1>4, <2>1 DEF FrontInv
  <2>3. l < m
    BY <1>1, <1>2, <1>4, <2>1, <2>2 DEF IInv, NodesInFront
  <2>4. m \in l + 1 .. p /\ m # 0
    BY <1>3, <2>3
  <2> QED BY <1>3, <2>2, <2>4 DEF CodeBetween, IsCode
<1>5. ASSUME NEW b \in DOMAIN output, PrintedBehind(a, b)
      PROVE  /\ ~CodeBetween(output[b][2], p) /\ Within(p, output[b][2])
             /\ \A c \in a + 1 .. b - 1 : output[c][1] # "word"
  <2>1. StoodInFront(i, output[b][2]) /\ NoWord(a, b - 1)
    BY <1>1, <1>5 DEF FrontInv
  <2> QED BY <1>2, <2>1 DEF StoodInFront, NoWord
<1> QED BY <1>1, <1>2, <1>4, <1>5

-----------------------------------------------------------------------------
(* Newlines.                                                                 *)

\* No newline is counted twice.
LEMMA CountedOnce ==
  ASSUME IInv, ScanInv
  PROVE  /\ \A i \in DOMAIN comments : comments[i].before \cap comments[i].after = {}
         /\ \A i, j \in DOMAIN comments : i # j =>
              (comments[i].before \cup comments[i].after)
                \cap (comments[j].before \cup comments[j].after) = {}
<1>1. ASSUME NEW i \in DOMAIN comments
      PROVE  /\ comments[i].at \in Nat /\ query[comments[i].at] \in CommentTokens
             /\ query[comments[i].at] \in Tokens
             /\ \A p \in comments[i].before : p \in 1 .. Len(query) /\ InFrontOf(p, comments[i].at)
             /\ \A p \in comments[i].after : p \in 1 .. Len(query) /\ BehindOf(p, comments[i].at)
  <2>1. Found(comments[i])
    BY DEF ScanInv, AllFound
  <2>2. /\ comments[i].before \subseteq 1 .. Len(query) /\ comments[i].after \subseteq 1 .. Len(query)
        /\ comments[i].at \in 1 .. Len(query) /\ comments[i].at \in Nat
    BY CommentType, CommentAt DEF IInv
  <2> QED BY <2>1, <2>2, CommentIsToken DEF Found
<1>2. ASSUME NEW i \in DOMAIN comments, NEW p \in comments[i].before, p \in comments[i].after
      PROVE  FALSE
  BY <1>1, <1>2 DEF InFrontOf, BehindOf
<1>3. ASSUME NEW i \in DOMAIN comments, NEW j \in DOMAIN comments, i < j,
             NEW p \in comments[i].before \cup comments[i].after,
             p \in comments[j].before \cup comments[j].after
      PROVE  FALSE
  <2> DEFINE s == comments[i].at
  <2> DEFINE t == comments[j].at
  <2>1. s \in Nat /\ t \in Nat /\ s < t /\ query[s] \in CommentTokens
        /\ query[s] \in Tokens /\ query[t] \in Tokens /\ p \in Nat /\ p >= 1 /\ s >= 1
    <3>1. s < t
      BY <1>3 DEF ScanInv, AllFound
    <3>2. p \in 1 .. Len(query) /\ s \in 1 .. Len(query)
      BY <1>1, CommentAt DEF IInv
    <3> QED BY <1>1, <3>1, <3>2
  <2>2. CASE p \in comments[i].before /\ p \in comments[j].before
    <3>1. p < s /\ NoToken(p + 1, t - 1)
      BY <2>2, <1>1 DEF InFrontOf
    <3>2. s \in p + 1 .. t - 1
      BY <3>1, <2>1
    <3> QED BY <3>1, <3>2, <2>1 DEF NoToken
  <2>3. CASE p \in comments[i].before /\ p \in comments[j].after
    <3>1. p < s /\ t < p
      BY <2>3, <1>1 DEF InFrontOf, BehindOf
    <3> QED BY <3>1, <2>1
  <2>4. CASE p \in comments[i].after /\ p \in comments[j].before
    <3>1. /\ s < p /\ NoToken(s + 1, p)
          /\ \A r \in 1 .. p : query[r] \in CommentTokens => ~NoToken(r + 1, p)
      BY <2>4, <1>1 DEF InFrontOf, BehindOf
    <3>2. s \in 1 .. p
      BY <3>1, <2>1
    <3> QED BY <3>1, <3>2, <2>1
  <2>5. CASE p \in comments[i].after /\ p \in comments[j].after
    <3>1. t < p /\ NoToken(s + 1, p)
      BY <2>5, <1>1 DEF BehindOf
    <3>2. t \in s + 1 .. p
      BY <3>1, <2>1
    <3> QED BY <3>1, <3>2, <2>1 DEF NoToken
  <2> QED BY <1>3, <2>2, <2>3, <2>4, <2>5
<1>4. \A i \in DOMAIN comments : i \in Nat
  BY CommentType DEF IInv
<1>5. ASSUME NEW i \in DOMAIN comments, NEW j \in DOMAIN comments, i # j
      PROVE  (comments[i].before \cup comments[i].after)
               \cap (comments[j].before \cup comments[j].after) = {}
  <2>1. i < j \/ j < i
    BY <1>4, <1>5
  <2> QED BY <2>1, <1>3
<1> QED BY <1>2, <1>5

\* A newline among comments is counted for one of them.
LEMMA CountedAtAll ==
  ASSUME IInv, ScanInv, phase # "scan", NEW p \in 1 .. Len(query), NEW i \in DOMAIN comments,
         query[p] = "newline", p > comments[i].match_location,
         \A q \in comments[i].match_location + 1 .. p :
           query[q] \in CommentTokens \cup {"newline", "return"},
         TokenAfter(p) <= Len(query)
  PROVE  \E j \in DOMAIN comments : p \in comments[j].before \cup comments[j].after
<1> DEFINE m == comments[i].match_location
<1>1. /\ TypeOK /\ Len(query) \in Nat /\ m \in Nat /\ pos \in Nat /\ p \in Nat /\ p > m
      /\ query[p] \notin Tokens
  BY CommentType, BreakIsNoToken, SMTT(30) DEF IInv, TypeOK
<1>2. /\ comments[i].at \in Nat /\ comments[i].at <= pos /\ m < comments[i].at
      /\ query[comments[i].at] \in CommentTokens
      /\ NoCode(m + 1, comments[i].at) /\ (m = 0 \/ IsCode(m)) /\ pos <= Len(query)
  BY CommentAt DEF IInv, ScanInv, AllFound, Found, Prior
<1>3. \A r \in 1 .. Len(query) :
        query[r] \in CommentTokens => \E j \in DOMAIN comments : comments[j].at = r
  <2> TAKE r \in 1 .. Len(query)
  <2> HAVE query[r] \in CommentTokens
  <2>1. query[r] \in Tokens
    BY CommentIsToken
  <2>2. r <= pos
    <3> SUFFICES ASSUME r > pos PROVE FALSE
      BY <1>1
    <3>1. r \in pos + 1 .. Len(query)
      BY <1>1
    <3> QED BY <2>1, <3>1 DEF ScanInv, AllScanned, NoToken
  <2> QED BY <2>2, <1>1 DEF ScanInv, AllFound
<1>4. \A q \in m + 1 .. p : query[q] \in Tokens => query[q] \in CommentTokens
  BY BreakIsNoToken
<1> HIDE DEF m
<1>5. CASE \E r \in m + 1 .. p : query[r] \in CommentTokens
  <2>1. PICK r \in m + 1 .. p : /\ query[r] \in CommentTokens
                               /\ \A s \in r + 1 .. p : query[s] \notin CommentTokens
    <3>1. m + 1 \in Nat
      BY <1>1
    <3> QED BY <3>1, <1>1, <1>5, LastComment
  <2>2. r \in 1 .. Len(query) /\ r # p /\ r < p
    BY <2>1, <1>1, CommentIsToken
  <2>3. PICK j \in DOMAIN comments : comments[j].at = r
    BY <2>1, <2>2, <1>3
  <2>4. NoToken(r + 1, p)
    <3> SUFFICES ASSUME NEW s \in r + 1 .. p PROVE query[s] \notin Tokens
      BY DEF NoToken
    <3>1. s \in m + 1 .. p
      BY <1>1, <2>1
    <3> QED BY <3>1, <2>1, <1>4
  <2>5. BehindOf(p, r)
    BY <2>2, <2>4 DEF BehindOf
  <2> QED BY <2>3, <2>5 DEF ScanInv, AllFound, Found
<1>6. CASE \A r \in m + 1 .. p : query[r] \notin CommentTokens
  <2> DEFINE q == TokenAfter(p)
  <2>1. q \in Nat /\ q > p /\ query[q] \in Tokens /\ NoToken(p + 1, q - 1)
        /\ \A r \in p + 1 .. Len(query) : query[r] \in Tokens => q <= r
    BY <1>1, NextToken
  <2> HIDE DEF q
  <2>2. comments[i].at > p
    <3> SUFFICES ASSUME comments[i].at <= p PROVE FALSE
      BY <1>1, <1>2
    <3>1. comments[i].at \in m + 1 .. p
      BY <1>1, <1>2
    <3> QED BY <3>1, <1>2, <1>6
  <2>3. q <= comments[i].at
    <3>1. comments[i].at \in p + 1 .. Len(query) /\ query[comments[i].at] \in Tokens
      BY <2>2, <1>1, <1>2, CommentIsToken
    <3> QED BY <3>1, <2>1
  <2>4. query[q] \in CommentTokens
    <3>1. q \in m + 1 .. comments[i].at
      BY <2>1, <2>3, <1>1, <1>2
    <3> QED BY <3>1, <2>1, <1>2 DEF NoCode, IsCode
  <2>5. PICK j \in DOMAIN comments : comments[j].at = q
    <3>1. q \in 1 .. Len(query)
      BY <2>1, <2>3, <1>1, <1>2
    <3> QED BY <3>1, <2>4, <1>3
  <2>6. ASSUME NEW r \in 1 .. p, query[r] \in CommentTokens PROVE ~NoToken(r + 1, p)
    <3>1. r <= m
      <4> SUFFICES ASSUME r > m PROVE FALSE
        BY <1>1
      <4>1. r \in m + 1 .. p
        BY <1>1
      <4> QED BY <4>1, <2>6, <1>6
    <3>2. IsCode(m) /\ r # m
      BY <3>1, <2>6, <1>1, <1>2 DEF IsCode
    <3>3. m \in r + 1 .. p /\ query[m] \in Tokens
      BY <3>1, <3>2, <1>1 DEF IsCode
    <3> QED BY <3>3 DEF NoToken
  <2>7. InFrontOf(p, q)
    BY <2>1, <2>6 DEF InFrontOf
  <2> QED BY <2>5, <2>7 DEF ScanInv, AllFound, Found
<1> QED BY <1>5, <1>6

-----------------------------------------------------------------------------
(* The theorems.                                                             *)

\* The invariant holds of every query and at every step.
THEOREM Invariant == Spec => []IInv
BY InitIInv, NextIInv, PTL DEF Spec

\* Comments of a query of any length come back at most once and in its order.
THEOREM CommentsOnceInOrderTheorem == Spec => []CommentsOnceInOrder
<1>1. IInv => CommentsOnceInOrder
  BY DEF IInv
<1> QED BY <1>1, Invariant, PTL

\* What the scan found, and what is put back, hold at every step too.
THEOREM ScanAndEmit == Spec => [](ScanInv /\ EmitInv)
BY InitIInv, NextIInv, InitScanInv, NextScanInv, NextEmitInv, PTL DEF Spec

\* In a query of any length a comment comes back in front of the node or statement it stood
\* in front of, right before it, and behind nodes only that stood in front of it.
THEOREM CommentsInFrontTheorem == Spec => []CommentsInFront
<1>1. Init => FrontInv
  BY DEF Init, InitOn, FrontInv
<1>2. IInv /\ (ScanInv /\ EmitInv) /\ FrontInv => CommentsInFront
  BY PlacesShown
<1> QED BY <1>1, <1>2, NextFrontInv, Invariant, ScanAndEmit, PTL DEF Spec

\* Of a query of any length those comments come back, and only those, that a statement
\* begins in front of and goes on behind.
THEOREM EmittedWhenReachedTheorem == Spec => []EmittedWhenReached
<1>1. IInv /\ EmitInv => EmittedWhenReached
  <2> SUFFICES ASSUME IInv, EmitInv, phase = "done" PROVE EmittedWhenReached
    BY DEF EmittedWhenReached
  <2>1. PutBack \subseteq DOMAIN comments
    BY DEF PutBack, IInv, TypeOK, Behind
  <2>2. \A s \in Stmts : s \in Stmts \ Later /\ SettledOf(s) = Locations(s, Nodes(s))
    BY DEF EmitInv, Current, SettledOf
  <2>3. \A i \in DOMAIN comments : \A s \in Stmts : \A l \in Locations(s, Nodes(s)) :
          ReachedIn(s, i, l) => i \in PutBack
    BY <2>2 DEF EmitInv, AllReached
  <2>4. \A i \in PutBack : \E s \in Stmts : \E l \in Locations(s, Nodes(s)) : ReachedIn(s, i, l)
    BY DEF EmitInv, OnlyReached
  <2>5. PutBack = {i \in DOMAIN comments :
                     \E s \in Stmts : \E l \in Locations(s, Nodes(s)) : ReachedIn(s, i, l)}
    BY <2>1, <2>3, <2>4
  <2> QED BY <2>5 DEF PutBack, EmittedWhenReached, ReachedIn, Locations
<1> QED BY <1>1, Invariant, ScanAndEmit, PTL

\* In a query of any length a newline next to comments is counted once.
THEOREM NewlinesOnceTheorem == Spec => []NewlinesOnce
<1>1. IInv /\ ScanInv => NewlinesOnce
  BY CountedOnce, CountedAtAll DEF NewlinesOnce
<1> QED BY <1>1, Invariant, ScanAndEmit, PTL

\* Where lines end with a newline, a line comment put back ends its line.
THEOREM LineCommentsEndTheorem ==
  ASSUME "return" \notin Breaks PROVE Spec => []LineCommentsEnd
<1>1. Init => LineCommentsEnd
  BY DEF Init, InitOn, LineCommentsEnd
<1>2. IInv /\ (ScanInv /\ EmitInv) /\ LineCommentsEnd /\ [Next]_vars => LineCommentsEnd'
  BY NextLineCommentsEnd
<1> QED BY <1>1, <1>2, Invariant, ScanAndEmit, PTL DEF Spec
=============================================================================
