-------------------------- MODULE HtmlParserProofs --------------------------
(***************************************************************************)
(* Theorems about HtmlParser, for any documents, whether or not they are   *)
(* well nested, and any names of tags and attributes.                      *)
(*                                                                         *)
(* The argument about levels counts tags: addElement looks at the last tag *)
(* only, and yet a level is the number of the opening tags minus that of   *)
(* the closing ones.                                                       *)
(*                                                                         *)
(* The argument about findAll gives each element of a list a chain of tags *)
(* that satisfy the filters so far, and keeps the lists in the order of    *)
(* the document.  It needs the levels: a tag that is one level below the   *)
(* element before it is an opening one (ChildIsInside).                    *)
(***************************************************************************)
EXTENDS HtmlParser, FiniteSetTheorems, SequenceTheorems, WellFoundedInduction, TLAPS

Labels == {"between", "body", "slashed", "void", "filter", "descend"}

Tags == [id : Ids \cup {None}, closing : BOOLEAN, attributes : AttrLists \cup {<<>>}, level : Int]

(* The part of TypeOK about the document; a tag that is not in the list has level 0. *)
Types ==
  /\ open \in Seq(Ids) /\ nested \in BOOLEAN
  /\ htmlTag \in Tags /\ htmlTag.level = 0
  /\ pc \in {"body", "slashed", "void"} => htmlTag.id \in Ids
  /\ m_htmlTags \in Seq(Tags)
  /\ pc \in Labels

(* How many tags in front of position i are opening, or closing. *)
Opening(i) == Cardinality(Before(i, FALSE))
Closing(i) == Cardinality(Before(i, TRUE))

(* Opening tags in the list minus closing ones. *)
Depth == Opening(Len(m_htmlTags) + 1) - Closing(Len(m_htmlTags) + 1)

(* How far the list is ahead of the elements that are open: a closing tag closes its
   element when it begins, a slash comes before its tag, and an element that html.y
   closes is never open. *)
Ahead ==
  CASE pc = "body" /\ htmlTag.closing -> 1
    [] pc = "slashed" -> -1
    [] pc = "void" -> 1
    [] OTHER -> 0

NestingInv ==
  nested => /\ Depth = Len(open) + Ahead
            /\ pc = "slashed" => ~htmlTag.closing /\ htmlTag.id \notin Voids

(* A tag for which html.y adds a closing one is an opening one. *)
VoidInv == pc = "void" => htmlTag.id \in Voids /\ ~htmlTag.closing

(* The inductive invariant. *)
IInv == Types /\ LevelsAreDepths /\ NestingInv /\ VoidInv

-----------------------------------------------------------------------------
(* Tags in front of a position. *)
LEMMA BeforeFinite ==
  ASSUME NEW i \in Nat, NEW c
  PROVE  IsFiniteSet(Before(i, c)) /\ Cardinality(Before(i, c)) \in Nat
<1>1. IsFiniteSet(1 .. i - 1)
  BY FS_Interval
<1>2. Before(i, c) \subseteq 1 .. i - 1
  BY DEF Before
<1>3. IsFiniteSet(Before(i, c))
  BY <1>1, <1>2, FS_Subset
<1> QED
  BY <1>3, FS_CardinalityType

LEMMA BeforeNext ==
  ASSUME NEW i \in Nat, NEW c
  PROVE  Cardinality(Before(i, c) \cup {i}) = Cardinality(Before(i, c)) + 1
<1>1. i \notin Before(i, c)
  BY DEF Before
<1>2. IsFiniteSet(Before(i, c))
  BY BeforeFinite
<1> QED
  BY <1>1, <1>2, FS_AddElement

LEMMA Counts == \A i \in Nat : Opening(i) \in Nat /\ Closing(i) \in Nat
BY BeforeFinite, Zenon DEF Opening, Closing

LEMMA NextCounts ==
  ASSUME NEW i \in Nat \ {0}, m_htmlTags[i].closing \in BOOLEAN
  PROVE  /\ Opening(i + 1) = IF m_htmlTags[i].closing THEN Opening(i) ELSE Opening(i) + 1
         /\ Closing(i + 1) = IF m_htmlTags[i].closing THEN Closing(i) + 1 ELSE Closing(i)
<1>1. /\ Before(i + 1, FALSE) = IF m_htmlTags[i].closing THEN Before(i, FALSE)
                               ELSE Before(i, FALSE) \cup {i}
      /\ Before(i + 1, TRUE) = IF m_htmlTags[i].closing THEN Before(i, TRUE) \cup {i}
                              ELSE Before(i, TRUE)
  BY DEF Before
<1>2. CASE m_htmlTags[i].closing
  BY <1>1, <1>2, BeforeNext, Zenon DEF Opening, Closing
<1>3. CASE ~m_htmlTags[i].closing
  BY <1>1, <1>3, BeforeNext, Zenon DEF Opening, Closing
<1> QED
  BY <1>2, <1>3

LEMMA FirstCounts == Opening(1) = 0 /\ Closing(1) = 0
<1>1. Before(1, FALSE) = {} /\ Before(1, TRUE) = {}
  BY DEF Before
<1> QED
  BY <1>1, FS_EmptySet, Zenon DEF Opening, Closing

(* A tag that is new. *)
LEMMA TagIsTag ==
  ASSUME NEW id \in Ids \cup {None}, NEW closing \in BOOLEAN,
         NEW attributes \in AttrLists \cup {<<>>}
  PROVE  LET x == Tag(id, closing, attributes)
         IN  x \in Tags /\ x.level = 0 /\ x.closing = closing /\ x.id = id
BY DEF Tag, Tags

(* addElement keeps the levels right and changes the depth by one. *)
LEMMA AddElementKeeps ==
  ASSUME Types, LevelsAreDepths, NEW x \in Tags, x.level = 0, AddElement(x)
  PROVE  /\ m_htmlTags' \in Seq(Tags)
         /\ LevelsAreDepths'
         /\ Depth' = Depth + (IF x.closing THEN -1 ELSE 1)
<1>0. PICK n \in Nat : n = Len(m_htmlTags)
  BY LenProperties DEF Types
<1>a. PICK level : level = IF n = 0 THEN 0 ELSE Level(m_htmlTags[n], x.closing)
  OBVIOUS
<1>b. PICK y : y = [x EXCEPT !.level = level]
  OBVIOUS
<1>1. /\ m_htmlTags \in Seq(Tags) /\ n \in Nat
      /\ \A i \in 1 .. n : m_htmlTags[i] \in Tags
      /\ Positions = 1 .. n
      /\ m_htmlTags = <<>> <=> n = 0
  BY <1>0 DEF Types, Positions
<1>2. level \in Int /\ x.closing \in BOOLEAN
  BY <1>1, <1>a DEF Level, Tags
<1>3. y \in Tags /\ y.level = level /\ y.closing = x.closing
  BY <1>2, <1>b DEF Tags
<1>4. m_htmlTags' = Append(m_htmlTags, y)
  <2>1. CASE n = 0
    <3>1. level = 0 /\ m_htmlTags' = Append(m_htmlTags, x)
      BY <1>1, <1>a, <2>1 DEF AddElement
    <3>2. y = x
      BY <1>b, <3>1 DEF Tags
    <3> QED
      BY <3>1, <3>2
  <2>2. CASE n # 0
    BY <1>0, <1>1, <1>a, <1>b, <2>2 DEF AddElement
  <2> QED
    BY <2>1, <2>2
<1>5. /\ m_htmlTags' \in Seq(Tags) /\ Len(m_htmlTags') = n + 1
      /\ \A i \in 1 .. n : m_htmlTags'[i] = m_htmlTags[i]
      /\ m_htmlTags'[n + 1] = y
  BY <1>1, <1>3, <1>4, <1>0, AppendProperties
<1>6. Positions' = 1 .. n + 1
  BY <1>1, <1>5 DEF Positions
<1>7. ASSUME NEW i \in 1 .. n + 1
      PROVE  Opening(i)' = Opening(i) /\ Closing(i)' = Closing(i)
  <2>1. Before(i, FALSE)' = Before(i, FALSE) /\ Before(i, TRUE)' = Before(i, TRUE)
    BY <1>1, <1>5 DEF Before
  <2> QED
    BY <2>1, Zenon DEF Opening, Closing
<1>8. /\ Opening(n + 2)' = IF x.closing THEN Opening(n + 1) ELSE Opening(n + 1) + 1
      /\ Closing(n + 2)' = IF x.closing THEN Closing(n + 1) + 1 ELSE Closing(n + 1)
  <2>1. /\ Before(n + 2, FALSE)' = IF x.closing THEN Before(n + 1, FALSE)
                                  ELSE Before(n + 1, FALSE) \cup {n + 1}
        /\ Before(n + 2, TRUE)' = IF x.closing THEN Before(n + 1, TRUE) \cup {n + 1}
                                 ELSE Before(n + 1, TRUE)
    BY <1>1, <1>2, <1>3, <1>5 DEF Before
  <2>2. n + 1 \in Nat
    OBVIOUS
  <2>3. CASE x.closing
    BY <2>1, <2>2, <2>3, BeforeNext, Zenon DEF Opening, Closing
  <2>4. CASE ~x.closing
    BY <2>1, <2>2, <2>4, BeforeNext, Zenon DEF Opening, Closing
  <2> QED
    BY <2>3, <2>4
<1>9. /\ Opening(n) \in Nat /\ Closing(n) \in Nat
      /\ Opening(n + 1) \in Nat /\ Closing(n + 1) \in Nat
  BY Counts
<1>10. Depth' = Depth + (IF x.closing THEN -1 ELSE 1)
  <2>1. Depth' = Opening(n + 2)' - Closing(n + 2)'
    <3>1. (Len(m_htmlTags) + 1)' = n + 2
      BY <1>0, <1>1, <1>5
    <3> QED
      BY <3>1 DEF Depth, Opening, Closing, Before
  <2>2. Depth = Opening(n + 1) - Closing(n + 1)
    BY <1>0 DEF Depth
  <2> QED
    BY <1>2, <1>8, <1>9, <2>1, <2>2
(* The level of the new tag. *)
<1>c. PICK first : first = IF m_htmlTags'[1].closing THEN 1 ELSE 0
  OBVIOUS
<1>11. level = Opening(n + 1) - Closing(n + 2)' + first
  <2>1. CASE n = 0
    <3>1. level = 0 /\ first = IF x.closing THEN 1 ELSE 0
      BY <1>3, <1>5, <1>a, <1>c, <2>1
    <3>2. Opening(n + 1) = 0 /\ Closing(n + 1) = 0
      BY <2>1, FirstCounts
    <3> QED
      BY <1>2, <1>8, <3>1, <3>2
  <2>2. CASE n # 0
    <3>a. PICK last : last = m_htmlTags[n]
      OBVIOUS
    <3>1. /\ n \in Positions /\ last \in Tags /\ n \in Nat \ {0}
          /\ m_htmlTags'[1] = m_htmlTags[1]
      BY <1>1, <1>5, <2>2, <3>a
    <3>2. last.level = Opening(n) - Closing(n + 1) + first
      BY <1>c, <3>1, <3>a DEF LevelsAreDepths, Opening, Closing
    <3>3. last.closing \in BOOLEAN /\ last.level \in Int /\ first \in {0, 1}
      BY <1>c, <3>1 DEF Tags
    <3>4. Opening(n + 1) = IF last.closing THEN Opening(n) ELSE Opening(n) + 1
      BY <3>1, <3>3, <3>a, NextCounts
    <3>5. level = IF last.closing
                  THEN IF x.closing THEN last.level - 1 ELSE last.level
                  ELSE IF x.closing THEN last.level ELSE last.level + 1
      <4>1. level = Level(last, x.closing)
        BY <1>a, <2>2, <3>a
      <4> QED
        BY <1>2, <3>3, <4>1 DEF Level
    <3> QED
      BY <1>2, <1>8, <1>9, <3>2, <3>3, <3>4, <3>5
  <2> QED
    BY <2>1, <2>2
<1>12. LevelsAreDepths'
  <2>1. ASSUME NEW i \in 1 .. n + 1
        PROVE  m_htmlTags'[i].level = Opening(i)' - Closing(i + 1)' + first
    <3>1. CASE i = n + 1
      <4>1. m_htmlTags'[i].level = level /\ Opening(i)' = Opening(n + 1)
        BY <1>1, <1>3, <1>5, <1>7, <3>1
      <4>2. Closing(i + 1)' = Closing(n + 2)'
        <5>1. i + 1 = n + 2
          BY <3>1
        <5> QED
          BY <5>1, Zenon
      <4> QED
        BY <1>11, <4>1, <4>2
    <3>2. CASE i # n + 1
      <4>1. /\ i \in Positions /\ m_htmlTags'[i] = m_htmlTags[i] /\ m_htmlTags'[1] = m_htmlTags[1]
            /\ i + 1 \in 1 .. n + 1
        BY <1>1, <1>5, <3>2
      <4>2. Opening(i)' = Opening(i) /\ Closing(i + 1)' = Closing(i + 1)
        BY <1>7, <4>1
      <4>3. m_htmlTags[i].level = Opening(i) - Closing(i + 1) + first
        BY <1>c, <4>1 DEF LevelsAreDepths, Opening, Closing
      <4> QED
        BY <4>1, <4>2, <4>3
    <3> QED
      BY <3>1, <3>2
  <2> QED
    BY <1>6, <1>c, <2>1, Zenon DEF LevelsAreDepths, Opening, Closing
<1> QED
  BY <1>5, <1>10, <1>12

-----------------------------------------------------------------------------
LEMMA InitIInv == Init => IInv
<1> SUFFICES ASSUME Init PROVE IInv
  OBVIOUS
<1>1. Types
  BY DEF Init, Types, Labels, Tag, Tags
<1>2. LevelsAreDepths
  BY DEF Init, LevelsAreDepths, Positions
<1>3. Depth = 0 /\ Len(open) = 0 /\ Ahead = 0
  BY FirstCounts DEF Init, Depth, Ahead
<1>4. NestingInv /\ VoidInv
  BY <1>3 DEF NestingInv, VoidInv, Init
<1> QED
  BY <1>1, <1>2, <1>4 DEF IInv

LEMMA DepthInt == Types => Depth \in Int
<1> SUFFICES ASSUME Types PROVE Depth \in Int
  OBVIOUS
<1>1. Len(m_htmlTags) + 1 \in Nat
  BY LenProperties DEF Types
<1>2. Opening(Len(m_htmlTags) + 1) \in Nat /\ Closing(Len(m_htmlTags) + 1) \in Nat
  BY <1>1, Counts
<1> QED
  BY <1>2 DEF Depth

(* A step that leaves the list of tags alone leaves levels and depth alone. *)
LEMMA ListKept ==
  ASSUME LevelsAreDepths, UNCHANGED m_htmlTags
  PROVE  LevelsAreDepths' /\ Depth' = Depth
BY DEF LevelsAreDepths, Positions, Depth, Opening, Closing, Before

LEMMA OpenTagKeeps ==
  ASSUME IInv, NEW id \in Ids, NEW a \in AttrLists, OpenTag(id, a)
  PROVE  IInv'
<1>1. Types'
  <2>1. htmlTag' \in Tags /\ htmlTag'.level = 0 /\ htmlTag'.id \in Ids
    BY DEF OpenTag, Tag, Tags
  <2> QED
    BY <2>1 DEF IInv, Types, OpenTag, Labels
<1>2. LevelsAreDepths' /\ Depth' = Depth
  BY ListKept DEF IInv, OpenTag
<1>3. Ahead = 0 /\ Ahead' = 0 /\ pc' = "body" /\ UNCHANGED <<open, nested>>
  BY DEF Ahead, OpenTag, Tag
<1> QED
  BY <1>1, <1>2, <1>3 DEF IInv, NestingInv, VoidInv

LEMMA CloseTagKeeps ==
  ASSUME IInv, NEW id \in Ids, CloseTag(id)
  PROVE  IInv'
<1>1. /\ htmlTag' \in Tags /\ htmlTag'.level = 0
      /\ htmlTag'.closing /\ htmlTag'.id \in Ids
  BY DEF CloseTag, Tag, Tags
<1>2. LevelsAreDepths' /\ Depth' = Depth
  BY ListKept DEF IInv, CloseTag
<1>3. Ahead = 0 /\ Ahead' = 1 /\ pc' = "body"
  BY <1>1 DEF Ahead, CloseTag
<1>4. /\ open' \in Seq(Ids) /\ nested' \in BOOLEAN
      /\ nested' => nested /\ Len(open) = Len(open') + 1
  <2>1. CASE open # <<>> /\ open[Len(open)] = id
    <3>1. open \in Seq(Ids) /\ Len(open) \in Nat /\ Len(open) # 0 /\ nested \in BOOLEAN
      BY <2>1, EmptySeq, LenProperties DEF IInv, Types
    <3>2. SubSeq(open, 1, Len(open) - 1) \in Seq(Ids)
          /\ Len(SubSeq(open, 1, Len(open) - 1)) = Len(open) - 1
      <4>1. 1 \in 1 .. Len(open) + 1 /\ Len(open) - 1 \in 1 - 1 .. Len(open)
        BY <3>1
      <4>2. PICK k : k = Len(open) - 1
        OBVIOUS
      <4>3. SubSeq(open, 1, k) \in Seq(Ids) /\ Len(SubSeq(open, 1, k)) = k - 1 + 1
        BY <3>1, <4>1, <4>2, SubSeqProperties
      <4> QED
        BY <3>1, <4>2, <4>3
    <3>3. nested' = nested /\ open' = IF nested THEN SubSeq(open, 1, Len(open) - 1) ELSE open
      BY <2>1 DEF CloseTag, Opens
    <3> QED
      BY <3>1, <3>2, <3>3
  <2>2. CASE ~(open # <<>> /\ open[Len(open)] = id)
    BY <2>2, EmptySeq DEF CloseTag, Breaks
  <2> QED
    BY <2>1, <2>2
<1>5. Types'
  BY <1>1, <1>4 DEF IInv, Types, CloseTag, Labels
<1>6. NestingInv'
  <2> SUFFICES ASSUME nested' PROVE Depth' = Len(open') + 1
    BY <1>3 DEF NestingInv
  <2>1. Depth = Len(open)
    BY <1>3, <1>4, LenProperties DEF IInv, Types, NestingInv
  <2> QED
    BY <1>2, <1>4, <2>1
<1> QED
  BY <1>2, <1>3, <1>5, <1>6 DEF IInv, VoidInv

LEMMA SlashKeeps == IInv /\ Slash => IInv'
<1> SUFFICES ASSUME IInv, Slash PROVE IInv'
  OBVIOUS
<1>1. PICK x \in Tags : x = Tag(htmlTag.id, TRUE, <<>>) /\ x.level = 0 /\ x.closing
  BY TagIsTag DEF IInv, Types, Tags
<1>2. AddElement(x)
  BY <1>1 DEF Slash
<1>3. m_htmlTags' \in Seq(Tags) /\ LevelsAreDepths' /\ Depth' = Depth - 1
  <2>1. Depth' = Depth + (IF x.closing THEN -1 ELSE 1) /\ Depth \in Int
    BY <1>1, <1>2, AddElementKeeps, DepthInt DEF IInv
  <2> QED
    BY <1>1, <1>2, <2>1, AddElementKeeps DEF IInv
<1>4. Ahead' = -1 /\ pc' = "slashed" /\ htmlTag' = htmlTag /\ htmlTag.id \in Ids
  BY HtmlParserAssumption DEF Ahead, Slash
<1>5. /\ open' \in Seq(Ids) /\ nested' \in BOOLEAN
      /\ nested' => /\ nested /\ open' = open
                    /\ pc = "body" /\ ~htmlTag.closing /\ htmlTag.id \notin Voids
  <2>1. CASE pc = "body" /\ ~htmlTag.closing /\ htmlTag.id \notin Voids
    BY <2>1 DEF Slash, Opens, IInv, Types
  <2>2. CASE ~(pc = "body" /\ ~htmlTag.closing /\ htmlTag.id \notin Voids)
    BY <2>2, EmptySeq DEF Slash, Breaks
  <2> QED
    BY <2>1, <2>2
<1>6. Types'
  BY <1>3, <1>4, <1>5 DEF IInv, Types, Labels
<1>7. NestingInv'
  <2> SUFFICES ASSUME nested' PROVE Depth' = Len(open') - 1
    BY <1>4, <1>5 DEF NestingInv
  <2>1. Depth = Len(open)
    BY <1>5, LenProperties DEF IInv, Types, NestingInv, Ahead
  <2> QED
    BY <1>3, <1>5, <2>1, LenProperties DEF IInv, Types
<1> QED
  BY <1>3, <1>4, <1>6, <1>7 DEF IInv, VoidInv

LEMMA OpenTagEndsKeeps == IInv /\ OpenTagEnds => IInv'
<1> SUFFICES ASSUME IInv, OpenTagEnds PROVE IInv'
  OBVIOUS
<1>1. htmlTag \in Tags /\ htmlTag.level = 0 /\ ~htmlTag.closing /\ AddElement(htmlTag)
  BY DEF IInv, Types, OpenTagEnds
<1>2. m_htmlTags' \in Seq(Tags) /\ LevelsAreDepths' /\ Depth' = Depth + 1
  <2>1. Depth' = Depth + (IF htmlTag.closing THEN -1 ELSE 1) /\ Depth \in Int
    BY <1>1, AddElementKeeps, DepthInt DEF IInv
  <2> QED
    BY <1>1, <2>1, AddElementKeeps DEF IInv
<1>3. /\ open \in Seq(Ids) /\ Len(open) \in Nat /\ nested \in BOOLEAN
      /\ htmlTag' = htmlTag /\ htmlTag.id \in Ids /\ nested' = nested
      /\ pc' = IF htmlTag.id \in Voids THEN "void" ELSE "between"
      /\ pc \in {"body", "slashed"}
  BY LenProperties DEF IInv, Types, OpenTagEnds, Opens
<1>4. nested => open' = IF htmlTag.id \in Voids \/ pc = "slashed" THEN open
                       ELSE Append(open, htmlTag.id)
  BY DEF OpenTagEnds, Opens
<1>5. ~nested => open' = open
  BY DEF OpenTagEnds, Opens
<1>6. CASE ~nested
  BY <1>1, <1>2, <1>3, <1>5, <1>6 DEF IInv, Types, Labels, NestingInv, VoidInv
<1>7. CASE nested /\ pc = "slashed"
  <2>1. htmlTag.id \notin Voids /\ Depth = Len(open) - 1
    BY <1>3, <1>7 DEF IInv, NestingInv, Ahead
  <2>2. open' = open /\ pc' = "between" /\ Ahead' = 0
    BY <1>3, <1>4, <1>7, <2>1 DEF Ahead
  <2>3. Types'
    BY <1>1, <1>2, <1>3, <2>2 DEF Types, Labels
  <2> QED
    BY <1>2, <1>3, <2>1, <2>2, <2>3 DEF IInv, NestingInv, VoidInv
<1>8. CASE nested /\ pc = "body" /\ htmlTag.id \in Voids
  <2>1. Depth = Len(open)
    BY <1>1, <1>3, <1>8 DEF IInv, NestingInv, Ahead
  <2>2. open' = open /\ pc' = "void" /\ Ahead' = 1
    BY <1>3, <1>4, <1>8 DEF Ahead
  <2>3. Types'
    BY <1>1, <1>2, <1>3, <2>2 DEF Types, Labels
  <2> QED
    BY <1>1, <1>2, <1>3, <1>8, <2>1, <2>2, <2>3 DEF IInv, NestingInv, VoidInv
<1>9. CASE nested /\ pc = "body" /\ htmlTag.id \notin Voids
  <2>1. Depth = Len(open)
    BY <1>1, <1>3, <1>9 DEF IInv, NestingInv, Ahead
  <2>2. open' = Append(open, htmlTag.id) /\ pc' = "between" /\ Ahead' = 0
    BY <1>3, <1>4, <1>9 DEF Ahead
  <2>3. htmlTag.id \in Ids
    BY <1>3
  <2>4. open' \in Seq(Ids) /\ Len(open') = Len(open) + 1
    BY <1>3, <2>2, <2>3, AppendProperties
  <2>5. Types'
    BY <1>1, <1>2, <1>3, <2>2, <2>4 DEF Types, Labels
  <2> QED
    BY <1>2, <1>3, <2>1, <2>2, <2>4, <2>5 DEF IInv, NestingInv, VoidInv
<1> QED
  BY <1>3, <1>6, <1>7, <1>8, <1>9

LEMMA AddClosingTagKeeps == IInv /\ AddClosingTag => IInv'
<1> SUFFICES ASSUME IInv, AddClosingTag PROVE IInv'
  OBVIOUS
<1>1. PICK x \in Tags : x = Tag(htmlTag.id, TRUE, <<>>) /\ x.level = 0 /\ x.closing
  BY TagIsTag DEF IInv, Types, Tags
<1>2. AddElement(x)
  BY <1>1 DEF AddClosingTag
<1>3. m_htmlTags' \in Seq(Tags) /\ LevelsAreDepths' /\ Depth' = Depth - 1
  <2>1. Depth' = Depth + (IF x.closing THEN -1 ELSE 1) /\ Depth \in Int
    BY <1>1, <1>2, AddElementKeeps, DepthInt DEF IInv
  <2> QED
    BY <1>1, <1>2, <2>1, AddElementKeeps DEF IInv
<1>4. /\ Ahead = 1 /\ Ahead' = 0 /\ pc' = "between"
      /\ UNCHANGED <<open, nested, htmlTag>>
  BY DEF Ahead, AddClosingTag
<1>5. Types'
  BY <1>3, <1>4 DEF IInv, Types, Labels
<1> QED
  BY <1>3, <1>4, <1>5, LenProperties DEF IInv, Types, NestingInv, VoidInv

LEMMA CloseTagEndsKeeps == IInv /\ CloseTagEnds => IInv'
<1> SUFFICES ASSUME IInv, CloseTagEnds PROVE IInv'
  OBVIOUS
<1>1. htmlTag \in Tags /\ htmlTag.level = 0 /\ htmlTag.closing /\ AddElement(htmlTag)
  BY DEF IInv, Types, CloseTagEnds
<1>2. m_htmlTags' \in Seq(Tags) /\ LevelsAreDepths' /\ Depth' = Depth - 1
  <2>1. Depth' = Depth + (IF htmlTag.closing THEN -1 ELSE 1) /\ Depth \in Int
    BY <1>1, AddElementKeeps, DepthInt DEF IInv
  <2> QED
    BY <1>1, <2>1, AddElementKeeps DEF IInv
<1>3. /\ Ahead' = 0 /\ pc' = "between" /\ pc \in {"body", "slashed"}
      /\ UNCHANGED <<open, nested, htmlTag>>
  BY DEF Ahead, CloseTagEnds
<1>4. Types'
  BY <1>2, <1>3 DEF IInv, Types, Labels
<1>5. nested => Depth = Len(open) + 1
  BY <1>1, <1>3 DEF IInv, NestingInv, Ahead
<1> QED
  BY <1>2, <1>3, <1>4, <1>5, LenProperties DEF IInv, Types, NestingInv, VoidInv

(* A search leaves the document alone. *)
LEMMA SearchKeeps ==
  ASSUME IInv, UNCHANGED document, pc \in {"between", "filter", "descend"},
         pc' \in {"between", "filter", "descend"}
  PROVE  IInv'
<1>1. UNCHANGED <<open, nested, htmlTag, m_htmlTags>>
  BY DEF document
<1>2. LevelsAreDepths' /\ Depth' = Depth
  BY <1>1, ListKept DEF IInv
<1>3. Ahead = 0 /\ Ahead' = 0
  BY DEF Ahead
<1>4. Types'
  BY <1>1 DEF IInv, Types, Labels
<1> QED
  BY <1>1, <1>2, <1>3, <1>4 DEF IInv, NestingInv, VoidInv

LEMMA NextIInv == IInv /\ [Next]_vars => IInv'
<1> SUFFICES ASSUME IInv, [Next]_vars PROVE IInv'
  OBVIOUS
<1>1. CASE Parse
  BY <1>1, OpenTagKeeps, CloseTagKeeps, SlashKeeps, OpenTagEndsKeeps, AddClosingTagKeeps,
     CloseTagEndsKeeps DEF Parse
<1>2. CASE Find
  <2>1. /\ UNCHANGED document /\ pc \in {"filter", "descend"}
        /\ pc' \in {"between", "filter", "descend"}
    BY <1>2 DEF Find, FindDescendant, ChildMatches, OutsideElement, SetResults, WithAttr,
                WithAttrValue, FindAllReturns, CanFilter
  <2> QED
    BY <2>1, SearchKeeps
<1>3. ASSUME NEW id \in Ids, FindAll(id)
      PROVE  IInv'
  BY <1>3, SearchKeeps DEF FindAll
<1>4. CASE UNCHANGED vars
  <2>1. UNCHANGED <<open, nested, htmlTag, m_htmlTags, pc>>
    BY <1>4 DEF vars, document
  <2>2. LevelsAreDepths' /\ Depth' = Depth
    BY <2>1, ListKept DEF IInv
  <2>3. Ahead' = Ahead
    BY <2>1 DEF Ahead
  <2> QED
    BY <2>1, <2>2, <2>3 DEF IInv, Types, NestingInv, VoidInv
<1> QED
  BY <1>1, <1>2, <1>3, <1>4 DEF Next

LEMMA InvariantIInv == Spec => []IInv
BY InitIInv, NextIInv, PTL DEF Spec

-----------------------------------------------------------------------------
(* addElement looks at the tag before only, and yet the level of each tag is the
   number of the elements it is in, for any document (htmltaglist.cpp:34). *)
THEOREM LevelsKept == Spec => []LevelsAreDepths
<1>1. IInv => LevelsAreDepths
  BY DEF IInv
<1> QED
  BY <1>1, InvariantIInv, PTL

(* After a well nested part of a document, the level of the last tag is where the
   document is: what is void or closed by a slash changes nothing (html.y:52 to 73). *)
THEOREM NestingIsKept == Spec => []NestingKept
<1>1. IInv => NestingKept
  <2> SUFFICES ASSUME IInv, nested, pc = "between", m_htmlTags # <<>>
               PROVE  Len(open) = m_htmlTags[Len(m_htmlTags)].level
                                    + (IF m_htmlTags[Len(m_htmlTags)].closing THEN 0 ELSE 1)
                                    - (IF m_htmlTags[1].closing THEN 1 ELSE 0)
    BY DEF NestingKept
  <2>1. PICK n \in Nat : n = Len(m_htmlTags)
    BY LenProperties DEF IInv, Types
  <2>2. PICK last : last = m_htmlTags[n]
    OBVIOUS
  <2>3. PICK first : first = IF m_htmlTags[1].closing THEN 1 ELSE 0
    OBVIOUS
  <2>4. n # 0 /\ n \in Positions
    <3>1. n # 0
      BY <2>1, EmptySeq DEF IInv, Types
    <3> QED
      BY <2>1, <3>1 DEF IInv, Types, Positions
  <2>5. last.closing \in BOOLEAN /\ last.level \in Int /\ first \in {0, 1}
    <3>1. last \in Tags
      BY <2>1, <2>2, <2>4 DEF IInv, Types, Positions
    <3> QED
      BY <2>3, <3>1 DEF Tags
  <2>6. last.level = Opening(n) - Closing(n + 1) + first
    BY <2>2, <2>3, <2>4 DEF IInv, LevelsAreDepths, Opening, Closing
  <2>7. Opening(n + 1) = IF last.closing THEN Opening(n) ELSE Opening(n) + 1
    BY <2>2, <2>4, <2>5, NextCounts
  <2>8. Len(open) = Opening(n + 1) - Closing(n + 1)
    <3>1. Depth = Len(open) + 0
      BY DEF IInv, NestingInv, Ahead
    <3>2. Len(open) \in Nat
      BY LenProperties DEF IInv, Types
    <3> QED
      BY <2>1, <3>1, <3>2 DEF Depth
  <2>9. Opening(n) \in Nat /\ Closing(n + 1) \in Nat
    <3>1. n + 1 \in Nat
      BY <2>1
    <3> QED
      BY <2>1, <3>1, Counts, Zenon
  <2>10. Len(open) = last.level + (IF last.closing THEN 0 ELSE 1) - first
    BY <2>5, <2>6, <2>7, <2>8, <2>9
  <2> QED
    BY <2>1, <2>2, <2>3, <2>10
<1> QED
  BY <1>1, InvariantIInv, PTL

-----------------------------------------------------------------------------
(* The argument about findAll.  A finite set of numbers that is not empty has a least
   one: otherwise there would be a smallest subset without one. *)
LEMMA LeastExists ==
  ASSUME NEW S \in SUBSET Nat, IsFiniteSet(S), S # {}
  PROVE  \E x \in S : \A y \in S : x <= y
<1> DEFINE T == {U \in SUBSET S : U # {} /\ ~\E x \in U : \A y \in U : x <= y}
<1> SUFFICES ASSUME T # {} PROVE FALSE
  OBVIOUS
<1>1. IsWellFoundedOn(StrictSubsetOrdering(S), SUBSET S)
  BY FS_StrictSubsetOrderingWellFounded, FS_FiniteSubsetsOfFinite
<1>2. PICK U \in T : \A V \in T : <<V, U>> \notin StrictSubsetOrdering(S)
  <2>1. T \subseteq SUBSET S
    OBVIOUS
  <2> HIDE DEF T
  <2> QED
    BY <1>1, <2>1, WFMin
<1>3. PICK x \in U : TRUE
  BY <1>2
<1>4. CASE U \ {x} = {}
  BY <1>2, <1>3, <1>4
<1>5. CASE U \ {x} # {}
  <2>1. <<U \ {x}, U>> \in StrictSubsetOrdering(S)
    BY <1>3 DEF StrictSubsetOrdering
  <2>2. PICK m \in U \ {x} : \A y \in U \ {x} : m <= y
    BY <1>2, <1>5, <2>1
  <2>3. CASE m <= x
    BY <1>2, <1>3, <2>2, <2>3
  <2>4. CASE ~(m <= x)
    <3>1. \A y \in U : x <= y
      BY <1>2, <1>3, <2>2, <2>4
    <3> QED
      BY <1>2, <1>3, <3>1
  <2> QED
    BY <2>3, <2>4
<1> QED
  BY <1>4, <1>5

(* How many members of a set are at most i. *)
UpTo(S, i) == {j \in S : j <= i}
Count(S, i) == Cardinality(UpTo(S, i))

LEMMA UpToMember ==
  ASSUME NEW S \in SUBSET Nat, NEW i, NEW j
  PROVE  j \in UpTo(S, i) <=> j \in S /\ j \in Nat /\ j <= i
<1>1. \A k \in S : k \in Nat
  OBVIOUS
<1> QED
  BY <1>1, Zenon DEF UpTo

LEMMA CountNext ==
  ASSUME NEW S \in SUBSET Nat, NEW i \in Nat
  PROVE  /\ Count(S, i) \in Nat
         /\ Count(S, i + 1) = IF i + 1 \in S THEN Count(S, i) + 1 ELSE Count(S, i)
<1>1. IsFiniteSet(UpTo(S, i))
  <2>1. IsFiniteSet(0 .. i) /\ UpTo(S, i) \subseteq 0 .. i
    BY FS_Interval, UpToMember
  <2> QED
    BY <2>1, FS_Subset
<1>2. UpTo(S, i + 1) = IF i + 1 \in S THEN UpTo(S, i) \cup {i + 1} ELSE UpTo(S, i)
  <2>1. \A j \in Nat : j <= i + 1 <=> j <= i \/ j = i + 1
    OBVIOUS
  <2>2. \A j : j \in UpTo(S, i + 1) <=> j \in UpTo(S, i) \/ (j = i + 1 /\ i + 1 \in S)
    <3>1. ASSUME NEW j
          PROVE  j \in UpTo(S, i + 1) <=> j \in UpTo(S, i) \/ (j = i + 1 /\ i + 1 \in S)
      <4>1. /\ j \in UpTo(S, i + 1) <=> j \in S /\ j \in Nat /\ j <= i + 1
            /\ j \in UpTo(S, i) <=> j \in S /\ j \in Nat /\ j <= i
        BY UpToMember, Zenon
      <4> QED
        BY <2>1, <4>1
    <3> QED
      BY <3>1
  <2> QED
    BY <2>2
<1>3. i + 1 \notin UpTo(S, i)
  BY DEF UpTo
<1>4. CASE i + 1 \in S
  BY <1>1, <1>2, <1>3, <1>4, FS_AddElement, FS_CardinalityType DEF Count
<1>5. CASE i + 1 \notin S
  BY <1>1, <1>2, <1>5, FS_CardinalityType DEF Count
<1> QED
  BY <1>4, <1>5

LEMMA CountMono ==
  ASSUME NEW S \in SUBSET Nat, NEW i \in Nat, NEW j \in Nat, i <= j
  PROVE  Count(S, i) <= Count(S, j)
<1>1. IsFiniteSet(UpTo(S, j))
  <2>1. IsFiniteSet(0 .. j) /\ UpTo(S, j) \subseteq 0 .. j
    BY FS_Interval, UpToMember
  <2> QED
    BY <2>1, FS_Subset
<1>2. UpTo(S, i) \subseteq UpTo(S, j)
  BY UpToMember
<1> QED
  BY <1>1, <1>2, FS_Subset DEF Count

(* Each member of a set has a number, and each number up to their count a member. *)
LEMMA CountReaches ==
  ASSUME NEW m \in Nat, NEW S \in SUBSET (1 .. m), NEW n \in 1 .. Cardinality(S)
  PROVE  \E i \in S : Count(S, i) = n
<1>1. S \in SUBSET Nat
  OBVIOUS
<1>2. Count(S, m) = Cardinality(S) /\ Count(S, 0) = 0
  <2>0. \A j \in S : j \in 1 .. m
    OBVIOUS
  <2>1. UpTo(S, m) = S /\ UpTo(S, 0) = {}
    <3>1. \A j \in S : j \in Nat /\ j <= m /\ ~(j <= 0)
      BY <2>0
    <3> QED
      BY <3>1, Zenon DEF UpTo
  <2> QED
    BY <2>1, FS_EmptySet DEF Count
<1>3. Cardinality(S) \in Nat /\ n \in Nat /\ n >= 1
  BY <1>1, <1>2, CountNext
<1> DEFINE R == {i \in 0 .. m : Count(S, i) >= n}
<1>4. IsFiniteSet(R) /\ R \in SUBSET Nat
  <2>1. IsFiniteSet(0 .. m) /\ R \subseteq 0 .. m
    BY FS_Interval
  <2> QED
    BY <2>1, FS_Subset
<1>5. m \in R
  BY <1>2, <1>3
<1>6. PICK i \in R : \A j \in R : i <= j
  <2> HIDE DEF R
  <2> QED
    BY <1>4, <1>5, LeastExists
<1>7. i \in 0 .. m /\ Count(S, i) >= n /\ i # 0
  BY <1>2, <1>3, <1>6
<1>8. PICK k \in Nat : i = k + 1 /\ k \in 0 .. m /\ k \notin R
  <2>1. i - 1 \in Nat /\ i - 1 \in 0 .. m /\ ~(i <= i - 1)
    BY <1>7
  <2>2. i - 1 \notin R
    BY <1>6, <2>1
  <2> QED
    BY <1>7, <2>1, <2>2
<1>9. Count(S, k) \in Nat /\ ~(Count(S, k) >= n)
  BY <1>1, <1>8, CountNext
<1>10. Count(S, i) = IF i \in S THEN Count(S, k) + 1 ELSE Count(S, k)
  BY <1>1, <1>8, CountNext
<1> QED
  BY <1>3, <1>7, <1>9, <1>10

LEMMA InOrderIsSorted ==
  ASSUME NEW m \in Nat, NEW S \in SUBSET (1 .. m)
  PROVE  /\ InOrder(S) \in Seq(S)
         /\ \A i, j \in DOMAIN InOrder(S) : i < j => InOrder(S)[i] < InOrder(S)[j]
<1>1. PICK n : n = Cardinality(S)
  OBVIOUS
<1>2. n \in Nat
  <2>1. IsFiniteSet(1 .. m)
    BY FS_Interval
  <2>2. IsFiniteSet(S)
    BY <2>1, FS_Subset
  <2> QED
    BY <1>1, <2>2, FS_CardinalityType
<1>3. PICK s : s = InOrder(S)
  OBVIOUS
<1>4. DOMAIN s = 1 .. n
  BY <1>1, <1>3 DEF InOrder
<1>5. ASSUME NEW i \in 1 .. n
      PROVE  s[i] \in S /\ Count(S, s[i]) = i
  <2>1. s[i] = CHOOSE k \in S : Cardinality({j \in S : j <= k}) = i
    BY <1>1, <1>3 DEF InOrder
  <2>2. \E k \in S : Cardinality({j \in S : j <= k}) = i
    BY <1>1, CountReaches DEF Count, UpTo
  <2> QED
    BY <2>1, <2>2 DEF Count, UpTo
<1>6. s \in Seq(S)
  <2>1. s = [i \in 1 .. n |-> s[i]]
    BY <1>1, <1>3 DEF InOrder
  <2>2. s \in [1 .. n -> S]
    BY <1>5, <2>1
  <2> QED
    BY <1>2, <2>2, SeqDef
<1>7. ASSUME NEW i \in 1 .. n, NEW j \in 1 .. n, i < j
      PROVE  s[i] < s[j]
  <2>0. \A k \in S : k \in Nat
    OBVIOUS
  <2>1. s[i] \in Nat /\ s[j] \in Nat
    BY <1>5, <1>7, <2>0
  <2> SUFFICES ASSUME s[j] <= s[i] PROVE FALSE
    BY <2>1
  <2>2. Count(S, s[j]) <= Count(S, s[i])
    BY <2>1, CountMono
  <2> QED
    BY <1>2, <1>5, <1>7, <2>2
<1> QED
  BY <1>3, <1>4, <1>6, <1>7

(* A list of positions in the order of the document, each once. *)
Sorted(s) ==
  /\ s \in Seq(Positions)
  /\ \A i, j \in DOMAIN s : i < j => s[i] < s[j]

(* What is left of a sorted list is sorted and comes from it. *)
LEMMA LeaveKeeps ==
  ASSUME NEW m \in Nat, Positions = 1 .. m, Sorted(m_elements), UNCHANGED m_htmlTags,
         NEW S, Leave(S)
  PROVE  /\ Sorted(m_elements')
         /\ \A n \in DOMAIN m_elements' :
              m_elements'[n] \in S /\ \E k \in DOMAIN m_elements : m_elements'[n] = m_elements[k]
<1>1. PICK e : e = m_elements
  OBVIOUS
<1>2. PICK l \in Nat : l = Len(e)
  BY <1>1, LenProperties DEF Sorted
<1>3. e \in [1 .. l -> 1 .. m] /\ \A i, j \in 1 .. l : i < j => e[i] < e[j]
  BY <1>1, <1>2, LenProperties DEF Sorted
<1>4. PICK K : K = {n \in 1 .. l : e[n] \in S}
  OBVIOUS
<1>5. PICK left : left = InOrder(K)
  OBVIOUS
<1>6. left \in Seq(K) /\ \A i, j \in DOMAIN left : i < j => left[i] < left[j]
  BY <1>2, <1>4, <1>5, InOrderIsSorted
<1>7. PICK c \in Nat : c = Len(left)
  BY <1>6, LenProperties
<1>8. left \in [1 .. c -> K]
  BY <1>6, <1>7, LenProperties
<1>9. PICK f : f = m_elements'
  OBVIOUS
<1>10. f = [n \in 1 .. c |-> e[left[n]]]
  <2>1. {n \in DOMAIN m_elements : m_elements[n] \in S} = K
    BY <1>1, <1>3, <1>4
  <2>2. m_elements' = [n \in DOMAIN left |-> m_elements[left[n]]]
    BY <1>5, <2>1 DEF Leave
  <2> QED
    BY <1>1, <1>8, <1>9, <2>2
<1>11. ASSUME NEW n \in 1 .. c
       PROVE  left[n] \in 1 .. l /\ e[left[n]] \in S /\ f[n] = e[left[n]] /\ f[n] \in 1 .. m
  BY <1>3, <1>4, <1>8, <1>10
<1>12. f \in Seq(1 .. m)
  <2>1. f \in [1 .. c -> 1 .. m]
    BY <1>10, <1>11
  <2> QED
    BY <2>1, SeqDef
<1>13. ASSUME NEW i \in 1 .. c, NEW j \in 1 .. c, i < j
       PROVE  f[i] < f[j]
  <2>1. left[i] < left[j]
    BY <1>6, <1>8, <1>13
  <2> QED
    BY <1>3, <1>11, <2>1
<1>14. DOMAIN f = 1 .. c
  BY <1>10
<1>15. Sorted(m_elements')
  BY <1>9, <1>12, <1>13, <1>14 DEF Sorted, Positions
<1>16. ASSUME NEW n \in 1 .. c
       PROVE  f[n] \in S /\ \E k \in DOMAIN m_elements : f[n] = m_elements[k]
  BY <1>1, <1>3, <1>11, <1>16
<1> QED
  BY <1>9, <1>14, <1>15, <1>16

(* The value that getAttr returns is one of the tag. *)
LEMMA GetAttrFinds ==
  ASSUME NEW tag \in Tags, NEW name, HasAttr(tag, name)
  PROVE  \E k \in DOMAIN tag.attributes : tag.attributes[k] = <<name, GetAttr(tag, name)>>
<1>1. PICK attrs \in Seq(Names \X Values) : attrs = tag.attributes
  <2>1. tag.attributes \in AttrLists \cup {<<>>}
    BY DEF Tags
  <2> QED
    BY <2>1, EmptySeq, HtmlParserAssumption
<1>2. PICK l \in Nat : l = Len(attrs) /\ attrs \in [1 .. l -> Names \X Values]
  BY LenProperties
<1>3. PICK N : N = Named(tag, name)
  OBVIOUS
<1>4. N = {i \in 1 .. l : attrs[i][1] = name} /\ N # {}
  BY <1>1, <1>2, <1>3 DEF Named, HasAttr
<1>5. PICK first : first = CHOOSE i \in N : \A j \in N : i <= j
  OBVIOUS
<1>6. first \in N
  <2>1. IsFiniteSet(N) /\ N \in SUBSET Nat
    <3>1. IsFiniteSet(1 .. l) /\ N \subseteq 1 .. l
      BY <1>4, FS_Interval
    <3>2. \A i \in N : i \in Nat
      BY <1>4
    <3> QED
      BY <3>1, <3>2, FS_Subset
  <2>2. \E i \in N : \A j \in N : i <= j
    BY <1>4, <2>1, LeastExists
  <2> QED
    BY <1>5, <2>2
<1>7. GetAttr(tag, name) = attrs[first][2]
  BY <1>1, <1>3, <1>5 DEF GetAttr
<1>8. first \in 1 .. l /\ attrs[first] \in Names \X Values /\ attrs[first][1] = name
  BY <1>2, <1>4, <1>6
<1>9. attrs[first] = <<name, GetAttr(tag, name)>>
  BY <1>7, <1>8
<1> QED
  BY <1>1, <1>2, <1>8, <1>9

-----------------------------------------------------------------------------
Filters ==
  [kind : {"tag", "descendant"}, id : Ids] \cup [kind : {"attr"}, name : Names]
    \cup [kind : {"value"}, name : Names, value : Values]

(* The n-th tag of a chain satisfies the n-th filter of selector q. *)
Link(q, chain, n) ==
  /\ Satisfies(chain[n], q[n])
  /\ n > 1 => IF q[n].kind = "descendant" THEN Inside(chain[n - 1], chain[n])
             ELSE chain[n] = chain[n - 1]

(* Tag i is what the first n filters of q mean. *)
Chained(q, n, i) ==
  \E chain \in [1 .. n -> OpeningTags] :
    chain[n] = i /\ \A k \in 1 .. n : Link(q, chain, k)

(* The elements of list s are what the first n filters mean. *)
AllChained(q, n, s) == \A k \in DOMAIN s : Chained(q, n, s[k])

(* Between selectors nothing is kept.  What findDescendant has found comes before what
   it has still to look at, which satisfies all filters but the last. *)
SearchInv ==
  /\ query \in Seq(Filters) /\ Len(query) <= MaxFilters
  /\ pc \notin {"filter", "descend"} =>
       query = <<>> /\ m_elements = <<>> /\ newResults = <<>> /\ todo = <<>>
  /\ pc = "filter" =>
       /\ Len(query) > 0 /\ newResults = <<>> /\ todo = <<>>
       /\ Sorted(m_elements) /\ AllChained(query, Len(query), m_elements)
  /\ pc = "descend" =>
       /\ Len(query) > 1 /\ query[Len(query)].kind = "descendant"
       /\ Sorted(m_elements) /\ Sorted(newResults) /\ Sorted(todo)
       /\ AllChained(query, Len(query), newResults)
       /\ AllChained(query, Len(query) - 1, todo)
       /\ \A j \in DOMAIN newResults, k \in DOMAIN todo : newResults[j] <= todo[k]

(* A chain is one more filter long. *)
LEMMA ChainGrows ==
  ASSUME NEW n \in Nat \ {0}, NEW q, NEW r, \A k \in 1 .. n : r[k] = q[k],
         NEW i, Chained(q, n, i), NEW j \in OpeningTags, Satisfies(j, r[n + 1]),
         IF r[n + 1].kind = "descendant" THEN Inside(i, j) ELSE j = i
  PROVE  Chained(r, n + 1, j)
<1>1. PICK c \in [1 .. n -> OpeningTags] : c[n] = i /\ \A k \in 1 .. n : Link(q, c, k)
  BY DEF Chained
<1>2. PICK d : d = [k \in 1 .. n + 1 |-> IF k = n + 1 THEN j ELSE c[k]]
  OBVIOUS
<1>3. /\ d \in [1 .. n + 1 -> OpeningTags] /\ d[n + 1] = j
      /\ \A k \in 1 .. n : d[k] = c[k]
  <2>1. \A k \in 1 .. n + 1 : k # n + 1 => k \in 1 .. n
    OBVIOUS
  <2> QED
    BY <1>2, <2>1
<1>4. ASSUME NEW k \in 1 .. n
      PROVE  Link(r, d, k)
  <2>1. k \in 1 .. n /\ (k > 1 => k - 1 \in 1 .. n)
    BY <1>4
  <2>2. d[k] = c[k] /\ r[k] = q[k] /\ (k > 1 => d[k - 1] = c[k - 1])
    BY <1>3, <2>1
  <2>3. Link(q, c, k)
    BY <1>1, <2>1
  <2> QED
    BY <2>2, <2>3 DEF Link
<1>5. Link(r, d, n + 1)
  <2>1. d[(n + 1) - 1] = i /\ (n + 1) - 1 = n
    BY <1>1, <1>3
  <2> QED
    BY <1>3, <2>1 DEF Link
<1>6. \A k \in 1 .. n + 1 : Link(r, d, k)
  <2>1. \A k \in 1 .. n + 1 : k \in 1 .. n \/ k = n + 1
    OBVIOUS
  <2> QED
    BY <1>4, <1>5, <2>1
<1> QED
  BY <1>3, <1>6 DEF Chained

(* A filter that is added to a selector leaves what the others mean alone. *)
LEMMA ChainStays ==
  ASSUME NEW n \in Nat \ {0}, NEW q, NEW r, \A k \in 1 .. n : r[k] = q[k],
         NEW i, Chained(q, n, i)
  PROVE  Chained(r, n, i)
<1>1. PICK c \in [1 .. n -> OpeningTags] : c[n] = i /\ \A k \in 1 .. n : Link(q, c, k)
  BY DEF Chained
<1>2. \A k \in 1 .. n : Link(r, c, k)
  BY <1>1 DEF Link
<1> QED
  BY <1>1, <1>2 DEF Chained

LEMMA ChainedIsOpening ==
  ASSUME NEW n \in Nat \ {0}, NEW q, NEW i, Chained(q, n, i)
  PROVE  i \in OpeningTags
BY DEF Chained

(* A search leaves tags alone, and with them what a selector means. *)
LEMMA MeaningStays ==
  ASSUME UNCHANGED m_htmlTags
  PROVE  /\ Positions' = Positions /\ OpeningTags' = OpeningTags
         /\ \A s : Sorted(s)' <=> Sorted(s)
         /\ \A q, n, s : AllChained(q, n, s)' <=> AllChained(q, n, s)
<1>1. Positions' = Positions
  BY DEF Positions
<1>2. OpeningTags' = OpeningTags
  BY <1>1 DEF OpeningTags
<1>3. \A s : Sorted(s)' <=> Sorted(s)
  BY <1>1 DEF Sorted
<1>4. \A q, c, k : Link(q, c, k)' <=> Link(q, c, k)
  BY DEF Link, Satisfies, Inside, HasAttr, Named
<1>5. \A q, n, i : Chained(q, n, i)' <=> Chained(q, n, i)
  BY <1>2, <1>4 DEF Chained
<1>6. \A q, n, s : AllChained(q, n, s)' <=> AllChained(q, n, s)
  BY <1>5 DEF AllChained
<1> QED
  BY <1>1, <1>2, <1>3, <1>6

(* The list of tags in a search. *)
LEMMA PositionsAre ==
  ASSUME Types
  PROVE  Len(m_htmlTags) \in Nat /\ Positions = 1 .. Len(m_htmlTags)
BY LenProperties DEF Types, Positions

LEMMA FindAllKeeps ==
  ASSUME IInv, SearchInv, NEW id \in Ids, FindAll(id)
  PROVE  SearchInv'
<1>1. PICK m \in Nat : m = Len(m_htmlTags) /\ Positions = 1 .. m
  BY PositionsAre DEF IInv
<1>2. PICK S : S = {i \in Positions : m_htmlTags[i].id = id /\ ~m_htmlTags[i].closing}
  OBVIOUS
<1>3. PICK e : e = m_elements' /\ e = InOrder(S)
  BY <1>2 DEF FindAll
<1>4. e \in Seq(S) /\ \A i, j \in DOMAIN e : i < j => e[i] < e[j]
  BY <1>1, <1>2, <1>3, InOrderIsSorted
<1>5. PICK f : f = [kind |-> "tag", id |-> id]
  OBVIOUS
<1>6. f \in Filters /\ f.kind = "tag" /\ f.id = id
  BY <1>5 DEF Filters
<1>7. PICK q : q = query' /\ q = <<f>>
  BY <1>5 DEF FindAll
<1>8. q \in Seq(Filters) /\ Len(q) = 1 /\ q[1] = f
  BY <1>6, <1>7
<1>9. ASSUME NEW i \in S
      PROVE  Chained(q, 1, i)
  <2>1. PICK c : c = [k \in 1 .. 1 |-> i]
    OBVIOUS
  <2>2. i \in OpeningTags
    BY <1>2, <1>9 DEF OpeningTags
  <2>3. c \in [1 .. 1 -> OpeningTags] /\ c[1] = i
    BY <2>1, <2>2
  <2>4. Satisfies(i, f)
    BY <1>2, <1>6, <1>9 DEF Satisfies
  <2>5. Link(q, c, 1)
    BY <1>8, <2>3, <2>4 DEF Link
  <2> QED
    BY <2>3, <2>5 DEF Chained
<1>10. AllChained(q, 1, e)
  BY <1>4, <1>9 DEF AllChained
<1>11. Sorted(e)
  <2>1. e \in Seq(Positions)
    BY <1>2, <1>4
  <2> QED
    BY <1>4, <2>1 DEF Sorted
<1>12. Sorted(e)' /\ AllChained(q, 1, e)'
  BY <1>10, <1>11, MeaningStays DEF FindAll, document
<1>13. newResults' = <<>> /\ todo' = <<>> /\ pc' = "filter"
  BY DEF SearchInv, FindAll
<1>14. 1 <= MaxFilters
  BY HtmlParserAssumption
<1>15. Sorted(m_elements)' /\ AllChained(query, Len(query), m_elements)'
  <2>1. Len(query)' = 1
    BY <1>7, <1>8
  <2> QED
    BY <1>3, <1>7, <1>12, <2>1 DEF Sorted, AllChained
<1> QED
  BY <1>7, <1>8, <1>13, <1>14, <1>15 DEF SearchInv

(* A selector that goes on. *)
LEMMA FilterAppends ==
  ASSUME SearchInv, CanFilter, NEW f \in Filters, Filter(f)
  PROVE  \E n \in Nat \ {0}, q \in Seq(Filters), r \in Seq(Filters) :
           /\ q = query /\ r = query' /\ Len(q) = n /\ Len(r) = n + 1
           /\ n < MaxFilters /\ r[n + 1] = f /\ \A k \in 1 .. n : r[k] = q[k]
<1>1. PICK q \in Seq(Filters) : q = query
  BY DEF SearchInv
<1>2. PICK n \in Nat : n = Len(q)
  BY LenProperties
<1>3. n # 0 /\ n < MaxFilters
  BY <1>1, <1>2 DEF SearchInv, CanFilter
<1>4. PICK r : r = query' /\ r = Append(q, f)
  BY <1>1 DEF Filter
<1>5. r \in Seq(Filters) /\ Len(r) = n + 1 /\ r[n + 1] = f /\ \A k \in 1 .. n : r[k] = q[k]
  BY <1>2, <1>4, AppendProperties
<1> QED
  BY <1>1, <1>2, <1>3, <1>4, <1>5

LEMMA FindDescendantKeeps ==
  ASSUME IInv, SearchInv, NEW id \in Ids, FindDescendant(id)
  PROVE  SearchInv'
<1>0. PICK f : f = [kind |-> "descendant", id |-> id]
  OBVIOUS
<1>1. f \in Filters /\ f = [kind |-> "descendant", id |-> id] /\ f.kind = "descendant"
  BY <1>0 DEF Filters
<1>2. PICK n \in Nat \ {0}, q \in Seq(Filters), r \in Seq(Filters) :
        /\ q = query /\ r = query' /\ Len(q) = n /\ Len(r) = n + 1
        /\ n < MaxFilters /\ r[n + 1] = f /\ \A k \in 1 .. n : r[k] = q[k]
  BY <1>1, FilterAppends DEF FindDescendant
<1>3. PICK e : e = m_elements /\ e = todo' /\ e = m_elements'
  BY DEF FindDescendant
<1>4. Sorted(e) /\ AllChained(q, n, e)
  BY <1>2, <1>3 DEF SearchInv, FindDescendant, CanFilter
<1>5. AllChained(r, n, e)
  BY <1>2, <1>4, ChainStays DEF AllChained
<1>6. Sorted(e)' /\ AllChained(r, n, e)' /\ Sorted(<<>>)' /\ AllChained(r, n + 1, <<>>)'
  <2>1. Sorted(<<>>) /\ AllChained(r, n + 1, <<>>)
    BY DEF Sorted, AllChained
  <2> QED
    BY <1>4, <1>5, <2>1, MeaningStays DEF FindDescendant, document
<1>7. newResults' = <<>> /\ pc' = "descend"
  BY DEF FindDescendant
<1>8. PICK k : k = Len(query)' /\ k = n + 1 /\ k - 1 = n
  BY <1>2
<1>9. /\ Sorted(m_elements)' /\ Sorted(newResults)' /\ Sorted(todo)'
      /\ AllChained(query, Len(query), newResults)' /\ AllChained(query, Len(query) - 1, todo)'
  BY <1>2, <1>3, <1>6, <1>7, <1>8 DEF Sorted, AllChained
<1>10. /\ query' \in Seq(Filters) /\ Len(query') <= MaxFilters /\ Len(query') > 1
       /\ query'[Len(query')].kind = "descendant"
  BY <1>1, <1>2, HtmlParserAssumption
<1> QED
  BY <1>7, <1>9, <1>10 DEF SearchInv

(* E[name] and E[name=value] *)
LEMMA LeaveIsFilter ==
  ASSUME IInv, SearchInv, CanFilter, NEW f \in Filters, Filter(f), f.kind # "descendant",
         NEW S, Leave(S), \A i \in S : Satisfies(i, f),
         UNCHANGED <<document, newResults, todo, pc>>
  PROVE  SearchInv'
<1>1. PICK m \in Nat : Positions = 1 .. m
  BY PositionsAre DEF IInv
<1>2. PICK n \in Nat \ {0}, q \in Seq(Filters), r \in Seq(Filters) :
        /\ q = query /\ r = query' /\ Len(q) = n /\ Len(r) = n + 1
        /\ n < MaxFilters /\ r[n + 1] = f /\ \A k \in 1 .. n : r[k] = q[k]
  BY FilterAppends
<1>3. PICK d : d = m_elements /\ Sorted(d) /\ AllChained(q, n, d)
  BY <1>2 DEF SearchInv, CanFilter
<1>4. PICK e : e = m_elements'
  OBVIOUS
<1>5. /\ Sorted(e)
      /\ \A k \in DOMAIN e : e[k] \in S /\ \E j \in DOMAIN d : e[k] = d[j]
  <2>1. UNCHANGED m_htmlTags
    BY DEF document
  <2> QED
    BY <1>1, <1>3, <1>4, <2>1, LeaveKeeps
<1>6. AllChained(r, n + 1, e)
  <2>1. ASSUME NEW k \in DOMAIN e
        PROVE  Chained(r, n + 1, e[k])
    <3>1. Chained(q, n, e[k])
      BY <1>3, <1>5, <2>1 DEF AllChained
    <3>2. e[k] \in OpeningTags /\ Satisfies(e[k], r[n + 1]) /\ r[n + 1].kind # "descendant"
      BY <1>2, <1>5, <2>1, <3>1, ChainedIsOpening
    <3> QED
      BY <1>2, <3>1, <3>2, ChainGrows
  <2> QED
    BY <2>1 DEF AllChained
<1>7. Sorted(e)' /\ AllChained(r, n + 1, e)'
  BY <1>5, <1>6, MeaningStays DEF document
<1>8. newResults' = <<>> /\ todo' = <<>> /\ pc' = "filter"
  BY DEF SearchInv, CanFilter
<1>9. PICK k : k = Len(query)' /\ k = n + 1
  BY <1>2
<1>10. Sorted(m_elements)' /\ AllChained(query, Len(query), m_elements)'
  BY <1>2, <1>4, <1>7, <1>9 DEF Sorted, AllChained
<1>11. query' \in Seq(Filters) /\ Len(query') <= MaxFilters /\ Len(query') > 0
  BY <1>2, HtmlParserAssumption
<1> QED
  BY <1>8, <1>10, <1>11 DEF SearchInv

LEMMA WithAttrKeeps ==
  ASSUME IInv, SearchInv, NEW name \in Names, WithAttr(name)
  PROVE  SearchInv'
<1>1. PICK f : f = [kind |-> "attr", name |-> name]
  OBVIOUS
<1>2. f \in Filters /\ f.kind = "attr" /\ f.name = name
  BY <1>1 DEF Filters
<1>3. PICK S : S = {i \in Positions : HasAttr(m_htmlTags[i], name)}
  OBVIOUS
<1>4. \A i \in S : Satisfies(i, f)
  BY <1>2, <1>3 DEF Satisfies
<1>5. /\ CanFilter /\ Filter(f) /\ Leave(S)
      /\ UNCHANGED <<document, newResults, todo, pc>>
  BY <1>1, <1>3 DEF WithAttr
<1> QED
  BY <1>2, <1>4, <1>5, LeaveIsFilter

LEMMA WithAttrValueKeeps ==
  ASSUME IInv, SearchInv, NEW name \in Names, NEW value \in Values, WithAttrValue(name, value)
  PROVE  SearchInv'
<1>1. PICK f : f = [kind |-> "value", name |-> name, value |-> value]
  OBVIOUS
<1>2. f \in Filters /\ f.kind = "value" /\ f.name = name /\ f.value = value
  BY <1>1 DEF Filters
<1>3. PICK S : S = {i \in Positions : HasAttr(m_htmlTags[i], name)
                                       /\ GetAttr(m_htmlTags[i], name) = value}
  OBVIOUS
<1>4. ASSUME NEW i \in S
      PROVE  Satisfies(i, f)
  <2>1. m_htmlTags[i] \in Tags
    <3>1. i \in 1 .. Len(m_htmlTags) /\ m_htmlTags \in Seq(Tags)
      BY <1>3, <1>4, PositionsAre DEF IInv, Types
    <3> QED
      BY <3>1
  <2>2. HasAttr(m_htmlTags[i], name) /\ GetAttr(m_htmlTags[i], name) = value
    BY <1>3, <1>4
  <2>3. \E k \in DOMAIN m_htmlTags[i].attributes :
          m_htmlTags[i].attributes[k] = <<name, value>>
    BY <2>1, <2>2, GetAttrFinds
  <2> QED
    BY <1>2, <2>3 DEF Satisfies
<1>5. /\ CanFilter /\ Filter(f) /\ Leave(S)
      /\ UNCHANGED <<document, newResults, todo, pc>>
  BY <1>1, <1>3 DEF WithAttrValue
<1> QED
  BY <1>2, <1>4, <1>5, LeaveIsFilter

(* The tag one level below an element and behind it is opening, and in the element. *)
LEMMA ChildIsInside ==
  ASSUME IInv, NEW i \in OpeningTags, NEW j \in Positions, j = i + 1,
         m_htmlTags[j].level = m_htmlTags[i].level + 1
  PROVE  j \in OpeningTags /\ Inside(i, j)
<1>1. PICK m \in Nat : m = Len(m_htmlTags) /\ Positions = 1 .. m
  BY PositionsAre DEF IInv
<1>2. i \in 1 .. m /\ ~m_htmlTags[i].closing /\ j \in 1 .. m /\ m_htmlTags \in Seq(Tags)
  BY <1>1 DEF OpeningTags, IInv, Types
<1>3. PICK x \in Tags : x = m_htmlTags[i]
  BY <1>1, <1>2
<1>4. PICK y \in Tags : y = m_htmlTags[j]
  BY <1>1, <1>2
<1>5. x.level \in Int /\ y.level \in Int /\ y.closing \in BOOLEAN /\ y.level = x.level + 1
  BY <1>3, <1>4 DEF Tags
<1>6. PICK first : first = IF m_htmlTags[1].closing THEN 1 ELSE 0
  OBVIOUS
<1>7. first \in Int
  BY <1>6
<1>8. /\ x.level = Opening(i) - Closing(i + 1) + first
      /\ y.level = Opening(j) - Closing(j + 1) + first
  BY <1>1, <1>2, <1>3, <1>4, <1>6 DEF IInv, LevelsAreDepths, Opening, Closing
<1>9. Opening(j) = Opening(i) + 1
  <2>1. i \in Nat \ {0} /\ m_htmlTags[i].closing \in BOOLEAN /\ ~m_htmlTags[i].closing
    BY <1>2, <1>3 DEF Tags
  <2>2. Opening(i + 1) = Opening(i) + 1
    BY <2>1, NextCounts
  <2> QED
    BY <2>2
<1>10. Closing(j + 1) = IF y.closing THEN Closing(j) + 1 ELSE Closing(j)
  BY <1>2, <1>4, <1>5, NextCounts
<1>11. Closing(i + 1) = Closing(j)
  OBVIOUS
<1>12. Opening(i) \in Int /\ Closing(j) \in Int
  BY <1>2, Counts
<1>13. ~y.closing
  BY <1>5, <1>7, <1>8, <1>9, <1>10, <1>11, <1>12
<1>14. j \in OpeningTags
  BY <1>4, <1>13 DEF OpeningTags
<1>15. Inside(i, j)
  <2>1. i < j /\ \A k \in i + 1 .. j : k = j
    BY <1>2
  <2>2. m_htmlTags[j].level > m_htmlTags[i].level
    BY <1>3, <1>4, <1>5
  <2> QED
    BY <2>1, <2>2 DEF Inside
<1> QED
  BY <1>14, <1>15

(* What findDescendant has looked at leaves a sorted list. *)
LEMMA TailIsSorted ==
  ASSUME NEW s, Sorted(s), s # <<>>
  PROVE  /\ Sorted(Tail(s)) /\ s[1] \in Positions /\ 1 \in DOMAIN s
         /\ \A k \in DOMAIN Tail(s) :
              Tail(s)[k] > s[1] /\ \E j \in DOMAIN s : Tail(s)[k] = s[j]
<1>1. s \in Seq(Positions) /\ \A i, j \in DOMAIN s : i < j => s[i] < s[j]
  BY DEF Sorted
<1>2. PICK l \in Nat : l = Len(s) /\ l # 0
  BY <1>1, EmptySeq, LenProperties
<1>3. PICK t : t = Tail(s)
  OBVIOUS
<1>4. DOMAIN s = 1 .. l /\ s[1] \in Positions /\ 1 \in DOMAIN s
  BY <1>1, <1>2
<1>5. /\ t \in Seq(Positions) /\ DOMAIN t = 1 .. l - 1
      /\ \A k \in 1 .. l - 1 : t[k] = s[k + 1] /\ k + 1 \in 1 .. l
  BY <1>1, <1>2, <1>3
<1>6. ASSUME NEW i \in 1 .. l - 1, NEW j \in 1 .. l - 1, i < j
      PROVE  t[i] < t[j]
  <2>1. i + 1 < j + 1
    BY <1>6
  <2> QED
    BY <1>1, <1>4, <1>5, <2>1
<1>7. ASSUME NEW k \in 1 .. l - 1
      PROVE  t[k] > s[1] /\ \E j \in DOMAIN s : t[k] = s[j]
  <2>1. 1 < k + 1
    OBVIOUS
  <2>2. s[1] < s[k + 1]
    BY <1>1, <1>4, <1>5, <2>1
  <2> QED
    BY <1>4, <1>5, <2>2
<1> QED
  BY <1>3, <1>4, <1>5, <1>6, <1>7 DEF Sorted

(* findDescendant is done with an element. *)
LEMMA NextElement ==
  ASSUME SearchInv, pc = "descend", todo # <<>>, todo' = Tail(todo),
         UNCHANGED <<document, m_elements, query, pc>>,
         Sorted(newResults'), AllChained(query, Len(query), newResults'),
         \A j \in DOMAIN newResults' : newResults'[j] \in Positions /\ newResults'[j] <= todo[1] + 1,
         Positions \subseteq Nat
  PROVE  SearchInv'
<1>1. PICK t, u, d, e, q : /\ t = todo /\ u = todo' /\ d = newResults' /\ e = m_elements /\ q = query
                           /\ e = m_elements' /\ q = query'
  OBVIOUS
<1>2. /\ Sorted(t) /\ t # <<>> /\ u = Tail(t) /\ Sorted(d) /\ Sorted(e)
      /\ AllChained(q, Len(q), d) /\ AllChained(q, Len(q) - 1, t)
      /\ \A j \in DOMAIN d : d[j] \in Positions /\ d[j] <= t[1] + 1
  BY <1>1 DEF SearchInv
<1>3. /\ Sorted(u) /\ t[1] \in Positions
      /\ \A k \in DOMAIN u : u[k] > t[1] /\ \E j \in DOMAIN t : u[k] = t[j]
  BY <1>2, TailIsSorted
<1>4. AllChained(q, Len(q) - 1, u)
  BY <1>2, <1>3 DEF AllChained
<1>5. ASSUME NEW j \in DOMAIN d, NEW k \in DOMAIN u
      PROVE  d[j] <= u[k]
  <2>1. u[k] \in Positions
    BY <1>2, <1>3 DEF Sorted
  <2>2. d[j] \in Nat /\ t[1] \in Nat /\ u[k] \in Nat
    BY <1>2, <1>3, <2>1
  <2> QED
    BY <1>2, <1>3, <2>2
<1>6. /\ Sorted(u)' /\ Sorted(d)' /\ Sorted(e)'
      /\ AllChained(q, Len(q), d)' /\ AllChained(q, Len(q) - 1, u)'
  BY <1>2, <1>3, <1>4, MeaningStays DEF document
<1>7. /\ Sorted(m_elements)' /\ Sorted(newResults)' /\ Sorted(todo)'
      /\ AllChained(query, Len(query), newResults)' /\ AllChained(query, Len(query) - 1, todo)'
  BY <1>1, <1>6 DEF Sorted, AllChained
<1>8. \A j \in DOMAIN newResults', k \in DOMAIN todo' : newResults'[j] <= todo'[k]
  BY <1>1, <1>5
<1> QED
  BY <1>7, <1>8 DEF SearchInv

LEMMA ChildMatchesKeeps == IInv /\ SearchInv /\ ChildMatches => SearchInv'
<1> SUFFICES ASSUME IInv, SearchInv, ChildMatches PROVE SearchInv'
  OBVIOUS
<1>1. PICK m \in Nat : m = Len(m_htmlTags) /\ Positions = 1 .. m
  BY PositionsAre DEF IInv
<1>2. PICK t, d, q : t = todo /\ d = newResults /\ q = query
  OBVIOUS
<1>3. PICK n \in Nat : n = Len(q) /\ n > 1 /\ q \in Seq(Filters)
  BY <1>2, LenProperties DEF SearchInv, ChildMatches
<1>4. /\ Sorted(t) /\ t # <<>> /\ Sorted(d) /\ q[n].kind = "descendant"
      /\ AllChained(q, n, d) /\ AllChained(q, n - 1, t)
      /\ \A j \in DOMAIN d, k \in DOMAIN t : d[j] <= t[k]
  BY <1>2, <1>3 DEF SearchInv, ChildMatches
<1>5. PICK i : i = t[1]
  OBVIOUS
<1>6. PICK j : j = i + 1
  OBVIOUS
<1>7. i \in Positions /\ 1 \in DOMAIN t
  BY <1>4, <1>5, TailIsSorted
<1>8. /\ j \in Positions /\ m_htmlTags[j].level = m_htmlTags[i].level + 1
      /\ m_htmlTags[j].id = q[n].id
  BY <1>1, <1>2, <1>3, <1>5, <1>6, <1>7 DEF ChildMatches, After, Element
<1>9. Chained(q, n - 1, i)
  BY <1>4, <1>5, <1>7 DEF AllChained
<1>10. j \in OpeningTags /\ Inside(i, j)
  <2>1. n - 1 \in Nat \ {0}
    BY <1>3
  <2>2. i \in OpeningTags
    BY <1>9, <2>1, ChainedIsOpening
  <2> QED
    BY <1>6, <1>8, <2>2, ChildIsInside
<1>11. Chained(q, n, j)
  <2>1. PICK k \in Nat \ {0} : k = n - 1 /\ k + 1 = n
    BY <1>3
  <2>2. Satisfies(j, q[n])
    BY <1>4, <1>8 DEF Satisfies
  <2>3. Chained(q, k, i) /\ Satisfies(j, q[k + 1]) /\ q[k + 1].kind = "descendant"
    BY <1>4, <1>9, <2>1, <2>2
  <2>4. Chained(q, k + 1, j)
    BY <1>10, <2>3, ChainGrows
  <2> QED
    BY <2>1, <2>4
<1>12. PICK b : b = Append(d, j)
  OBVIOUS
<1>13. PICK l \in Nat : l = Len(d) /\ DOMAIN d = 1 .. l /\ d \in Seq(Positions)
  BY <1>4, LenProperties DEF Sorted
<1>14. /\ b \in Seq(Positions) /\ DOMAIN b = 1 .. l + 1 /\ b[l + 1] = j
       /\ \A k \in 1 .. l : b[k] = d[k]
  BY <1>8, <1>12, <1>13, AppendProperties
<1>15. ASSUME NEW k \in 1 .. l
       PROVE  b[k] \in Positions /\ b[k] <= i /\ Chained(q, n, b[k])
  BY <1>4, <1>5, <1>7, <1>13, <1>14, <1>15 DEF AllChained
<1>16. AllChained(q, n, b)
  <2>1. \A k \in DOMAIN b : k \in 1 .. l \/ k = l + 1
    BY <1>14
  <2> QED
    BY <1>11, <1>14, <1>15, <2>1 DEF AllChained
<1>17. \A k \in DOMAIN b : b[k] \in Positions /\ b[k] <= i + 1
  <2>1. ASSUME NEW k \in 1 .. l
        PROVE  b[k] <= i + 1
    <3>1. b[k] \in Nat /\ i \in Nat /\ b[k] <= i
      BY <1>1, <1>7, <1>15, <2>1
    <3> QED
      BY <3>1
  <2>2. i \in Nat
    BY <1>1, <1>7
  <2>3. b[l + 1] <= i + 1
    BY <1>6, <1>14, <2>2
  <2>4. \A k \in DOMAIN b : k \in 1 .. l \/ k = l + 1
    BY <1>14
  <2> QED
    BY <1>8, <1>14, <1>15, <2>1, <2>3, <2>4
<1>18. Sorted(b)
  <2>1. ASSUME NEW k \in 1 .. l + 1, NEW h \in 1 .. l + 1, k < h
        PROVE  b[k] < b[h]
    <3>1. k \in 1 .. l /\ (h \in 1 .. l \/ h = l + 1)
      BY <2>1
    <3>2. CASE h \in 1 .. l
      BY <1>4, <1>13, <1>14, <2>1, <3>1, <3>2 DEF Sorted
    <3>3. CASE h = l + 1
      <4>1. b[k] \in Nat /\ i \in Nat /\ b[k] <= i /\ b[h] = i + 1
        BY <1>1, <1>6, <1>7, <1>14, <1>15, <3>1, <3>3
      <4> QED
        BY <4>1
    <3> QED
      BY <3>1, <3>2, <3>3
  <2> QED
    BY <1>14, <2>1 DEF Sorted
<1>19. b = newResults' /\ todo' = Tail(todo) /\ todo # <<>> /\ pc = "descend"
       /\ UNCHANGED <<document, m_elements, query, pc>>
  BY <1>2, <1>5, <1>6, <1>12 DEF ChildMatches
<1>20. Positions \subseteq Nat
  BY <1>1
<1> QED
  BY <1>2, <1>3, <1>5, <1>16, <1>17, <1>18, <1>19, <1>20, NextElement

LEMMA OutsideElementKeeps == IInv /\ SearchInv /\ OutsideElement => SearchInv'
<1> SUFFICES ASSUME IInv, SearchInv, OutsideElement PROVE SearchInv'
  OBVIOUS
<1>1. PICK m \in Nat : Positions = 1 .. m
  BY PositionsAre DEF IInv
<1>2. PICK t, d, q : t = todo /\ d = newResults /\ q = query
  OBVIOUS
<1>3. /\ Sorted(t) /\ t # <<>> /\ Sorted(d) /\ AllChained(q, Len(q), d)
      /\ \A j \in DOMAIN d, k \in DOMAIN t : d[j] <= t[k]
  BY <1>2 DEF SearchInv, OutsideElement
<1>4. t[1] \in Positions /\ 1 \in DOMAIN t
  BY <1>3, TailIsSorted
<1>5. ASSUME NEW j \in DOMAIN d
      PROVE  d[j] \in Positions /\ d[j] <= t[1] + 1
  <2>1. d[j] \in Positions
    BY <1>3, <1>5 DEF Sorted
  <2>2. d[j] \in Nat /\ t[1] \in Nat /\ d[j] <= t[1]
    BY <1>1, <1>3, <1>4, <1>5, <2>1
  <2> QED
    BY <2>1, <2>2
<1>6. d = newResults' /\ todo' = Tail(todo) /\ todo # <<>> /\ pc = "descend"
      /\ UNCHANGED <<document, m_elements, query, pc>>
  BY <1>2 DEF OutsideElement
<1>7. Positions \subseteq Nat
  BY <1>1
<1> QED
  BY <1>2, <1>3, <1>5, <1>6, <1>7, NextElement

LEMMA SetResultsKeeps == SearchInv /\ SetResults => SearchInv'
<1> SUFFICES ASSUME SearchInv, SetResults PROVE SearchInv'
  OBVIOUS
<1>1. PICK d, q : d = newResults /\ d = m_elements' /\ q = query /\ q = query'
  BY DEF SetResults
<1>2. Sorted(d) /\ AllChained(q, Len(q), d) /\ q \in Seq(Filters) /\ Len(q) > 1
  BY <1>1 DEF SearchInv, SetResults
<1>3. Sorted(d)' /\ AllChained(q, Len(q), d)'
  BY <1>2, MeaningStays DEF SetResults, document
<1>4. Sorted(m_elements)' /\ AllChained(query, Len(query), m_elements)'
  BY <1>1, <1>3 DEF Sorted, AllChained
<1>5. Len(query') > 0 /\ newResults' = <<>> /\ todo' = <<>> /\ pc' = "filter"
  <2>1. Len(q) \in Nat
    BY <1>2, LenProperties
  <2> QED
    BY <1>1, <1>2, <2>1 DEF SetResults
<1> QED
  BY <1>1, <1>4, <1>5 DEF SearchInv

LEMMA FindAllReturnsKeeps == SearchInv /\ FindAllReturns => SearchInv'
<1> SUFFICES ASSUME SearchInv, FindAllReturns PROVE SearchInv'
  OBVIOUS
<1>1. /\ m_elements' = <<>> /\ query' = <<>> /\ newResults' = <<>> /\ todo' = <<>>
      /\ pc' = "between"
  BY DEF SearchInv, FindAllReturns
<1>2. <<>> \in Seq(Filters) /\ Len(<<>>) <= MaxFilters
  BY HtmlParserAssumption
<1> QED
  BY <1>1, <1>2 DEF SearchInv

(* A document is parsed between selectors. *)
LEMMA ParseKeeps == SearchInv /\ Parse => SearchInv'
<1> SUFFICES ASSUME SearchInv, Parse PROVE SearchInv'
  OBVIOUS
<1>1. UNCHANGED selector /\ pc \notin {"filter", "descend"} /\ pc' \notin {"filter", "descend"}
  <2>1. CASE \E id \in Ids, a \in AttrLists : OpenTag(id, a)
    BY <2>1 DEF OpenTag
  <2>2. CASE \E id \in Ids : CloseTag(id)
    BY <2>2 DEF CloseTag
  <2>3. CASE Slash
    BY <2>3 DEF Slash
  <2>4. CASE OpenTagEnds
    BY <2>4 DEF OpenTagEnds
  <2>5. CASE AddClosingTag
    BY <2>5 DEF AddClosingTag
  <2>6. CASE CloseTagEnds
    BY <2>6 DEF CloseTagEnds
  <2> QED
    BY <2>1, <2>2, <2>3, <2>4, <2>5, <2>6 DEF Parse
<1> QED
  BY <1>1 DEF SearchInv, selector

LEMMA InitSearchInv == Init => SearchInv
<1> SUFFICES ASSUME Init PROVE SearchInv
  OBVIOUS
<1>1. <<>> \in Seq(Filters) /\ Len(<<>>) <= MaxFilters
  BY HtmlParserAssumption
<1> QED
  BY <1>1 DEF Init, SearchInv

LEMMA NextSearchInv == IInv /\ SearchInv /\ [Next]_vars => SearchInv'
<1> SUFFICES ASSUME IInv, SearchInv, [Next]_vars PROVE SearchInv'
  OBVIOUS
<1>1. CASE Parse
  BY <1>1, ParseKeeps
<1>2. ASSUME NEW id \in Ids, FindAll(id)
      PROVE  SearchInv'
  BY <1>2, FindAllKeeps
<1>3. ASSUME NEW id \in Ids, FindDescendant(id)
      PROVE  SearchInv'
  BY <1>3, FindDescendantKeeps
<1>4. ASSUME NEW c \in Conditions, WithAttr(c[1]) \/ WithAttrValue(c[1], c[2])
      PROVE  SearchInv'
  <2>1. c[1] \in Names /\ c[2] \in Values
    BY HtmlParserAssumption
  <2> QED
    BY <1>4, <2>1, WithAttrKeeps, WithAttrValueKeeps
<1>5. CASE ChildMatches \/ OutsideElement \/ SetResults \/ FindAllReturns
  BY <1>5, ChildMatchesKeeps, OutsideElementKeeps, SetResultsKeeps, FindAllReturnsKeeps
<1>6. CASE UNCHANGED vars
  <2>1. UNCHANGED m_htmlTags /\ UNCHANGED selector /\ UNCHANGED pc
    BY <1>6 DEF vars, document
  <2>2. Positions' = Positions /\ \A s : Sorted(s)' <=> Sorted(s)
    BY <2>1, MeaningStays
  <2>3. \A q, n, s : AllChained(q, n, s)' <=> AllChained(q, n, s)
    BY <2>1, MeaningStays
  <2>4. PICK e, d, t, q : e = m_elements /\ d = newResults /\ t = todo /\ q = query
    OBVIOUS
  <2>5. e = m_elements' /\ d = newResults' /\ t = todo' /\ q = query' /\ pc' = pc
    BY <2>1, <2>4 DEF selector
  <2>6. CASE pc = "filter"
    <3>1. Sorted(e) /\ AllChained(q, Len(q), e)
      BY <2>4, <2>6 DEF SearchInv
    <3>2. Sorted(e)' /\ AllChained(q, Len(q), e)'
      BY <2>2, <2>3, <3>1
    <3>3. Sorted(m_elements)' /\ AllChained(query, Len(query), m_elements)'
      BY <2>5, <3>2 DEF Sorted, AllChained
    <3> QED
      BY <2>4, <2>5, <2>6, <3>3 DEF SearchInv
  <2>7. CASE pc = "descend"
    <3>1. /\ Sorted(e) /\ Sorted(d) /\ Sorted(t)
          /\ AllChained(q, Len(q), d) /\ AllChained(q, Len(q) - 1, t)
      BY <2>4, <2>7 DEF SearchInv
    <3>2. /\ Sorted(e)' /\ Sorted(d)' /\ Sorted(t)'
          /\ AllChained(q, Len(q), d)' /\ AllChained(q, Len(q) - 1, t)'
      BY <2>2, <2>3, <3>1
    <3>3. /\ Sorted(m_elements)' /\ Sorted(newResults)' /\ Sorted(todo)'
          /\ AllChained(query, Len(query), newResults)'
          /\ AllChained(query, Len(query) - 1, todo)'
      BY <2>5, <3>2 DEF Sorted, AllChained
    <3> QED
      BY <2>4, <2>5, <2>7, <3>3 DEF SearchInv
  <2>8. CASE pc \notin {"filter", "descend"}
    BY <2>4, <2>5, <2>8 DEF SearchInv
  <2> QED
    BY <2>6, <2>7, <2>8
<1> QED
  BY <1>1, <1>2, <1>3, <1>4, <1>5, <1>6 DEF Next, Find

LEMMA InvariantSearchInv == Spec => []SearchInv
BY InvariantIInv, InitSearchInv, NextSearchInv, PTL DEF Spec

(* The document and the search stay of their types: no position that findAll keeps is
   outside the list of tags. *)
THEOREM TypeCorrect == Spec => []TypeOK
<1>1. IInv /\ SearchInv => TypeOK
  <2> SUFFICES ASSUME IInv, SearchInv PROVE TypeOK
    OBVIOUS
  <2>1. Types
    BY DEF IInv
  <2>2. <<>> \in Seq(Positions)
    OBVIOUS
  <2>3. m_elements \in Seq(Positions) /\ newResults \in Seq(Positions) /\ todo \in Seq(Positions)
    BY <2>2 DEF SearchInv, Sorted
  <2> QED
    BY <2>1, <2>3 DEF TypeOK, Types, Tags, Labels, SearchInv
<1> QED
  BY <1>1, InvariantIInv, InvariantSearchInv, PTL

(* Whatever filters are combined, and in which order, a result satisfies all of them,
   and comes once and in the order of the document, for a selector and a document of any
   length (searchlist.hpp:37 to 40). *)
THEOREM ResultsAlwaysSatisfyQuery == Spec => []ResultsSatisfyQuery
<1>1. SearchInv => ResultsSatisfyQuery
  <2> SUFFICES ASSUME SearchInv, pc = "filter"
               PROVE  /\ \A n \in DOMAIN m_elements : Means(m_elements[n])
                      /\ \A n \in 2 .. Len(m_elements) : m_elements[n - 1] < m_elements[n]
    BY DEF ResultsSatisfyQuery
  <2>1. /\ query \in Seq(Filters) /\ Sorted(m_elements)
        /\ AllChained(query, Len(query), m_elements)
    BY DEF SearchInv
  <2>2. ASSUME NEW i, Chained(query, Len(query), i)
        PROVE  Means(i)
    <3>1. DOMAIN query = 1 .. Len(query)
      BY <2>1, LenProperties
    <3>2. PICK chain \in [DOMAIN query -> OpeningTags] :
            chain[Len(query)] = i /\ \A n \in DOMAIN query : Link(query, chain, n)
      BY <2>2, <3>1 DEF Chained
    <3> QED
      BY <3>2 DEF Means, Link
  <2>3. ASSUME NEW n \in 2 .. Len(m_elements)
        PROVE  m_elements[n - 1] < m_elements[n]
    <3>1. n - 1 \in DOMAIN m_elements /\ n \in DOMAIN m_elements /\ n - 1 < n
      BY <2>1, LenProperties DEF Sorted
    <3> QED
      BY <2>1, <3>1 DEF Sorted
  <2> QED
    BY <2>1, <2>2, <2>3 DEF AllChained
<1> QED
  BY <1>1, InvariantSearchInv, PTL

=============================================================================
