----------------------------- MODULE HtmlParser -----------------------------
(***************************************************************************)
(* The HTML parser of src/htmlParser: HtmlParser::parse appends the tags   *)
(* of a document to an HtmlTagList (grammar html.y), which gives each tag  *)
(* a level, and HtmlParser::findAll filters the list by a CSS selector     *)
(* (grammar css.y, class SearchList).                                      *)
(*                                                                         *)
(* Lexers and the syntax of attributes are left out; an attribute is a     *)
(* name and a value without quotes.  So is the text after a tag, which is  *)
(* set in htmlTag when its copy is in the list already (html.y:47), and so *)
(* are attributes of closing tags, which are no results of a search.       *)
(***************************************************************************)
EXTENDS Integers, Sequences, FiniteSets

CONSTANTS
  Ids,          (* names of tags                                           *)
  Voids,        (* those for which html.y adds a closing tag               *)
  Slashed,      (* those that documents write with slashes at their end    *)
  Names, Values, (* names and values of attributes                         *)
  AttrLists,    (* the attributes a tag may have                           *)
  Conditions,   (* the pairs of name and value that selectors ask for      *)
  MaxTags,      (* bound on the tags of a well nested document             *)
  MaxWildTags,  (* bound on the tags of any other document                 *)
  MaxFilters,   (* bound on the length of a selector                       *)
  None

ASSUME HtmlParserAssumption ==
  /\ Voids \subseteq Ids /\ Slashed \subseteq Ids
  /\ None \notin Ids
  /\ AttrLists \subseteq Seq(Names \X Values) /\ Conditions \subseteq Names \X Values
  /\ {MaxTags, MaxWildTags} \subseteq Nat /\ MaxFilters \in Nat \ {0}

VARIABLES
  open,         (* the elements the document has opened and not closed, if *)
                (* it is well nested; otherwise empty                      *)
  nested,       (* whether it is                                           *)
  htmlTag,      (* the tag the parser is in                                *)
  m_htmlTags,   (* HtmlTagList::m_htmlTags                                 *)
  m_elements,   (* SearchList::m_elements, positions in m_htmlTags         *)
  newResults,   (* the list findDescendant makes                           *)
  todo,         (* the elements findDescendant has not looked at           *)
  query,        (* the selector as far as it was read                      *)
  pc            (* between: in a document between tags; body: before the   *)
                (* end of a tag; slashed: after its slash; void: before    *)
                (* the closing tag that is added; filter: in a selector;   *)
                (* descend: in findDescendant                              *)

document == <<open, nested, htmlTag, m_htmlTags>>
selector == <<m_elements, newResults, todo, query>>
vars == <<document, selector, pc>>

(* Mutant: the constructor leaves the level as it is. *)
TagWithoutLevel(id, closing, attributes) ==
  [id |-> id, closing |-> closing, attributes |-> attributes, level |-> None]

(* HtmlTag(closing), or htmlTag after clear, setType, setId and addAttr. *)
Tag(id, closing, attributes) ==
  [id |-> id, closing |-> closing, attributes |-> attributes, level |-> 0]

Init ==
  /\ open = <<>> /\ nested = TRUE /\ m_htmlTags = <<>>
  /\ htmlTag = Tag(None, FALSE, <<>>)
  /\ m_elements = <<>> /\ newResults = <<>> /\ todo = <<>> /\ query = <<>>
  /\ pc = "between"

-----------------------------------------------------------------------------
(* Mutant: an opening tag after a closing one goes down, too. *)
LevelBelowClosing(last, closing) ==
  IF closing
  THEN IF last.closing THEN last.level - 1 ELSE last.level
  ELSE last.level + 1

(* HtmlTagList::addElement: the level of a tag from that of the one before. *)
Level(last, closing) ==
  IF last.closing = closing
  THEN IF closing THEN last.level - 1 ELSE last.level + 1
  ELSE last.level

AddElement(x) ==
  m_htmlTags' = Append(m_htmlTags,
                       IF m_htmlTags = <<>> THEN x
                       ELSE [x EXCEPT !.level = Level(m_htmlTags[Len(m_htmlTags)], x.closing)])

-----------------------------------------------------------------------------
(* The actions of parse, one for each reduction of html.y that has an effect. *)

Room == Len(m_htmlTags) < IF nested THEN MaxTags ELSE MaxWildTags

(* The document goes on as a well nested one, with these elements open, or is not
   well nested any more. *)
Opens(elements) == nested' = nested /\ open' = IF nested THEN elements ELSE open
Breaks == Len(m_htmlTags) < MaxWildTags /\ nested' = FALSE /\ open' = <<>>

(* The begin of <id attributes>. *)
OpenTag(id, attributes) ==
  /\ pc = "between" /\ Room
  /\ htmlTag' = Tag(id, FALSE, attributes)
  /\ pc' = "body"
  /\ UNCHANGED <<open, nested, m_htmlTags, selector>>

(* The begin of </id>.  It should close the last element that is open. *)
CloseTag(id) ==
  /\ pc = "between"
  /\ htmlTag' = Tag(id, TRUE, <<>>)
  /\ IF open # <<>> /\ open[Len(open)] = id THEN Opens(SubSeq(open, 1, Len(open) - 1)) ELSE Breaks
  /\ pc' = "body"
  /\ UNCHANGED <<m_htmlTags, selector>>

(* tag_body '/', once or more: a closing tag comes to the list before the tag.
   One slash closes an element that html.y does not close itself. *)
Slash ==
  /\ pc \in {"body", "slashed"} /\ htmlTag.id \in Slashed
  /\ AddElement(Tag(htmlTag.id, TRUE, <<>>))
  /\ IF pc = "body" /\ ~htmlTag.closing /\ htmlTag.id \notin Voids THEN Opens(open) ELSE Breaks
  /\ pc' = "slashed"
  /\ UNCHANGED <<htmlTag, selector>>

(* The '>' of an opening tag.  The document opens an element that is neither
   void nor closed by a slash. *)
OpenTagEnds ==
  /\ pc \in {"body", "slashed"} /\ ~htmlTag.closing
  /\ AddElement(htmlTag)
  /\ Opens(IF htmlTag.id \in Voids \/ pc = "slashed" THEN open ELSE Append(open, htmlTag.id))
  /\ pc' = IF htmlTag.id \in Voids THEN "void" ELSE "between"
  /\ UNCHANGED <<htmlTag, selector>>

(* Mutant: the void tag itself is added once more. *)
AddTagAgain ==
  /\ pc = "void"
  /\ AddElement(htmlTag)
  /\ pc' = "between"
  /\ UNCHANGED <<open, nested, htmlTag, selector>>

(* For these tags html.y adds the closing tag. *)
AddClosingTag ==
  /\ pc = "void"
  /\ AddElement(Tag(htmlTag.id, TRUE, <<>>))
  /\ pc' = "between"
  /\ UNCHANGED <<open, nested, htmlTag, selector>>

(* The '>' of a closing tag. *)
CloseTagEnds ==
  /\ pc \in {"body", "slashed"} /\ htmlTag.closing
  /\ AddElement(htmlTag)
  /\ pc' = "between"
  /\ UNCHANGED <<open, nested, htmlTag, selector>>

-----------------------------------------------------------------------------
(* The actions of findAll, one for each reduction of css.y that has an effect;
   E > F has none. *)

Positions == DOMAIN m_htmlTags

(* The increasing sequence of the positions in set S. *)
InOrder(S) == [n \in 1 .. Cardinality(S) |->
                 CHOOSE i \in S : Cardinality({j \in S : j <= i}) = n]

Filter(f) == query' = Append(query, f)

(* A selector begins: SearchList::init. *)
FindAll(id) ==
  /\ pc = "between" /\ m_htmlTags # <<>>
  /\ query' = <<[kind |-> "tag", id |-> id]>>
  /\ m_elements' = InOrder({i \in Positions : m_htmlTags[i].id = id /\ ~m_htmlTags[i].closing})
  /\ pc' = "filter"
  /\ UNCHANGED <<document, newResults, todo>>

CanFilter == pc = "filter" /\ Len(query) < MaxFilters

(* E F: findDescendant is called. *)
FindDescendant(id) ==
  /\ CanFilter /\ Filter([kind |-> "descendant", id |-> id])
  /\ todo' = m_elements /\ newResults' = <<>>
  /\ pc' = "descend"
  /\ UNCHANGED <<document, m_elements>>

(* The tag findDescendant looks at: the one after the element.  It never goes
   on to the next. *)
Element == m_htmlTags[todo[1]]
After == m_htmlTags[todo[1] + 1]

(* Mutant: the tag's name is not compared. *)
AnyMatches ==
  /\ pc = "descend" /\ todo # <<>> /\ todo[1] < Len(m_htmlTags)
  /\ After.level = Element.level + 1
  /\ newResults' = Append(newResults, todo[1] + 1)
  /\ todo' = Tail(todo)
  /\ UNCHANGED <<document, m_elements, query, pc>>

(* A child that matches. *)
ChildMatches ==
  /\ pc = "descend" /\ todo # <<>> /\ todo[1] < Len(m_htmlTags)
  /\ After.level = Element.level + 1 /\ After.id = query[Len(query)].id
  /\ newResults' = Append(newResults, todo[1] + 1)
  /\ todo' = Tail(todo)
  /\ UNCHANGED <<document, m_elements, query, pc>>

(* Outside the element.  If neither holds, the loop goes on for ever; if there is
   no next tag, the code reads past the end of the list and the model stops. *)
OutsideElement ==
  /\ pc = "descend" /\ todo # <<>> /\ todo[1] < Len(m_htmlTags)
  /\ After.level <= Element.level
  /\ todo' = Tail(todo)
  /\ UNCHANGED <<document, m_elements, newResults, query, pc>>

(* findDescendant returns. *)
SetResults ==
  /\ pc = "descend" /\ todo = <<>>
  /\ m_elements' = newResults
  /\ newResults' = <<>>
  /\ pc' = "filter"
  /\ UNCHANGED <<document, todo, query>>

(* getAttr: the first attribute of this name. *)
Named(tag, name) == {i \in DOMAIN tag.attributes : tag.attributes[i][1] = name}

HasAttr(tag, name) == Named(tag, name) # {}

GetAttr(tag, name) ==
  LET first == CHOOSE i \in Named(tag, name) : \A j \in Named(tag, name) : i <= j
  IN  tag.attributes[first][2]

(* The elements among these positions stay, in their order. *)
Leave(positions) ==
  LET left == InOrder({n \in DOMAIN m_elements : m_elements[n] \in positions})
  IN  m_elements' = [n \in DOMAIN left |-> m_elements[left[n]]]

(* E[name] *)
WithAttr(name) ==
  /\ CanFilter /\ Filter([kind |-> "attr", name |-> name])
  /\ Leave({i \in Positions : HasAttr(m_htmlTags[i], name)})
  /\ UNCHANGED <<document, newResults, todo, pc>>

(* E[name=value] *)
WithAttrValue(name, value) ==
  /\ CanFilter /\ Filter([kind |-> "value", name |-> name, value |-> value])
  /\ Leave({i \in Positions : HasAttr(m_htmlTags[i], name)
                              /\ GetAttr(m_htmlTags[i], name) = value})
  /\ UNCHANGED <<document, newResults, todo, pc>>

(* findAll returns m_elements. *)
FindAllReturns ==
  /\ pc = "filter"
  /\ m_elements' = <<>> /\ query' = <<>>
  /\ pc' = "between"
  /\ UNCHANGED <<document, newResults, todo>>

-----------------------------------------------------------------------------
Parse ==
  \/ \E id \in Ids, a \in AttrLists : OpenTag(id, a)
  \/ \E id \in Ids : CloseTag(id)
  \/ Slash \/ OpenTagEnds \/ AddClosingTag \/ CloseTagEnds

Find ==
  \/ \E id \in Ids : FindDescendant(id)
  \/ ChildMatches \/ OutsideElement \/ SetResults
  \/ \E c \in Conditions : WithAttr(c[1]) \/ WithAttrValue(c[1], c[2])
  \/ FindAllReturns

Next == Parse \/ Find \/ \E id \in Ids : FindAll(id)

Spec == Init /\ [][Next]_vars

(* A search that can go on does. *)
FairSpec == Spec /\ WF_vars(Find)

-----------------------------------------------------------------------------
(* Every variable stays in the set it is meant for; the one type invariant of
   this module. *)
TypeOK ==
  /\ open \in Seq(Ids) /\ nested \in BOOLEAN
  /\ LET Tags == [id : Ids \cup {None}, closing : BOOLEAN, attributes : AttrLists \cup {<<>>},
                  level : Int]
     IN  htmlTag \in Tags /\ m_htmlTags \in Seq(Tags)
  /\ m_elements \in Seq(Positions) /\ newResults \in Seq(Positions) /\ todo \in Seq(Positions)
  /\ Len(query) <= MaxFilters
  /\ pc \in {"between", "body", "slashed", "void", "filter", "descend"}

(* The tags in front of position i that are opening, or closing. *)
Before(i, closing) == {j \in 1 .. i - 1 : m_htmlTags[j].closing = closing}

(* The level of a tag is the number of tags that were opened and not closed before
   it, or, for a closing tag, by it, whatever the document is like: addElement needs
   to look at one tag only (htmltaglist.cpp:34).  If the list begins with a closing
   tag, that one has level 0. *)
LevelsAreDepths ==
  \A i \in Positions :
    m_htmlTags[i].level =
      Cardinality(Before(i, FALSE)) - Cardinality(Before(i + 1, TRUE))
        + (IF m_htmlTags[1].closing THEN 1 ELSE 0)

(* In a well nested document it is where the tag is in the document: tags that
   html.y closes by itself and elements that are closed by a slash leave the level
   of what follows as it is (html.y:52 to 73). *)
NestingKept ==
  nested /\ pc = "between" /\ m_htmlTags # <<>> =>
    LET last == m_htmlTags[Len(m_htmlTags)]
    IN  Len(open) = last.level + (IF last.closing THEN 0 ELSE 1)
                      - (IF m_htmlTags[1].closing THEN 1 ELSE 0)

(* j is in the element of the opening tag i. *)
Inside(i, j) ==
  i < j /\ \A k \in i + 1 .. j : m_htmlTags[k].level > m_htmlTags[i].level

OpeningTags == {i \in Positions : ~m_htmlTags[i].closing}

(* Tag i is one that filter f asks for. *)
Satisfies(i, f) ==
  CASE f.kind \in {"tag", "descendant"} -> m_htmlTags[i].id = f.id
    [] f.kind = "attr" -> HasAttr(m_htmlTags[i], f.name)
    [] f.kind = "value" -> \E k \in DOMAIN m_htmlTags[i].attributes :
                             m_htmlTags[i].attributes[k] = <<f.name, f.value>>

(* What a selector means: there is an opening tag for each of its filters, the last of
   which is the result.  A descendant is in the one before, and any other filter is
   about the same tag as the filter before. *)
Means(i) ==
  \E chain \in [DOMAIN query -> OpeningTags] :
    /\ chain[Len(query)] = i
    /\ \A n \in DOMAIN query :
         /\ Satisfies(chain[n], query[n])
         /\ n > 1 => IF query[n].kind = "descendant" THEN Inside(chain[n - 1], chain[n])
                    ELSE chain[n] = chain[n - 1]

(* Whatever filters are combined, and in which order, a result satisfies all of
   them, and comes once and in the order of the document (searchlist.hpp:37 to 40). *)
ResultsSatisfyQuery ==
  pc = "filter" =>
    /\ \A n \in DOMAIN m_elements : Means(m_elements[n])
    /\ \A n \in 2 .. Len(m_elements) : m_elements[n - 1] < m_elements[n]

(* "Find descendants of tags being kept" (searchlist.hpp:38): the search
   returns. *)
SearchReturns == pc = "descend" ~> pc # "descend"

=============================================================================
