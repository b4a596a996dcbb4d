------------------------------- MODULE WebApp -------------------------------
(***************************************************************************)
(* The web application on top of the index: views.py and the searches of   *)
(* query.py, as a user meets them who types terms and follows the links of *)
(* the templates, while the pipelines store documents.                     *)
(*                                                                         *)
(* The form encodes a term that is typed; the templates write the texts of *)
(* their links into the URL as they are, without urlencode, so that some   *)
(* characters arrive as others or not at all (Arrived).  Line breaks and   *)
(* tabs, which a browser drops from a URL, are not in the alphabet, and    *)
(* what comes behind an & is taken not to be a parameter of the view.      *)
(* elasticsearch/settings.json indexes every string whole, so a term query *)
(* is an equality.                                                         *)
(***************************************************************************)
EXTENDS RenderTransform, SearchQuery

CONSTANTS
  Types,         \* _TYPES: the analyses, each a document type
  UnknownType,   \* a search_type no analysis has
  NoType,        \* no search_type in the request
  Files,         \* the ids of documents
  Fields,        \* _FIELDS: the facets of each type, as paths
  Docs,          \* what the pipelines store
  SampleDocs,    \* more documents, for the rendering alone
  Terms,         \* what users type, as pieces
  MaxDocs,       \* bound: documents in the index
  MaxPieces,     \* bound: pieces of a term, link after link
  MaxRes,        \* the form's numbers of results
  DefaultMax,    \* the number of results if the request has none
  LinkMax,       \* the number of results the value links of a search ask for
  NotANumber,    \* a max that int() rejects
  MaxRows,       \* rows shown of a search result
  FacetSize      \* rows of a facet

Dot == "."  \* joins the names on the way to a value

\* The characters of a URL: a blank; the end of a parameter (& and ;); the
\* beginning of the fragment, which is not sent; an escape; and what it is for.
Plus == "+"
Amp == "&"
Hash == "#"
Escape == "%61"
Unescaped == "a"

\* The page's text of a value that is not indexed: JSON's null.
Null == <<"None">>

ASSUME WebAssumption ==
  /\ {Dot, Plus, Amp, Hash, Escape, Unescaped} \subseteq Chars
  /\ Names \subseteq Texts
  /\ ScalarTexts \subseteq Texts
  /\ NoType \notin Types
  /\ IsFiniteSet(Files)
  /\ Fields \in [Types -> Seq(Paths)]
  /\ Docs \cup SampleDocs \subseteq Documents
  /\ Terms \subseteq Seq(Pieces)
  /\ MaxRows \in Nat

VARIABLES
  index,   \* the documents: Types \X Files to a document or NoDoc
  page     \* what the browser shows

vars == <<index, page>>

NoDoc == Dict(<< >>)
Slots == Types \X Files
TypeOf(slot) == slot[1]
FileOf(slot) == slot[2]

-----------------------------------------------------------------------------
(***************************************************************************)
(* The index.                                                              *)
(***************************************************************************)
FieldName(path) == JoinWith(path, Dot)

\* end[i] is how far the first i characters of the pattern reach.
Glob(pattern, s) ==
  \E end \in [0 .. Len(pattern) -> 0 .. Len(s)] :
    /\ end[0] = 0 /\ end[Len(pattern)] = Len(s)
    /\ \A i \in DOMAIN pattern :
         IF pattern[i] = Star THEN end[i - 1] <= end[i]
         ELSE end[i] = end[i - 1] + 1 /\ s[end[i]] = pattern[i]

\* What a document is found by.
Indexed(doc) == {row \in ToSet(Leaves(doc)) : row.text # Null}

\* The analyzer cuts a free text into n-grams a document must all have; this
\* is kept as: some field of it has the text in it.
Matches(query, doc) ==
  \/ query.kind = "all"
  \/ \E row \in Indexed(doc) :
       CASE query.kind = "all" -> FALSE
         [] query.kind = "term" ->
              FieldName(row.path) = query.field /\ row.text = query.value
         [] query.kind = "wildcard" ->
              FieldName(row.path) = query.field /\ Glob(query.value, row.text)
         [] query.kind = "text" ->
              \E i \in DOMAIN row.text : IsPrefix(query.text, SubSeq(row.text, i, Len(row.text)))

Found(term, type) ==
  LET queries == GetQuery(term)
  IN {slot \in Slots :
        /\ index[slot] # NoDoc
        /\ type \in {NoType, TypeOf(slot)}
        /\ \A i \in DOMAIN queries : Matches(queries[i], index[slot])}

FacetTerms(type, path) ==
  {[field |-> path, term |-> text,
    count |-> Cardinality({f \in Files : Row(path, text) \in Indexed(index[<<type, f>>])})] :
   text \in {row.text : row \in
               {r \in UNION {Indexed(index[<<type, f>>]) : f \in Files} : r.path = path}}}

\* The terms a facet of FacetSize rows lists: no other one is more frequent.
TopTerms(all) ==
  {top \in SUBSET all :
     /\ Cardinality(top) = Min({FacetSize, Cardinality(all)})
     /\ \A t \in top, u \in all \ top : t.count >= u.count}

-----------------------------------------------------------------------------
(***************************************************************************)
(* The pages.  term is the term of a request as it arrives, all the code   *)
(* sees of it; pieces is what the user or the link meant by it.            *)
(***************************************************************************)
BlankPage == [view |-> "blank"]
ErrorPage(pieces, term) == [view |-> "error", pieces |-> pieces, term |-> term]
ServerError(request, docs) == [view |-> "500", request |-> request, docs |-> docs]

\* Mutant: int(max) is outside the try.
SearchFailsOutside(pieces, term, max) ==
  IF max = NotANumber THEN ServerError("search", {}) ELSE ErrorPage(pieces, term)

\* An exception of the search itself, caught by free_text_search.
SearchFails(pieces, term, max) == ErrorPage(pieces, term)

\* The first rows of a result, without the breaks.
ShownRows(doc) ==
  LET rows == RemoveBreaks(Render(doc).ret)
  IN SubSeq(rows, 1, Min({MaxRows, Len(rows)}))

\* search: the records are rendered outside the try.
SearchPage(pieces, term, shown, count) ==
  LET docs == {index[slot] : slot \in shown}
  IN IF \E doc \in docs : Render(doc).failed THEN ServerError("search", docs)
     ELSE [view |-> "search", pieces |-> pieces, term |-> term,
           results |-> {[type |-> TypeOf(slot), file |-> FileOf(slot), doc |-> index[slot]] :
                          slot \in shown},
           count |-> count]

Searched(pieces, term, type, max) ==
  \/ page' = SearchFails(pieces, term, max)
  \/ /\ max # NotANumber
     /\ LET found == Found(term, type)
        IN \E shown \in SUBSET found :
             /\ Cardinality(shown) = Min({max, Cardinality(found)})
             /\ page' = SearchPage(pieces, term, shown, Cardinality(found))

\* An empty term shows the form alone.
Search(pieces, term, type, max) ==
  /\ IF term = << >> THEN page' = BlankPage ELSE Searched(pieces, term, type, max)
  /\ UNCHANGED index

\* detail: nothing is caught.  Records without a field are left out.
Detail(file) ==
  LET stored == {type \in Types : index[<<type, file>>] # NoDoc}
      docs == {index[<<type, file>>] : type \in stored}
  IN /\ page' \in
          {IF \E doc \in docs : Render(doc).failed THEN ServerError("detail", docs)
           ELSE [view |-> "detail", file |-> file,
                 data |-> [type \in stored |-> Render(index[<<type, file>>]).ret]],
           ServerError("detail", {})}
     /\ UNCHANGED index

\* detail_json: of all types, or of the one asked for.
DetailJson(file, types) ==
  /\ \/ page' = [view |-> "json", file |-> file,
                  docs |-> {<<type, index[<<type, file>>]>> :
                              type \in {t \in types : index[<<t, file>>] # NoDoc}}]
     \/ page' = ServerError("detail", {})
  /\ UNCHANGED index

\* facet: an unknown type has no fields, and no span: a KeyError, caught.
Facet(type) ==
  /\ \/ page' = ErrorPage(<< >>, << >>)
     \/ /\ type \in Types
        /\ \E facets \in [DOMAIN Fields[type] ->
                            UNION {TopTerms(FacetTerms(type, Fields[type][i])) : i \in DOMAIN Fields[type]}] :
             /\ \A i \in DOMAIN facets : facets[i] \in TopTerms(FacetTerms(type, Fields[type][i]))
             /\ page' = [view |-> "facet", type |-> type, facets |-> facets]
  /\ UNCHANGED index

-----------------------------------------------------------------------------
(***************************************************************************)
(* The links of the templates, and the actions.                            *)
(***************************************************************************)
\* Mutant: the name alone, as it is shown.
ValueLinkShort(row) == Quoted(Last(row.path), row.text)

ValueLink(row) == Quoted(FieldName(row.path), row.text)

\* A link's text as the browser sends it and Django's QueryDict reads it.
Arrived(text) ==
  LET cuts == {i \in DOMAIN text : text[i] \in {Amp, Hash}}
      sent == IF cuts = {} THEN text ELSE SubSeq(text, 1, Min(cuts) - 1)
  IN [i \in DOMAIN sent |->
        CASE sent[i] = Plus -> Blank
          [] sent[i] = Escape -> Unescaped
          [] OTHER -> sent[i]]

\* A search.html link's &max=50 is lost in a fragment.
LinkMaxOf(text) == IF Contains(text, Hash) THEN DefaultMax ELSE LinkMax

TypeTerm == \E pieces \in Terms, max \in MaxRes \cup {NotANumber} :
              Search(pieces, Compose(pieces), NoType, max)

\* A link that searches for one value.
FollowValue(row, type) ==
  Search(<<ValueLink(row)>>, Arrived(PieceText(ValueLink(row))), type, DefaultMax)

\* search.html: the page's own term, narrowed by the value.
NarrowedBy(term, row) == term \o <<Plus>> \o PieceText(ValueLink(row))

Narrow ==
  /\ page.view = "search" /\ Len(page.pieces) < MaxPieces
  /\ \E result \in page.results : \E row \in ToSet(ShownRows(result.doc)) :
       LET text == NarrowedBy(page.term, row)
       IN Search(Append(page.pieces, ValueLink(row)), Arrived(text), result.type,
                 LinkMaxOf(text))

\* search.html and detail.html: all documents of a type.
ListType ==
  /\ page.view \in {"search", "detail"}
  /\ \E type \in (IF page.view = "search" THEN {r.type : r \in page.results}
                  ELSE DOMAIN page.data) :
       Search(<<Word(<<Star>>)>>, <<Star>>, type, DefaultMax)

\* detail.html.
FollowDetailValue ==
  /\ page.view = "detail"
  /\ \E type \in DOMAIN page.data : \E row \in ToSet(RemoveBreaks(page.data[type])) :
       FollowValue(row, type)

\* facet.html.
FollowFacetTerm ==
  /\ page.view = "facet"
  /\ \E i \in DOMAIN page.facets : \E row \in page.facets[i] :
       FollowValue(Row(row.field, row.term), page.type)

\* search.html, or a typed URL.
ShowDetail == \E file \in Files : Detail(file)

\* detail.html.
ShowJson ==
  /\ page.view = "detail"
  /\ \E types \in {Types} \cup {{type} : type \in DOMAIN page.data} : DetailJson(page.file, types)

\* The navigation bar, or a typed URL.
ShowFacet == \E type \in Types \cup {UnknownType} : Facet(type)

\* A pipeline stores a document under the name of its file, in place of the
\* one that was there.  (Only while the form is blank: every request reads the
\* index anew.)
Store ==
  /\ page = BlankPage
  /\ \E slot \in Slots, doc \in Docs :
       /\ Cardinality({other \in Slots \ {slot} : index[other] # NoDoc}) < MaxDocs
       /\ index' = [index EXCEPT ![slot] = doc]
  /\ UNCHANGED page

Init == index = [slot \in Slots |-> NoDoc] /\ page = BlankPage

Next ==
  \/ TypeTerm \/ Narrow \/ ListType \/ FollowDetailValue \/ FollowFacetTerm
  \/ ShowDetail \/ ShowJson \/ ShowFacet \/ Store

Spec == Init /\ [][Next]_vars

-----------------------------------------------------------------------------
\* The first half of DocsRender: documents beyond those the index ever holds.
SamplesRender == \A doc \in SampleDocs : RendersAs(doc)

(* A search that ends in a server error found a document that cannot be    *)
(* rendered; whatever goes wrong in the search itself is shown on the      *)
(* page.  (detail has no such guard: its request may fail with no document *)
(* at all.)                                                                *)
SearchErrorsCaught ==
  page.view = "500" /\ page.request = "search"
    => \E doc \in page.docs : Unshowable(doc)

(* Every document is rendered as its scalars from left to right, with one  *)
(* break where dictionaries end, or not at all if one ends before the      *)
(* first scalar (render_transform's ret[-1]), and only such a document     *)
(* makes a search end in a server error.                                   *)
DocsRender ==
  SamplesRender /\ (\A slot \in Slots : RendersAs(index[slot])) /\ SearchErrorsCaught

(* A term that arrives as it was meant asks for what the comment of        *)
(* get_query says if its pieces are well-formed (SearchQuery names the     *)
(* pairs that are not), whatever the order of the pairs and words, as      *)
(* typed and as the links lengthen it.  And no exception is idle: a pair   *)
(* alone that is not well-formed asks for something else.                  *)
TermsAsDocumented ==
  LET pieces == page.pieces
      asDocumented == GetQuery(page.term) = Documented(pieces)
  IN page.view \in {"search", "error"} /\ page.term = Compose(pieces) =>
       /\ (\A i \in DOMAIN pieces : WellFormed(pieces[i])) => asDocumented
       /\ Len(pieces) = 1 /\ IsPair(pieces[1]) /\ asDocumented => WellFormed(pieces[1])

\* A link to a value that is read as it is meant: its text has none of the
\* characters Arrived changes.
UrlSafe(text) == \A i \in DOMAIN text : text[i] \notin {Plus, Amp, Hash, Escape}

Faithful(piece) == WellFormed(piece) /\ UrlSafe(PieceText(piece))

(* A link to an indexed value keeps the document it was taken from, as     *)
(* long as every piece of its term is well-formed and free of + & ; # and  *)
(* escapes: a value link of a search result narrows the search without     *)
(* losing that result, and the link of a value in detail.html or           *)
(* facet.html finds every document of its type that has the value.  (A     *)
(* null, shown as None, is not indexed, and its link may find nothing.)    *)
LinksKeepTheResult ==
  /\ page.view = "search" =>
       \A result \in page.results : \A row \in ToSet(ShownRows(result.doc)) :
         LET longer == Append(page.pieces, ValueLink(row))
             queries == GetQuery(Arrived(NarrowedBy(page.term, row)))
         IN row.text # Null /\ (\A i \in DOMAIN longer : Faithful(longer[i]))
              => \A i \in DOMAIN queries : Matches(queries[i], result.doc)
  /\ \A slot \in Slots : \A row \in Indexed(index[slot]) :
       Faithful(ValueLink(row)) =>
         slot \in Found(Arrived(PieceText(ValueLink(row))), TypeOf(slot))
=============================================================================
