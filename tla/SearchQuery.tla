---------------------------- MODULE SearchQuery ----------------------------
(***************************************************************************)
(* get_query of query.py: what a typed search term asks of the index.  A   *)
(* text is a sequence of characters.  Only what the pattern                *)
(*     (?P<name>\S+):(?P<value>"[^"]+"|\S+)\s*                             *)
(* and strip() tell apart is kept: blanks, colons, quotes and stars, and   *)
(* the rest.                                                               *)
(***************************************************************************)
EXTENDS Integers, Sequences, SequencesExt, FiniteSetsExt

CONSTANT Chars  \* the characters there are

Blank == " "
Colon == ":"
Quote == "\""
Star == "*"

ASSUME CharsAssumption == {Blank, Colon, Quote, Star} \subseteq Chars

Texts == Seq(Chars)

TermQuery(field, value) == [kind |-> "term", field |-> field, value |-> value]
WildcardQuery(field, value) ==
  [kind |-> "wildcard", field |-> field, value |-> value]
TextQuery(text) == [kind |-> "text", text |-> text]
MatchAllQuery == [kind |-> "all"]

Strip(s, c) ==
  LET kept == {i \in DOMAIN s : s[i] # c}
  IN IF kept = {} THEN << >> ELSE SubSeq(s, Min(kept), Max(kept))

EndsWith(s, c) == s # << >> /\ Last(s) = c

\* The end of the word that s[v] is in.
WordEnd(s, v) ==
  Max({r \in v .. Len(s) : \A i \in v .. r : s[i] # Blank})

\* Where a value that begins at v ends: at the next quote if it begins with
\* one and the two do not touch.
ValueEnd(s, v) ==
  LET closing == {i \in v + 2 .. Len(s) :
                    s[i] = Quote /\ \A j \in v + 1 .. i - 1 : s[j] # Quote}
  IN IF s[v] = Quote /\ closing # {} THEN Min(closing) ELSE WordEnd(s, v)

\* The colons a name that begins at p can end with.  \S+ is greedy: the last
\* one is taken, wherever in the word it is.
NameColons(s, p) ==
  {e \in p + 1 .. Len(s) - 1 :
     s[e] = Colon /\ \A i \in p .. e + 1 : s[i] # Blank}

\* The position after the match and the blanks behind it.
SkipBlanks(s, i) ==
  Min({k \in i .. Len(s) + 1 : k = Len(s) + 1 \/ s[k] # Blank})

FieldQuery(name, value) ==
  LET bare == Strip(value, Quote)
  IN IF EndsWith(bare, Star) THEN WildcardQuery(name, bare) ELSE TermQuery(name, bare)

\* Mutant: the text before a match is dropped.
FreeTextLost(s, to, rest) == rest

\* The text before a match, and what is free in the rest.
FreeText(s, to, rest) == SubSeq(s, 1, to) \o rest

\* The matches in a text, one after the other, and the free text.
Read[s \in Texts] ==
  LET starts == {p \in DOMAIN s : NameColons(s, p) # {}}
      p == Min(starts)
      colon == Max(NameColons(s, p))
      end == ValueEnd(s, colon + 1)
      rest == Read[SubSeq(s, SkipBlanks(s, end + 1), Len(s))]
  IN IF starts = {} THEN [queries |-> << >>, free |-> s]
     ELSE [queries |-> <<FieldQuery(SubSeq(s, p, colon - 1), SubSeq(s, colon + 1, end))>>
                         \o rest.queries,
           free |-> FreeText(s, p - 1, rest.free)]

\* What is asked of all the text of a document.
FreeQuery(text) ==
  CASE text = << >> -> << >>
    [] text = <<Star>> -> <<MatchAllQuery>>
    [] OTHER -> <<TextQuery(text)>>

\* The queries a document must match, one or all of a BoolQuery.
GetQuery(s) == Read[s].queries \o FreeQuery(Strip(Read[s].free, Blank))

-----------------------------------------------------------------------------
(***************************************************************************)
(* The documented grammar: a term is name:value pairs, values in quotes or *)
(* not, and free words, with blanks between them.                          *)
(***************************************************************************)
Quoted(name, value) == [kind |-> "quoted", name |-> name, value |-> value]
Bare(name, value) == [kind |-> "bare", name |-> name, value |-> value]
Word(text) == [kind |-> "word", text |-> text]

Pieces ==
  [kind : {"quoted", "bare"}, name : Texts, value : Texts] \cup [kind : {"word"}, text : Texts]

PieceText(piece) ==
  CASE piece.kind = "quoted" ->
         piece.name \o <<Colon, Quote>> \o piece.value \o <<Quote>>
    [] piece.kind = "bare" -> piece.name \o <<Colon>> \o piece.value
    [] piece.kind = "word" -> piece.text

\* Texts with c between them.
JoinWith(texts, c) ==
  FlattenSeq([i \in DOMAIN texts |-> (IF i = 1 THEN << >> ELSE <<c>>) \o texts[i]])

Joined(texts) == JoinWith(texts, Blank)

Compose(pieces) == Joined([i \in DOMAIN pieces |-> PieceText(pieces[i])])

IsPair(piece) == piece.kind # "word"

\* A text of one word or part of one.
NoBlank(text) == text # << >> /\ ~Contains(text, Blank)

\* A colon in the first word of what follows a name's colon, and not at that
\* word's end: the greedy name runs on to it.
RunsOn(text) ==
  \E e \in 1 .. Len(text) - 1 : text[e] = Colon /\ \A i \in 1 .. e + 1 : text[i] # Blank

(***************************************************************************)
(* The pieces the pattern reads as they are meant.  get_query's comment    *)
(* excepts nothing, but of its pairs these are read otherwise: a name that *)
(* is empty or has a blank; a value with a colon RunsOn tells of, as in    *)
(* a:"x:y", read as the value y of the field a:"x; a value in quotes with  *)
(* a quote in it; and one without quotes that is empty, has a blank, or    *)
(* begins or ends with a quote.  A word with a colon in it is a pair.      *)
(***************************************************************************)
WellFormed(piece) ==
  CASE piece.kind = "quoted" ->
         NoBlank(piece.name) /\ ~Contains(piece.value, Quote)
         /\ ~RunsOn(Append(piece.value, Quote))
    [] piece.kind = "bare" ->
         NoBlank(piece.name) /\ NoBlank(piece.value)
         /\ Quote \notin {Head(piece.value), Last(piece.value)} /\ ~RunsOn(piece.value)
    [] piece.kind = "word" -> NoBlank(piece.text) /\ ~Contains(piece.text, Colon)

\* What each pair asks for, in the order of the pairs.  (A star at the end of
\* a value is a wildcard, which the comment does not say.)
PairQueries(pieces) ==
  FlattenSeq([i \in DOMAIN pieces |->
    CASE pieces[i].kind = "word" -> << >>
      [] pieces[i].kind # "word" /\ EndsWith(pieces[i].value, Star) ->
           <<WildcardQuery(pieces[i].name, pieces[i].value)>>
      [] OTHER -> <<TermQuery(pieces[i].name, pieces[i].value)>>])

Words(pieces) ==
  FlattenSeq([i \in DOMAIN pieces |->
    IF pieces[i].kind = "word" THEN <<pieces[i].text>> ELSE << >>])

Documented(pieces) == PairQueries(pieces) \o FreeQuery(Joined(Words(pieces)))
=============================================================================
