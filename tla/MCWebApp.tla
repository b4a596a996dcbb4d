------------------------------ MODULE MCWebApp ------------------------------
(***************************************************************************)
(* Two analyses of one file and one of another; documents with a list, a   *)
(* nested dictionary, an empty one, and values with blanks, colons, stars, *)
(* characters a URL gives another meaning, and a null.                     *)
(***************************************************************************)
EXTENDS WebApp

MCChars == {"a", "b", "x", "y", "None", Blank, Colon, Quote, Star, Dot,
            Plus, Amp, Hash, Escape}
A == <<"a">>
B == <<"b">>
MCNameOrder == <<A, B>>
MCFields == [yara |-> << <<A>>, <<A, B>> >>, clamav |-> << <<A>> >>]

Values == {<<"x">>, <<"x", Colon, "y">>, <<"x", Star>>, <<"x", Hash>>}
Others == {<<"y">>, <<"x", Blank, "y">>, <<"x", Plus, "y">>, <<Amp, "x">>, <<Escape>>, Null}
MCScalarTexts == Values \cup Others

MCDocs ==
  {Dict(A :> Scalar(v)) : v \in Values}
  \cup {Dict(A :> Scalar(<<"x">>) @@ B :> Scalar(<<"x", Blank, "y">>)),
        Dict(A :> Scalar(<<"x", Plus, "y">>) @@ B :> Scalar(<<Escape>>)),
        Dict(A :> Scalar(Null) @@ B :> Scalar(<<Amp, "x">>)),
        Dict(A :> Listing(<<Dict(B :> Scalar(<<"x">>)), Dict(B :> Scalar(<<"y">>))>>)
             @@ B :> Dict(A :> Scalar(<<"y">>))),
        Dict(A :> Dict(A :> Dict(<< >>)) @@ B :> Scalar(<<"x">>))}

\* Two levels of lists and dictionaries around scalars.
FieldsOver(S) == UNION {[names -> S] : names \in SUBSET {A, B}}
Nested(S) ==
  S \cup {Listing(items) : items \in {<< >>} \cup {<<s>> : s \in S} \cup S \X S}
    \cup {Dict(f) : f \in FieldsOver(S)}
MCSampleDocs == {Dict(f) : f \in FieldsOver(Nested(Nested({Scalar(<<"x">>)})))}

One == {Word(<<"x">>), Word(<<Star>>), Word(<<Quote>>), Bare(A, <<"x">>),
        Bare(A, <<"x", Colon, "y">>), Quoted(A, <<"x", Colon, "y">>),
        Quoted(A, <<"x", Colon, Blank, "y">>), Bare(A, <<"x", Colon>>),
        Quoted(A, <<Quote, "x">>), Bare(A, <<"x", Quote>>), Bare(A, <<"x", Quote, "y">>),
        Quoted(B, <<"x", Blank, "y">>), Word(<<"x", Plus>>), Word(<<Hash, "x">>)}
Two == {<<Word(<<"x">>), Word(<<"y">>)>>, <<Bare(A, <<"x">>), Word(<<"x">>)>>,
        <<Word(<<"x">>), Quoted(B, <<"x", Blank, "y">>)>>,
        <<Bare(A, <<"x", Star>>), Quoted(B, <<"x", Blank, "y">>)>>}
MCTerms == {<< >>} \cup {<<p>> : p \in One} \cup Two
MCMaxRes == {1}
=============================================================================
