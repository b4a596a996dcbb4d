----------------------------- MODULE Typeahead -----------------------------
(***************************************************************************)
(* The typeahead of bootstrap.js: a field with a menu of the items that    *)
(* match what is typed.  Items come from a list, or from a function that   *)
(* answers later, when something else may be in the field.                 *)
(*                                                                         *)
(* What is typed is looked up at the same key; matcher, sorter and updater *)
(* are the ones the widget has itself.                                     *)
(***************************************************************************)
EXTENDS Naturals, Sequences, SequencesExt, FiniteSets, Places

CONSTANTS
  Source,             \* the items there are, in order
  Values,             \* what may be typed
  MinLength,          \* options.minLength
  MaxListed,          \* options.items
  Lowered(_),         \* toLowerCase()
  HasText(_, _),      \* an item contains a query
  MaxLookups          \* bound: lookups not yet answered

ASSUME ListAssumption == Source \in Seq(ToSet(Source)) /\ MaxListed \in Nat \ {0}

VARIABLES
  isFunction,  \* the source is a function
  typeahead    \* the object, its field and its menu

typeaheadVars == <<isFunction, typeahead>>

\* An answer to one query, when another may be in force.
Answered(to, at) == [to |-> to, at |-> at]

TypeaheadInit ==
  /\ isFunction \in BOOLEAN
  /\ typeahead =
       [value |-> << >>, query |-> << >>,
        shown |-> FALSE, items |-> << >>, active |-> 0,
        focused |-> FALSE, mousedover |-> FALSE,
        lookups |-> {},        \* queries the function was asked
        answered |-> Answered(<< >>, << >>)]  \* history: the last answer

-----------------------------------------------------------------------------
Matches(query, item) == HasText(Lowered(query), Lowered(item))

BeginsWith(query, item) == IsPrefix(Lowered(query), Lowered(item))

Matcher(query, items) == ItemsAt(items, {i \in DOMAIN items : Matches(query, items[i])})

Sorter(query, items) ==
  LET first == {i \in DOMAIN items : BeginsWith(query, items[i])}
      exact == {i \in DOMAIN items \ first : HasText(query, items[i])}
  IN ItemsAt(items, first) \o ItemsAt(items, exact) \o ItemsAt(items, DOMAIN items \ (first \cup exact))

FirstOf(items) == SubSeq(items, 1, IF Len(items) < MaxListed THEN Len(items) ELSE MaxListed)

HideMenu(t) == [t EXCEPT !.shown = FALSE]

\* render() and show().
Render(t, items) == [t EXCEPT !.shown = TRUE, !.items = items, !.active = 1]

\* Mutant: the menu stays as it is if nothing matches.
ProcessKeepsMenu(t, items) ==
  LET sorted == Sorter(t.query, Matcher(t.query, items))
  IN IF sorted = << >> THEN t ELSE Render(t, FirstOf(sorted))

\* Items are filtered by the query of now, whatever they were asked for.
Process(t, items) ==
  LET sorted == Sorter(t.query, Matcher(t.query, items))
  IN IF sorted = << >> THEN HideMenu(t) ELSE Render(t, FirstOf(sorted))

TooShort(query) == query = << >> \/ Len(query) < MinLength

Lookup(t) ==
  LET asked == [t EXCEPT !.query = t.value]
  IN CASE TooShort(t.value) -> HideMenu(asked)
       [] ~TooShort(t.value) /\ isFunction -> [asked EXCEPT !.lookups = @ \cup {t.value}]
       [] OTHER -> Process([asked EXCEPT !.answered = Answered(t.value, t.value)], Source)

Select(t) == HideMenu([t EXCEPT !.value = t.items[t.active]])

\* next() and prev(), round the ends.
NextItem(t) == [t EXCEPT !.active = IF @ = Len(t.items) THEN 1 ELSE @ + 1]
PrevItem(t) == [t EXCEPT !.active = IF @ = 1 THEN Len(t.items) ELSE @ - 1]

-----------------------------------------------------------------------------
\* keyup of any other key, whether it changes the value or not.
TypeText ==
  /\ typeahead.focused
  /\ \E value \in Values \cup {typeahead.value} :
       typeahead' = Lookup([typeahead EXCEPT !.value = value])

\* keydown and keyup of the arrows, of enter and tab, and of escape.
MenuKey ==
  /\ typeahead.focused /\ typeahead.shown
  /\ typeahead' \in {NextItem(typeahead), PrevItem(typeahead),
                     Select(typeahead), HideMenu(typeahead)}

Focus ==
  /\ ~typeahead.focused
  /\ typeahead' = [typeahead EXCEPT !.focused = TRUE]

Blur ==
  /\ typeahead.focused
  /\ typeahead' = LET blurred == [typeahead EXCEPT !.focused = FALSE]
                  IN IF typeahead.mousedover THEN blurred ELSE HideMenu(blurred)

MouseEnters ==
  /\ typeahead.shown
  /\ \E item \in DOMAIN typeahead.items :
       typeahead' = [typeahead EXCEPT !.mousedover = TRUE, !.active = item]

\* A menu that is hidden under the mouse may never be left.
MouseLeaves ==
  /\ typeahead.mousedover
  /\ typeahead' = LET left == [typeahead EXCEPT !.mousedover = FALSE]
                  IN IF typeahead.focused THEN left ELSE HideMenu(left)

ClickItem ==
  /\ typeahead.shown /\ typeahead.mousedover
  /\ typeahead' = [Select(typeahead) EXCEPT !.focused = TRUE]

\* What the function finds for a query; answers come in any order, or never.
AnswerLookup ==
  \E query \in typeahead.lookups :
    LET answered == Answered(query, typeahead.query)
    IN typeahead' = Process([typeahead EXCEPT !.lookups = @ \ {query}, !.answered = answered],
                            Matcher(query, Source))

TypeaheadNext ==
  /\ \/ TypeText \/ MenuKey \/ Focus \/ Blur
     \/ MouseEnters \/ MouseLeaves \/ ClickItem \/ AnswerLookup
  /\ Cardinality(typeahead'.lookups) <= MaxLookups
  /\ UNCHANGED isFunction

-----------------------------------------------------------------------------
(* A menu that is shown always has one active item to select.  Once what   *)
(* is looked up is answered, and not by an answer to something older, it   *)
(* lists the items that match it: all of them, those that begin with it    *)
(* first, up to the limit.  With a list as source it is shown only while   *)
(* the field has the focus or the mouse is said to be on it; a late answer *)
(* shows it even when the field was left or the choice made.               *)
MenuListsMatches ==
  LET t == typeahead
      matching == {i \in DOMAIN Source : Matches(t.query, Source[i])}
      first == {i \in matching : BeginsWith(t.query, Source[i])}
      listed == IF Cardinality(matching) < MaxListed THEN Cardinality(matching) ELSE MaxListed
  IN t.shown =>
       /\ t.active \in DOMAIN t.items
       /\ t.answered = Answered(t.query, t.query) =>
            /\ Len(t.items) = listed
            /\ \A item \in ToSet(t.items) : \E i \in matching : Source[i] = item
            /\ \A k \in 1 .. listed :
                 k <= Cardinality(first) => BeginsWith(t.query, t.items[k])
       /\ ~isFunction => t.focused \/ t.mousedover
=============================================================================
