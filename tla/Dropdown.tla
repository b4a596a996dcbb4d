------------------------------ MODULE Dropdown ------------------------------
(***************************************************************************)
(* The dropdown menus of bootstrap.js.  A toggle is one by its attribute   *)
(* data-toggle, which the document listens for, or by a Dropdown that a    *)
(* script made of it, which listens at the toggle and at html, or by both. *)
(* A click goes from the toggle over html to the document until a handler  *)
(* stops it.  A menu is in the parent of its toggle.                       *)
(***************************************************************************)
EXTENDS Integers, FiniteSets

CONSTANTS
  Menus,      \* the menus of the page
  MenuLength  \* the items of a menu

VARIABLES
  byData,   \* menus whose toggle has the attribute
  byScript, \* menus that a script made a Dropdown of
  disabled, \* menus whose toggle has the class disabled
  open,     \* the menus that are open
  focused   \* nothing, or a menu and the number of its item, 0 for the toggle

dropdownVars == <<byData, byScript, disabled, open, focused>>

NoFocus == << >>

DropdownInit ==
  /\ byData \in SUBSET Menus /\ byScript \in SUBSET Menus /\ byData \cup byScript = Menus
  /\ disabled \in {d \in SUBSET Menus : Cardinality(d) <= 1}
  /\ open = {} /\ focused = NoFocus

-----------------------------------------------------------------------------
\* Mutant: only those that a script made are looked for.
ClearMenusMade(menus) == menus \ byScript

ClearMenus(menus) == menus \ byData

\* The click handler that each Dropdown has at html.
AtHtml(menus) == menus \ byScript

\* toggle().  A menu without the attribute stays when it was open.
Toggled(menus, m) == ClearMenus(menus) \cup IF m \in menus THEN {} ELSE {m}

\* A click on a toggle: it is stopped where the toggle is handled.
Clicked(menus, m) ==
  CASE m \in disabled -> ClearMenus(AtHtml(menus))
    [] m \notin disabled /\ m \in byScript -> Toggled(menus, m)
    [] m \notin disabled /\ m \notin byScript -> Toggled(AtHtml(menus), m)

\* An item that is not shown has no focus.
FocusLeft(at, menus) == IF at # NoFocus /\ at[2] > 0 /\ at[1] \notin menus THEN NoFocus ELSE at

MenusBecome(menus, at) ==
  /\ open' = menus /\ focused' = FocusLeft(at, menus)
  /\ UNCHANGED <<byData, byScript, disabled>>

ClickToggle == \E m \in Menus : MenusBecome(Clicked(open, m), <<m, 0>>)

ClickElsewhere == MenusBecome(ClearMenus(AtHtml(open)), NoFocus)

\* A click on a form in a menu is stopped at the document.
ClickForm == \E m \in open : MenusBecome(AtHtml(open), focused)

\* keydown(): Escape and the arrows, of a toggle or of an item.
EscapeMenu ==
  \E m \in Menus :
    LET toggle == IF m \in byData THEN <<m, 0>> ELSE focused
    IN \/ /\ focused = <<m, 0>> /\ m \in byData \ disabled
          /\ MenusBecome(Clicked(open, m), <<m, 0>>)
       \/ /\ focused # NoFocus /\ focused[1] = m /\ focused[2] > 0
          /\ MenusBecome(ClearMenus(AtHtml(open)), toggle)

MoveInMenu ==
  \E m \in Menus, step \in {-1, 1} :
    /\ focused # NoFocus /\ focused[1] = m
    /\ focused[2] = 0 => m \in byData \ disabled
    /\ LET next == IF focused[2] + step \in 1 .. MenuLength THEN focused[2] + step ELSE focused[2]
       IN IF m \in open THEN MenusBecome(open, <<m, IF next = 0 THEN 1 ELSE next>>)
          ELSE MenusBecome(Clicked(open, m), <<m, 0>>)

DropdownNext == ClickToggle \/ ClickElsewhere \/ ClickForm \/ EscapeMenu \/ MoveInMenu

-----------------------------------------------------------------------------
(* Of the menus with the attribute one at most is open, by clicks on       *)
(* toggles, items, forms and the page and by keys, whichever handlers a    *)
(* click still comes to.  Not promised of menus without it.                *)
OneMenuOpen == Cardinality(open \cap byData) <= 1
=============================================================================
