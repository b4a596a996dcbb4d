-------------------------------- MODULE Tab --------------------------------
(***************************************************************************)
(* The tabs of bootstrap.js: a list of tabs, some of them in a dropdown    *)
(* menu of the list, and a pane for each.  The tab is marked at once, its  *)
(* pane when the one before has faded out.                                 *)
(*                                                                         *)
(* No handler of a page prevents the show event.                           *)
(***************************************************************************)
EXTENDS Naturals, Sequences, SequencesExt, FiniteSets, FiniteSetsExt

CONSTANTS
  Tabs,        \* the tabs, and their panes
  InMenu,      \* those in the dropdown menu
  MaxPaneEnds  \* bound: what is bound to the ends of the panes' transitions

ASSUME InMenuAssumption == InMenu \subseteq Tabs

VARIABLES
  fades,   \* the browser has transitions, and panes have the class fade
  marked,  \* items of the list with the class active: tabs, and the menu
  panes,   \* the classes of each pane, and what waits for its transition
  hurried  \* history: a tab was shown while a pane still faded

tabVars == <<fades, marked, panes, hurried>>

Menu == "menu"

ASSUME MenuAssumption == Menu \notin Tabs

PathOf(tab) == {tab} \cup (IF tab \in InMenu THEN {Menu} ELSE {})

TabInit ==
  /\ fades \in SUBSET Tabs
  /\ \E first \in Tabs :
       /\ marked = PathOf(first)
       /\ panes = [p \in Tabs |-> [active |-> p = first, in |-> p = first,
                                   fade |-> p \in fades, ends |-> << >>]]
  /\ hurried = FALSE

-----------------------------------------------------------------------------
\* Mutant: what is marked in the menu stays.
ActivateItemMenuKept(old, tab) == (old \ (Tabs \ InMenu)) \cup PathOf(tab)

\* activate() for the list: what is active in it, and in an active menu, is
\* not any more.
ActivateItem(old, tab) ==
  LET active == {item \in old : item \notin InMenu}
      inside == IF Menu \in active THEN old \cap InMenu ELSE {}
  IN (old \ (active \cup inside)) \cup PathOf(tab)

Active(all) == {p \in Tabs : all[p].active}

\* next(), for the panes that were active when it was bound.
NextPane(all, next) ==
  [p \in Tabs |->
     LET left == IF p \in next.from THEN [all[p] EXCEPT !.active = FALSE] ELSE all[p]
     IN CASE p # next.pane -> left
          [] p = next.pane /\ next.transition -> [left EXCEPT !.active = TRUE, !.in = TRUE]
          [] p = next.pane /\ ~next.transition -> [left EXCEPT !.active = TRUE, !.fade = FALSE]]

\* A pane that fades out is no longer in, and it is what next() waits for.
ActivatePane(all, tab) ==
  LET active == Active(all)
      transition == \E p \in active : all[p].fade
      next == [pane |-> tab, from |-> active, transition |-> transition]
      waiting == [p \in Tabs |->
        IF p \in active /\ transition THEN [all[p] EXCEPT !.ends = Append(@, next)] ELSE all[p]]
      changed == IF transition THEN waiting ELSE NextPane(all, next)
  IN [p \in Tabs |-> IF p \in active THEN [changed[p] EXCEPT !.in = FALSE] ELSE changed[p]]

ShowTab ==
  \E tab \in Tabs \ marked :
    /\ marked' = ActivateItem(marked, tab)
    /\ panes' = ActivatePane(panes, tab)
    /\ hurried' = (hurried \/ \E p \in Tabs : panes[p].ends # << >>)
    /\ UNCHANGED fades

PaneEnd ==
  /\ \E p \in Tabs :
       /\ panes[p].ends # << >>
       /\ panes' = FoldLeft(NextPane, [panes EXCEPT ![p].ends = << >>], panes[p].ends)
  /\ UNCHANGED <<fades, marked, hurried>>

TabNext ==
  /\ ShowTab \/ PaneEnd
  /\ FoldSet(LAMBDA p, n : n + Len(panes'[p].ends), 0, Tabs) <= MaxPaneEnds

-----------------------------------------------------------------------------
(* The list marks one tab, with the menu it is in, and at rest its pane is *)
(* the active one, visible if it fades, through every order of tabs inside *)
(* and outside of the menu.  Not promised (hurried) once a tab was shown   *)
(* while a pane still faded: two panes can then stay active.               *)
TabShowsPane ==
  /\ \E tab \in Tabs : marked = PathOf(tab)
  /\ ~hurried /\ (\A p \in Tabs : panes[p].ends = << >>) =>
       \E tab \in Tabs :
         /\ marked = PathOf(tab)
         /\ Active(panes) = {tab}
         /\ panes[tab].fade => panes[tab].in
=============================================================================
