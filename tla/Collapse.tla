------------------------------ MODULE Collapse ------------------------------
(***************************************************************************)
(* The collapse widget of bootstrap.js: the menu of base.html is one, an   *)
(* accordion is several groups with one parent.  A group has its class in, *)
(* its height, at most one Collapse object as jQuery data, and the         *)
(* completions bound with one() to the end of its CSS transition.          *)
(*                                                                         *)
(* No handler of a page prevents the show and hide events.                 *)
(***************************************************************************)
EXTENDS Naturals, Sequences, SequencesExt, FiniteSets

CONSTANT Groups  \* the groups of the accordion: 1 .. n, in document order

ASSUME GroupsAssumption == IsFiniteSet(Groups) /\ Groups = 1 .. Cardinality(Groups)

VARIABLES
  transitions,  \* the browser has CSS transitions
  groups,       \* what is known of each group
  scripted      \* history: a script made an object, without the parent

collapseVars == <<transitions, groups, scripted>>

NoData == [transitioning |-> FALSE, parent |-> FALSE, made |-> FALSE]
Object(parent) == [transitioning |-> FALSE, parent |-> parent, made |-> TRUE]

Closed == [in |-> FALSE, height |-> "0", data |-> NoData, ends |-> << >>]
Opened == [Closed EXCEPT !.in = TRUE, !.height = "auto"]

CollapseInit ==
  /\ transitions \in BOOLEAN
  /\ \E open \in Groups \cup {0} :
       groups = [g \in Groups |-> IF g = open THEN Opened ELSE Closed]
  /\ scripted = FALSE

-----------------------------------------------------------------------------
\* Mutant: the height is reset after hiding too.
CompletedAlways(group, event) ==
  [group EXCEPT !.height = "auto", !.data.transitioning = FALSE]

\* complete(), for a completion of the object the group still has.
Completed(group, event) ==
  [group EXCEPT !.height = IF event = "show" THEN "auto" ELSE @,
                !.data.transitioning = FALSE]

\* The object was dropped meanwhile: its flag is nobody's.
CompletedDropped(group, event) ==
  [group EXCEPT !.height = IF event = "show" THEN "auto" ELSE @]

\* transition(): the class changes at once, the completion waits.
Transition(group, event) ==
  LET changed == [group EXCEPT !.in = (event = "show"), !.data.transitioning = TRUE]
  IN IF transitions
     THEN [changed EXCEPT !.ends = Append(@, [event |-> event, owned |-> TRUE])]
     ELSE Completed(changed, event)

Hidden(group) ==
  IF group.data.transitioning \/ ~group.in THEN group
  ELSE [Transition(group, "hide") EXCEPT !.height = "0"]

\* The height goes from 0 to the size of the content.
Shown(group) ==
  LET shown == Transition([group EXCEPT !.height = "0"], "show")
  IN IF transitions THEN [shown EXCEPT !.height = "size"] ELSE shown

\* actives.collapse('hide') for one of them: what has no object gets one,
\* whose constructor toggles it.
ActiveHidden(group) ==
  Hidden(IF group.data.made THEN group ELSE [group EXCEPT !.data = Object(FALSE)])

Dropped(group) ==
  [group EXCEPT !.data = NoData,
                !.ends = [i \in DOMAIN @ |-> [@[i] EXCEPT !.owned = FALSE]]]

Actives(all) == {h \in Groups : all[h].in}

\* Mutant: the other groups stay as they are.
OthersHiddenNot(all, g) == all

\* show() hides the open groups of the parent; data() is that of the first.
OthersHidden(all, g) ==
  LET actives == Actives(all)
      hasData == \E h \in actives : (\A k \in actives : h <= k) /\ all[h].data.made
      After(h) == IF hasData THEN ActiveHidden(all[h]) ELSE Dropped(ActiveHidden(all[h]))
  IN IF ~all[g].data.parent THEN all
     ELSE [h \in Groups |-> IF h \in actives THEN After(h) ELSE all[h]]

FirstActiveMoves(all) ==
  \E h \in Actives(all) : (\A k \in Actives(all) : h <= k) /\ all[h].data.transitioning

Show(all, g) ==
  IF \/ all[g].data.transitioning \/ all[g].in
     \/ all[g].data.parent /\ FirstActiveMoves(all)
  THEN all
  ELSE [OthersHidden(all, g) EXCEPT ![g] = Shown(@)]

Hide(all, g) == [all EXCEPT ![g] = Hidden(@)]

Toggle(all, g) == IF all[g].in THEN Hide(all, g) ELSE Show(all, g)

\* new Collapse: it toggles.
Made(all, g, parent) ==
  Toggle([all EXCEPT ![g].data = Object(parent)], g)

-----------------------------------------------------------------------------
\* A click on the button of a group, which names the parent.
Click(g) ==
  /\ groups' = IF groups[g].data.made THEN Toggle(groups, g) ELSE Made(groups, g, TRUE)
  /\ UNCHANGED <<transitions, scripted>>

\* $(group).collapse(method) by a script: the object made for it has no parent.
Method(all, g, method) ==
  CASE method = "show" -> Show(all, g)
    [] method = "hide" -> Hide(all, g)
    [] method = "toggle" -> Toggle(all, g)

Call(g) ==
  /\ \E method \in {"show", "hide", "toggle"} :
       groups' = Method(IF groups[g].data.made THEN groups ELSE Made(groups, g, FALSE), g, method)
  /\ scripted' = (scripted \/ ~groups[g].data.made)
  /\ UNCHANGED transitions

\* A completion, bound by the object the group has or by one it had.
RunEnd(group, end) ==
  IF end.owned THEN Completed(group, end.event) ELSE CompletedDropped(group, end.event)

\* The transition of the group ends, or that of an element in it, whose event
\* bubbles up.
TransitionEnd(g) ==
  /\ groups[g].ends # << >>
  /\ groups' = [groups EXCEPT ![g] = FoldLeft(RunEnd, [@ EXCEPT !.ends = << >>], @.ends)]
  /\ UNCHANGED <<transitions, scripted>>

CollapseNext == \E g \in Groups : Click(g) \/ Call(g) \/ TransitionEnd(g)

-----------------------------------------------------------------------------
(* At most one group of an accordion is open, however clicks, calls and    *)
(* the ends of transitions interleave, although objects are dropped while  *)
(* their group still moves.  Not promised once a script made an object,    *)
(* which knows no parent.                                                  *)
OneGroupOpen ==
  ~scripted => \A g, h \in Groups : groups[g].in /\ groups[h].in => g = h

(* A group whose transitions have ended is as high as its content if it is *)
(* open and has no height if it is closed, and can be toggled.  This is    *)
(* not promised either once a script made an object: of several open       *)
(* groups one may lose its object and be shown while it still hides.       *)
RestingHeight ==
  ~scripted => \A g \in Groups : groups[g].ends = << >> =>
    /\ groups[g].height = IF groups[g].in THEN "auto" ELSE "0"
    /\ ~groups[g].data.transitioning
=============================================================================
