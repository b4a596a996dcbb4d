------------------------------- MODULE Alert --------------------------------
(***************************************************************************)
(* The alerts of bootstrap.js: search.html and facet.html show an error in *)
(* one.  A box has a button that dismisses the box it names by data-target *)
(* or, when that is nowhere on the page, the box it stands in.  A box that *)
(* a script made an Alert of hears the click as well as the document does. *)
(*                                                                         *)
(* No handler of a page prevents the close event.                          *)
(***************************************************************************)
EXTENDS FiniteSets

CONSTANT Boxes  \* the boxes of the page, each with a button

VARIABLES
  canFade,    \* the browser has transitions
  dataTarget, \* the box that a button names; its own for none
  boxes,      \* what is known of each box
  dismissed,  \* history: the boxes that were to be dismissed
  bereft      \* history: a button was clicked whose target was gone

alertVars == <<canFade, dataTarget, boxes, dismissed, bereft>>

AlertInit ==
  /\ canFade \in BOOLEAN
  /\ dataTarget \in [Boxes -> Boxes]
  /\ boxes \in [Boxes -> [stands : {TRUE}, fade : BOOLEAN, made : BOOLEAN,
                          moving : {FALSE}, removes : {FALSE}]]
  /\ dismissed = {} /\ bereft = FALSE

-----------------------------------------------------------------------------
\* Mutant: every box waits for a transition.
FadesOutAlways(box) == canFade

FadesOut(box) == canFade /\ box.fade

\* What a click on this button closes.
Parent(all, button) ==
  IF all[dataTarget[button]].stands THEN dataTarget[button] ELSE button

\* close()
CloseBox(all, button) ==
  LET box == Parent(all, button)
  IN IF FadesOut(all[box])
     THEN [all EXCEPT ![box].removes = TRUE, ![box].moving = @ \/ (all[box].fade /\ ~all[box].removes)]
     ELSE [all EXCEPT ![box].stands = FALSE, ![box].moving = FALSE]

Dismiss ==
  \E button \in Boxes :
    LET once == CloseBox(boxes, button)
        twice == IF boxes[button].made THEN CloseBox(once, button) ELSE once
        gone(all) == ~all[dataTarget[button]].stands
    IN /\ boxes[button].stands
       /\ boxes' = twice
       /\ dismissed' = dismissed \cup {Parent(boxes, button)}
       /\ bereft' = (bereft \/ gone(boxes) \/ (boxes[button].made /\ gone(once)))
       /\ UNCHANGED <<canFade, dataTarget>>

\* removeElement(), at the end of the transition
FadedOut ==
  /\ \E box \in Boxes :
       /\ boxes[box].moving
       /\ boxes' = [boxes EXCEPT ![box].moving = FALSE, ![box].stands = ~boxes[box].removes]
  /\ UNCHANGED <<canFade, dataTarget, dismissed, bereft>>

\* The page is loaded again.
LoadAlerts ==
  /\ boxes' = [box \in Boxes |-> [boxes[box] EXCEPT !.stands = TRUE, !.moving = FALSE, !.removes = FALSE]]
  /\ dismissed' = {} /\ bereft' = FALSE
  /\ UNCHANGED <<canFade, dataTarget>>

AlertNext == Dismiss \/ FadedOut \/ LoadAlerts

-----------------------------------------------------------------------------
(* A box that was dismissed is gone once nothing fades, however often its  *)
(* button was clicked meanwhile, and no other box is.  Not promised        *)
(* (bereft) of a button that names a box that is gone: a click on it       *)
(* removes what it stands in, as does the second hearing of one click.     *)
DismissedGone ==
  LET removed == {box \in Boxes : ~boxes[box].stands}
  IN /\ ~bereft => removed \subseteq dismissed
     /\ (\A box \in Boxes : ~boxes[box].moving) => dismissed \subseteq removed
=============================================================================
