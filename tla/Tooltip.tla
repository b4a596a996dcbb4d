------------------------------ MODULE Tooltip ------------------------------
(***************************************************************************)
(* The tooltips and popovers of bootstrap.js: elements that show a tip for *)
(* the pointer or the focus, at once or after a delay, or for clicks.  A   *)
(* tip that hides fades out first, until the end of its transition or a    *)
(* timeout.  Tooltips are made one for each element, or one for all of     *)
(* them by a selector; then the timeout of the delay is shared.            *)
(*                                                                         *)
(* Every element has a content; where the tip is placed is left out, and   *)
(* so are enable() and disable().                                          *)
(***************************************************************************)
EXTENDS Naturals, Sequences, SequencesExt, FiniteSets

CONSTANTS
  Elements,    \* elements with a tip
  MaxDetaches  \* bound: timeouts of one tip that wait to detach it

VARIABLES
  setting,  \* the options
  tips,     \* each element's Tooltip object and its tip
  delayed,  \* the timeout of each object that listens, if one runs
  pointer,  \* the element the pointer is on
  focus     \* the element that has the focus

tooltipVars == <<setting, tips, delayed, pointer, focus>>

Nowhere == "nowhere"
Selector == "selector"

ASSUME ElementsAssumption == Nowhere \notin Elements /\ Selector \notin Elements

NoDelay == [element |-> Nowhere, hoverState |-> "none"]

\* The objects that listen: those of the elements, or the one of the selector.
Listener(e) == IF setting.selector THEN Selector ELSE e

Tip ==
  [attached |-> FALSE, in |-> FALSE, fade |-> FALSE,
   hoverState |-> "none",
   ends |-> << >>,         \* bound to the end of the transition: timeouts cleared
   detaches |-> {},        \* timeouts of removeWithAnimation
   destroyed |-> FALSE,
   asked |-> FALSE,        \* history: what the last event or call wants
   overtaken |-> FALSE,    \* history: shown while it still faded out
   orphaned |-> FALSE]     \* history: destroyed while a delay ran to show it

Settings ==
  {s \in [animate : BOOLEAN, trigger : {"hover focus", "click"},
          delayShow : BOOLEAN, delayHide : BOOLEAN, selector : BOOLEAN] :
     s.trigger = "click" => ~s.delayShow /\ ~s.delayHide /\ ~s.selector}

TooltipInit ==
  /\ setting \in Settings
  /\ tips = [e \in Elements |-> Tip]
  /\ delayed = [l \in Elements \cup {Selector} |-> NoDelay]
  /\ pointer = Nowhere /\ focus = Nowhere

-----------------------------------------------------------------------------
\* The tip is put anew behind its element; what waits to detach it still does.
ShowTip(tip) ==
  [tip EXCEPT !.attached = TRUE, !.in = TRUE, !.fade = setting.animate,
              !.overtaken = @ \/ tip.ends # << >> \/ tip.detaches # {}]

Detached(tip) == [tip EXCEPT !.attached = FALSE]

RemoveWithAnimation(tip) ==
  LET t == CHOOSE i \in 1 .. Cardinality(tip.detaches) + 1 : i \notin tip.detaches
  IN [tip EXCEPT !.ends = Append(@, t), !.detaches = @ \cup {t}]

HideTip(tip) ==
  LET hidden == [tip EXCEPT !.in = FALSE]
  IN IF tip.fade THEN RemoveWithAnimation(hidden) ELSE Detached(hidden)

ToggleTip(tip) ==
  [IF tip.in THEN HideTip(tip) ELSE ShowTip(tip) EXCEPT !.asked = ~tip.in]

\* Without a delay the tip is shown at once, and no timeout is cleared.
Enter(e) ==
  IF ~setting.delayShow
  THEN /\ tips' = [tips EXCEPT ![e] = [ShowTip(@) EXCEPT !.asked = TRUE]]
       /\ UNCHANGED delayed
  ELSE /\ tips' = [tips EXCEPT ![e].hoverState = "in", ![e].asked = TRUE]
       /\ delayed' = [delayed EXCEPT ![Listener(e)] = [element |-> e, hoverState |-> "in"]]

\* Mutant: the timeout of enter() is not cleared.
LeaveKeepsTimeout(e) ==
  /\ tips' = [tips EXCEPT ![e] = [HideTip(@) EXCEPT !.asked = FALSE]]
  /\ UNCHANGED delayed

Leave(e) ==
  IF ~setting.delayHide
  THEN /\ tips' = [tips EXCEPT ![e] = [HideTip(@) EXCEPT !.asked = FALSE]]
       /\ delayed' = [delayed EXCEPT ![Listener(e)] = NoDelay]
  ELSE /\ tips' = [tips EXCEPT ![e].hoverState = "out", ![e].asked = FALSE]
       /\ delayed' = [delayed EXCEPT ![Listener(e)] = [element |-> e, hoverState |-> "out"]]

Listens(e) == setting.trigger = "hover focus" /\ ~tips[e].destroyed

\* mouseenter and mouseleave.
PointerEnters ==
  /\ pointer = Nowhere
  /\ \E e \in Elements :
       /\ pointer' = e
       /\ IF Listens(e) THEN Enter(e) ELSE UNCHANGED <<tips, delayed>>
  /\ UNCHANGED <<setting, focus>>

PointerLeaves ==
  /\ pointer # Nowhere
  /\ pointer' = Nowhere
  /\ IF Listens(pointer) THEN Leave(pointer) ELSE UNCHANGED <<tips, delayed>>
  /\ UNCHANGED <<setting, focus>>

FocusEnters ==
  /\ focus = Nowhere
  /\ \E e \in Elements :
       /\ focus' = e
       /\ IF Listens(e) THEN Enter(e) ELSE UNCHANGED <<tips, delayed>>
  /\ UNCHANGED <<setting, pointer>>

FocusLeaves ==
  /\ focus # Nowhere
  /\ focus' = Nowhere
  /\ IF Listens(focus) THEN Leave(focus) ELSE UNCHANGED <<tips, delayed>>
  /\ UNCHANGED <<setting, pointer>>

ClickElement ==
  /\ setting.trigger = "click"
  /\ \E e \in Elements :
       /\ ~tips[e].destroyed
       /\ tips' = [tips EXCEPT ![e] = ToggleTip(@)]
  /\ UNCHANGED <<setting, delayed, pointer, focus>>

\* The delay is over: it counts if nothing came in between.
DelayOver ==
  /\ \E l \in DOMAIN delayed :
       LET e == delayed[l].element
           over == delayed[l].hoverState
       IN /\ delayed[l] # NoDelay
          /\ tips' = [tips EXCEPT ![e] =
               CASE over # @.hoverState -> @
                 [] over = @.hoverState /\ over = "in" -> ShowTip(@)
                 [] over = @.hoverState /\ over = "out" -> HideTip(@)]
          /\ delayed' = [delayed EXCEPT ![l] = NoDelay]
  /\ UNCHANGED <<setting, pointer, focus>>

TipEnded(tip, timeouts) ==
  Detached([tip EXCEPT !.ends = << >>, !.detaches = @ \ timeouts])

TipTransitionEnd ==
  /\ \E e \in Elements :
       /\ tips[e].ends # << >>
       /\ tips' = [tips EXCEPT ![e] = TipEnded(@, ToSet(@.ends))]
  /\ UNCHANGED <<setting, delayed, pointer, focus>>

DetachTimeout ==
  /\ \E e \in Elements : \E t \in tips[e].detaches :
       tips' = [tips EXCEPT ![e] = TipEnded(@, {t})]
  /\ UNCHANGED <<setting, delayed, pointer, focus>>

\* destroy(): the handlers go, a timeout that runs does not.
TipDestroyed(tip, delay) ==
  [HideTip(tip) EXCEPT !.destroyed = TRUE, !.asked = FALSE,
                       !.orphaned = delay.hoverState = "in"]

Destroy ==
  /\ \E e \in Elements :
       /\ ~tips[e].destroyed /\ ~setting.selector
       /\ tips' = [tips EXCEPT ![e] = TipDestroyed(@, delayed[e])]
  /\ UNCHANGED <<setting, delayed, pointer, focus>>

TooltipNext ==
  /\ \/ PointerEnters \/ PointerLeaves \/ FocusEnters \/ FocusLeaves \/ ClickElement
     \/ DelayOver \/ TipTransitionEnd \/ DetachTimeout \/ Destroy
  /\ \A e \in Elements : Cardinality(tips'[e].detaches) <= MaxDetaches

-----------------------------------------------------------------------------
Resting(e) ==
  /\ tips[e].ends = << >> /\ tips[e].detaches = {}
  /\ \A l \in DOMAIN delayed : delayed[l].element # e

\* Only a delay for hiding: showing at once does not clear its timeout.  One
\* object for all: entering another element clears the timeout of this one.
DelaysKept ==
  /\ setting.delayHide => setting.delayShow
  /\ setting.selector => ~setting.delayShow /\ ~setting.delayHide

(* Once its delays and transitions are over, a tip is on the page if and   *)
(* only if the last thing that happened to its element asks for it, in     *)
(* whatever order pointer, focus, clicks and timeouts came.  One tip is    *)
(* there for good though nothing asks for it, and this says which: the one *)
(* destroyed while a delay ran to show it (orphaned), for destroy() clears *)
(* no timeout, and a tip without its handlers is never hidden.  Nothing is *)
(* promised for settings that lose or keep a timeout they should not       *)
(* (DelaysKept), and for a tip that was shown while it faded out           *)
(* (overtaken): what detaches it comes after.                              *)
TipAsAsked ==
  DelaysKept =>
    \A e \in Elements :
      Resting(e) /\ ~tips[e].overtaken
        => LET shown == tips[e].asked \/ tips[e].orphaned
           IN tips[e].attached = shown /\ tips[e].in = shown
=============================================================================
