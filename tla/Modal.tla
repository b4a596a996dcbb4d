------------------------------- MODULE Modal -------------------------------
(***************************************************************************)
(* The modal dialogs of bootstrap.js.  A dialog has its class in and its   *)
(* display, the handlers bound with one() to the end of its transition,    *)
(* the timeouts that hide it if that end never comes, and the backdrops    *)
(* put into the body for it, each with what is bound to its own end.       *)
(*                                                                         *)
(* No handler of a page prevents the show and hide events.                 *)
(***************************************************************************)
EXTENDS Naturals, Sequences, SequencesExt, FiniteSets

CONSTANT
  MaxBackdrops,    \* bound: the backdrops of a dialog that stand at one time
  MaxHideTimeouts  \* bound: its timeouts that run at one time

VARIABLES
  options,  \* the options of the dialog, and whether it is animated
  modal,    \* the Modal object, its element and its backdrops
  crossed   \* history: a call of show or hide came before the other was over

modalVars == <<options, modal, crossed>>

NoBackdrop == 0

Dialog ==
  [isShown |-> FALSE,
   display |-> FALSE,
   in |-> FALSE,
   focusin |-> FALSE,         \* the document's handlers that keep the focus
   keyup |-> FALSE,           \* the element's handlers for escape
   ends |-> << >>,            \* bound to the end of the element's transition
   timeouts |-> {},           \* of hideWithTransition
   backdrop |-> NoBackdrop,   \* this.$backdrop
   body |-> [b \in {} |-> << >>]]  \* backdrops in the body, and their ends

ModalOptions ==
  [animate : BOOLEAN, backdrop : {"click", "static", "no"}, keyboard : BOOLEAN]

ModalInit ==
  /\ options \in ModalOptions
  /\ modal = Dialog
  /\ crossed = FALSE

-----------------------------------------------------------------------------
\* Numbers only tell backdrops and timeouts apart.
Unused(used) ==
  CHOOSE i \in 1 .. Cardinality(used) + 1 : i \notin used

\* What show() does once the backdrop is there.
Displayed(m) ==
  [m EXCEPT !.display = TRUE, !.in = TRUE, !.focusin = TRUE,
            !.ends = IF options.animate THEN Append(@, [run |-> "shown", clears |-> {}]) ELSE @]

RemoveBackdrop(m) ==
  [m EXCEPT !.body = [b \in DOMAIN @ \ {m.backdrop} |-> @[b]], !.backdrop = NoBackdrop]

Callback(m, name) == IF name = "display" THEN Displayed(m) ELSE RemoveBackdrop(m)

\* A new backdrop, whatever this.$backdrop was; the callback waits for the
\* end of its transition.
NewBackdrop(m, callback) ==
  LET b == Unused(DOMAIN m.body)
      Ends(c) == IF c = b THEN IF options.animate THEN <<callback>> ELSE << >> ELSE m.body[c]
      added == [m EXCEPT !.backdrop = b, !.body = [c \in DOMAIN @ \cup {b} |-> Ends(c)]]
  IN IF options.animate THEN added ELSE Callback(added, callback)

Backdrop(m, callback) ==
  CASE m.isShown /\ options.backdrop # "no" -> NewBackdrop(m, callback)
    [] ~m.isShown /\ m.backdrop # NoBackdrop /\ options.animate ->
         [m EXCEPT !.body[m.backdrop] = Append(@, callback)]
    [] OTHER -> Callback(m, callback)

HideModal(m) == Backdrop([m EXCEPT !.display = FALSE], "remove")

ShowDialog(m) ==
  IF m.isShown THEN m
  ELSE Backdrop([m EXCEPT !.isShown = TRUE, !.keyup = options.keyboard], "display")

\* The timeout and the end of the transition: whichever comes first.
HideWithTransition(m) ==
  LET t == Unused(m.timeouts)
  IN [m EXCEPT !.timeouts = @ \cup {t},
               !.ends = Append(@, [run |-> "hideModal", clears |-> {t}])]

HideDialog(m) ==
  LET hidden == [m EXCEPT !.isShown = FALSE, !.keyup = FALSE, !.focusin = FALSE, !.in = FALSE]
  IN CASE ~m.isShown -> m
       [] m.isShown /\ options.animate -> HideWithTransition(hidden)
       [] OTHER -> HideModal(hidden)

-----------------------------------------------------------------------------
Callbacks(m) == UNION {ToSet(m.body[b]) : b \in DOMAIN m.body}

ModalShow ==
  /\ modal' = ShowDialog(modal)
  /\ crossed' = (crossed \/ (~modal.isShown /\ (modal.timeouts # {} \/ "remove" \in Callbacks(modal))))

ModalHide ==
  /\ modal' = HideDialog(modal)
  /\ crossed' = (crossed \/ (modal.isShown /\ "display" \in Callbacks(modal)))

\* modal('show'), modal('hide'), modal('toggle') and clicks on what is marked
\* to do them.
ModalCall == ModalShow \/ ModalHide

ClickBackdrop ==
  /\ \E b \in DOMAIN modal.body : options.backdrop = "click"
  /\ ModalHide

Escape == modal.keyup /\ ModalHide

\* What is bound to the end of the element's transition.
ElementEnded(m, end) ==
  IF end.run = "shown" THEN m ELSE HideModal([m EXCEPT !.timeouts = @ \ end.clears])

\* The element's transition ends, or that of something in it.
ElementEnd ==
  /\ modal.ends # << >>
  /\ modal' = FoldLeft(ElementEnded, [modal EXCEPT !.ends = << >>], modal.ends)
  /\ UNCHANGED crossed

BackdropEnd ==
  /\ \E b \in DOMAIN modal.body :
       /\ modal.body[b] # << >>
       /\ modal' = FoldLeft(Callback, [modal EXCEPT !.body[b] = << >>], modal.body[b])
  /\ UNCHANGED crossed

\* Mutant: the end of the transition is still waited for.
EndsOffNot(m) == m

EndsOff(m) == [m EXCEPT !.ends = << >>]

HideTimeout ==
  /\ \E t \in modal.timeouts :
       modal' = HideModal(EndsOff([modal EXCEPT !.timeouts = @ \ {t}]))
  /\ UNCHANGED crossed

ModalNext ==
  /\ ModalCall \/ ClickBackdrop \/ Escape \/ ElementEnd \/ BackdropEnd \/ HideTimeout
  /\ Cardinality(DOMAIN modal'.body) <= MaxBackdrops
  /\ Cardinality(modal'.timeouts) <= MaxHideTimeouts
  /\ UNCHANGED options

-----------------------------------------------------------------------------
ModalAtRest ==
  modal.ends = << >> /\ modal.timeouts = {} /\ Callbacks(modal) = {}

(* A dialog at rest is displayed, keeps the focus and has its one backdrop *)
(* if it is shown, and if it is hidden nothing of it is left on the page,  *)
(* whether timeouts or the ends of transitions came first.  Not promised   *)
(* once they crossed, hide() before the backdrop stood or show() before    *)
(* the hiding was over: then backdrops, the focus handler and the class in *)
(* can stay behind for good.                                               *)
DialogWithBackdrop ==
  LET m == modal
  IN ~crossed =>
       /\ Cardinality(DOMAIN m.body) <= 1
       /\ ModalAtRest =>
            /\ m.display = m.isShown /\ m.in = m.isShown /\ m.focusin = m.isShown
            /\ DOMAIN m.body = IF m.isShown /\ options.backdrop # "no" THEN {m.backdrop} ELSE {}
=============================================================================
