------------------------------- MODULE Button -------------------------------
(***************************************************************************)
(* The buttons of bootstrap.js: a state changes a button's text at once    *)
(* and disables or enables it in a timeout, so that forms can be           *)
(* submitted; of a group of radio buttons one is pressed.                  *)
(***************************************************************************)
EXTENDS Naturals, Sequences, FiniteSets

CONSTANTS
  Buttons,     \* the buttons of a group
  MaxPending   \* bound: timeouts that wait

VARIABLES
  radio,    \* data-toggle of the group is buttons-radio
  pressed,  \* the buttons with the class active
  faces,    \* of each button: its text, the text to go back to, disabled
  pending,  \* the timeouts, the first one first
  asked     \* history: of each button the first text and the last state

buttonVars == <<radio, pressed, faces, pending, asked>>

Empty == ""

ButtonInit ==
  /\ radio \in BOOLEAN /\ pressed = {} /\ pending = << >>
  /\ \E first \in [Buttons -> {Empty, "text"}] :
       /\ faces = [b \in Buttons |-> [text |-> first[b], resetText |-> Empty, disabled |-> FALSE]]
       /\ asked = [b \in Buttons |-> [first |-> first[b], state |-> "none"]]

-----------------------------------------------------------------------------
\* Mutant: the text to go back to is the one before each state.
ResetTextLast(face) == face.text

\* The text to go back to is kept; an empty one is as good as none.
ResetText(face) == IF face.resetText = Empty THEN face.text ELSE face.resetText

\* A text that is empty is not set.
TextOf(face, state) ==
  CASE state # "reset" -> state
    [] state = "reset" /\ ResetText(face) = Empty -> face.text
    [] OTHER -> ResetText(face)

SetState ==
  /\ Len(pending) < MaxPending
  /\ \E b \in Buttons, state \in {"loading", "complete", "reset"} :
       /\ faces' = [faces EXCEPT ![b].resetText = ResetText(faces[b]), ![b].text = TextOf(faces[b], state)]
       /\ pending' = Append(pending, [button |-> b, state |-> state])
       /\ asked' = [asked EXCEPT ![b].state = state]
  /\ UNCHANGED <<radio, pressed>>

StateTimeout ==
  /\ pending # << >>
  /\ faces' = [faces EXCEPT ![pending[1].button].disabled = (pending[1].state = "loading")]
  /\ pending' = Tail(pending)
  /\ UNCHANGED <<radio, pressed, asked>>

\* toggle(), by a click or a call
ToggleButton ==
  /\ \E b \in Buttons :
       LET left == IF radio THEN {} ELSE pressed
       IN pressed' = IF b \in left THEN left \ {b} ELSE left \cup {b}
  /\ UNCHANGED <<radio, faces, pending, asked>>

ButtonNext == SetState \/ StateTimeout \/ ToggleButton

-----------------------------------------------------------------------------
(* Once its timeouts are over, a button is disabled if and only if it is   *)
(* loading, and has the text of its last state, after reset the first one. *)
(* Not promised of a button that had no text.                              *)
ButtonAsAsked ==
  /\ pending = << >> => \A b \in Buttons :
       /\ faces[b].disabled = (asked[b].state = "loading")
       /\ asked[b].first # Empty =>
            faces[b].text = IF asked[b].state \in {"none", "reset"} THEN asked[b].first ELSE asked[b].state
  /\ radio => Cardinality(pressed) <= 1
=============================================================================
