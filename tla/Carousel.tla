------------------------------ MODULE Carousel ------------------------------
(***************************************************************************)
(* The carousel of bootstrap.js: items of which one is active, a timer     *)
(* that goes to the next one, indicators, and slides that take the time of *)
(* a CSS transition.  Functions below are the methods of the object, from  *)
(* one state of it to the next.  slid is triggered by a timeout after the  *)
(* transition, when another slide may have begun.                          *)
(***************************************************************************)
EXTENDS Integers, Sequences, SequencesExt, FiniteSets, FiniteSetsExt

CONSTANTS
  Items,       \* the items: 0 .. n - 1
  MaxQueued,   \* bound: calls of to() that wait for slid
  MaxTimeouts  \* bound: ended slides whose slid is not yet triggered

\* With a single item slide() returns early and sliding stays TRUE for good.
ASSUME ItemsAssumption ==
  IsFiniteSet(Items) /\ Cardinality(Items) > 1 /\ Items = 0 .. Cardinality(Items) - 1

VARIABLES
  hasTransitions,  \* the browser and the markup have transitions
  carousel         \* the object, its element, and its timers

carouselVars == <<hasTransitions, carousel>>

NoItem == -1

Fresh ==
  [active |-> {0},       \* items with the class active
   marked |-> {0},       \* indicators with it
   sliding |-> FALSE,
   ends |-> << >>,       \* bound to the end of the transition: slides
   slids |-> << >>,      \* bound to slid: NoItem sets the indicator, pos is to(pos)
   timeouts |-> 0,       \* timeouts that will trigger slid
   interval |-> FALSE,   \* this.interval names a timer
   timers |-> 0,         \* timers that run
   paused |-> FALSE,
   asked |-> NoItem,     \* history: the position to be shown in the end
   hasty |-> FALSE]      \* history: a slide began before slid of the one before

-----------------------------------------------------------------------------
ClearInterval(c) ==
  IF c.interval THEN [c EXCEPT !.timers = @ - 1, !.interval = FALSE] ELSE c

Started(c) == [c EXCEPT !.interval = TRUE, !.timers = @ + 1]

\* Mutant: the old timer runs on.
CycleOver(c, byEvent) ==
  LET cleared == [c EXCEPT !.paused = @ /\ byEvent]
  IN IF cleared.paused THEN cleared ELSE Started(cleared)

Cycle(c, byEvent) ==
  LET cleared == ClearInterval([c EXCEPT !.paused = @ /\ byEvent])
  IN IF cleared.paused THEN cleared ELSE Started(cleared)

\* The transition ends: the slides bound to it are completed.
EndSlide(c, slide) ==
  [c EXCEPT !.active = (@ \ slide.from) \cup {slide.next},
            !.sliding = FALSE, !.timeouts = @ + 1]

End(c) == FoldLeft(EndSlide, [c EXCEPT !.ends = << >>], c.ends)

\* pause() ends a transition under way by triggering its event.
Pause(c, byEvent) ==
  LET marked == [c EXCEPT !.paused = @ \/ ~byEvent]
  IN ClearInterval(IF c.ends # << >> THEN Cycle(End(marked), TRUE) ELSE marked)

Number == Cardinality(Items)

\* The item after or before the active one, round the corner.
Neighbour(c, type) ==
  LET from == CHOOSE i \in c.active : TRUE
  IN IF type = "next" THEN (from + 1) % Number ELSE (from + Number - 1) % Number

ActiveIndex(c) == CHOOSE i \in c.active : \A j \in c.active : i <= j

Mark(c) == [c EXCEPT !.marked = @ \cup {ActiveIndex(c)}]

\* slide(), and without transitions slid within it.  A timer that runs is
\* stopped and started again.
Slide(c, next) ==
  LET isCycling == c.interval
      stopped == IF isCycling THEN Pause([c EXCEPT !.sliding = TRUE], FALSE)
                 ELSE [c EXCEPT !.sliding = TRUE]
      unmarked == [stopped EXCEPT !.marked = {}, !.hasty = c.timeouts > 0]
      slid == IF hasTransitions
              THEN [unmarked EXCEPT !.ends = Append(@, [from |-> c.active, next |-> next]),
                                    !.slids = Append(@, NoItem)]
              ELSE Mark([unmarked EXCEPT !.active = {next}, !.sliding = FALSE])
  IN IF isCycling THEN Cycle(slid, FALSE) ELSE slid

\* Mutant: to() does not wait.
ToAtOnce(c, pos) ==
  IF c.active = {pos} THEN Cycle(Pause(c, FALSE), FALSE) ELSE Slide(c, pos)

To(c, pos) ==
  CASE c.sliding -> [c EXCEPT !.slids = Append(@, pos)]
    [] ~c.sliding /\ c.active = {pos} -> Cycle(Pause(c, FALSE), FALSE)
    [] OTHER -> Slide(c, pos)

\* Mutant: a slide may begin while another is under way.
MoveAlways(c, type) == Slide(c, Neighbour(c, type))

\* next() and prev().
Move(c, type) == IF c.sliding THEN c ELSE Slide(c, Neighbour(c, type))

-----------------------------------------------------------------------------
CarouselInit ==
  /\ hasTransitions \in BOOLEAN
  /\ carousel = Cycle(Pause(Fresh, FALSE), FALSE)

\* The places of the positions that wait for slid.
Queued(c) == {i \in DOMAIN c.slids : c.slids[i] # NoItem}

\* A move of its own makes an earlier position void, unless it still waits.
Moved(type) ==
  [Move(carousel, type) EXCEPT
     !.asked = IF carousel.sliding \/ Queued(carousel) # {} THEN @ ELSE NoItem]

Tick ==
  /\ carousel.timers > 0
  /\ carousel' = Moved("next")

\* A click on an arrow, or a call of next and prev.
Arrow == \E type \in {"next", "prev"} : carousel' = Moved(type)

\* A position that waits comes after one that need not.
Asked(c, pos) ==
  [c EXCEPT !.asked = IF Queued(c) = {} THEN pos ELSE c.slids[Max(Queued(c))]]

CallTo ==
  /\ Cardinality(Queued(carousel)) < MaxQueued
  /\ \E pos \in Items : carousel' = Asked(To(carousel, pos), pos)

\* A click on an indicator: carousel(options) pauses and cycles, and then
\* pause().to(pos).cycle().
Indicator ==
  \E pos \in Items :
    LET again == Cycle(Pause(carousel, FALSE), FALSE)
    IN carousel' = Asked(Cycle(To(Pause(again, FALSE), pos), FALSE), pos)

CallPause == carousel' = Pause(carousel, FALSE)
CallCycle == carousel' = Cycle(carousel, FALSE)

MouseEnter == carousel' = Pause(carousel, TRUE)
MouseLeave == carousel' = Cycle(carousel, TRUE)

SlideEnd ==
  /\ carousel.ends # << >>
  /\ carousel' = End(carousel)

\* What is bound to slid: the indicator, or a position that waits.
RunSlid(c, pos) == IF pos = NoItem THEN Mark(c) ELSE To(c, pos)

\* The timeout triggers slid; what is bound to it runs once, in order.
Slid ==
  /\ carousel.timeouts > 0
  /\ LET triggered == [carousel EXCEPT !.timeouts = @ - 1, !.slids = << >>]
     IN carousel' = FoldLeft(RunSlid, triggered, carousel.slids)

CarouselNext ==
  /\ \/ Tick \/ Arrow \/ CallTo \/ Indicator
     \/ CallPause \/ CallCycle \/ MouseEnter \/ MouseLeave
     \/ SlideEnd \/ Slid
  /\ carousel'.timeouts <= MaxTimeouts
  /\ UNCHANGED hasTransitions

-----------------------------------------------------------------------------
AtRest == ~carousel.sliding /\ carousel.timeouts = 0 /\ carousel.slids = << >>

(* At most one timer runs, the one the object can still clear, and none    *)
(* after pause() was called, although every slide pauses and cycles, and   *)
(* pausing may itself end a slide.                                         *)
OneTimer ==
  /\ carousel.timers = (IF carousel.interval THEN 1 ELSE 0)
  /\ carousel.paused => carousel.timers = 0

(* One item is active, always, and once everything has come to rest its    *)
(* indicator is the one marked.  Not promised (hasty): if a slide begins   *)
(* between the end of the one before and its slid, that slid uses up the   *)
(* handler of the new one.                                                 *)
OneItemActive ==
  /\ Cardinality(carousel.active) = 1
  /\ AtRest /\ ~carousel.hasty => carousel.marked = carousel.active

(* The position asked for last is shown in the end, whatever was asked for *)
(* before and whatever slid in between.  A position that waits for slid is *)
(* the last one, even if an indicator was clicked since: the click ends    *)
(* the slide, goes first, and is then overruled.                           *)
AskedIsShown == AtRest /\ carousel.asked # NoItem => carousel.active = {carousel.asked}
=============================================================================
