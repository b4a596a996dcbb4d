----------------------------- MODULE ScrollSpy ------------------------------
(***************************************************************************)
(* The scroll spy of bootstrap.js: the link to the section a page is       *)
(* scrolled to is marked in a list, with the dropdown menu it may be in.   *)
(* Where sections begin is looked up only by refresh().                    *)
(***************************************************************************)
EXTENDS Integers, Sequences, FiniteSets, FiniteSetsExt

CONSTANTS
  Layouts,    \* where the sections begin and how far the page scrolls
  SpyOffset,  \* options.offset
  SpiedMenu   \* the sections whose links are in the dropdown menu

ASSUME LayoutsAssumption ==
  /\ \A page \in Layouts : page.tops \in Seq(Int) \ {<< >>} /\ page.maxScroll \in Nat
  /\ SpyOffset \in Int

VARIABLES
  layout,        \* the page as it is: [tops |-> .., maxScroll |-> ..]
  position,      \* how far it is scrolled
  offsets,       \* as refresh() left it: pairs of a place and a section
  activeTarget,  \* the section marked last, 0 for none
  links,         \* the items of the list with the class active
  processed      \* history: what the last process() looked at

spyVars == <<layout, position, offsets, activeTarget, links, processed>>

SpyLinks(section) == {section} \cup (IF section \in SpiedMenu THEN {0} ELSE {})

-----------------------------------------------------------------------------
\* refresh(): sections in the order they begin in, those that begin together
\* in the order of their links.
BeginsBefore(page, r, s) == page.tops[r] < page.tops[s] \/ (page.tops[r] = page.tops[s] /\ r < s)

NthSection(page, k) ==
  CHOOSE s \in DOMAIN page.tops : Cardinality({r \in DOMAIN page.tops : BeginsBefore(page, r, s)}) = k - 1

Offsets(page) ==
  [k \in DOMAIN page.tops |->
     [top |-> page.tops[NthSection(page, k)], target |-> NthSection(page, k)]]

\* Mutant: where the next section begins is not looked at.
InSectionOpen(found, i, scrollTop) == scrollTop >= found[i].top

\* A next section that begins at 0 counts as none.
InSection(found, i, scrollTop) ==
  /\ scrollTop >= found[i].top
  /\ i = Len(found) \/ found[i + 1].top = 0 \/ scrollTop <= found[i + 1].top

\* process(): of several sections the first one is activated last.
Target(page, found, at, active) ==
  LET scrollTop == at + SpyOffset
      entered == {i \in DOMAIN found : found[i].target # active /\ InSection(found, i, scrollTop)}
  IN CASE scrollTop >= page.maxScroll -> found[Len(found)].target
       [] scrollTop < page.maxScroll /\ entered # {} -> found[Min(entered)].target
       [] OTHER -> active

ProcessSpy(page, found, at) ==
  LET target == Target(page, found, at, activeTarget)
  IN /\ activeTarget' = target
     /\ links' = IF target = activeTarget THEN links ELSE SpyLinks(target)
     /\ processed' = [layout |-> page, offsets |-> found, position |-> at]

\* ScrollSpy(), on a page that may be scrolled already.
SpyInit ==
  /\ layout \in Layouts
  /\ position \in 0 .. layout.maxScroll
  /\ offsets = Offsets(layout)
  /\ activeTarget = Target(layout, offsets, position, 0)
  /\ links = IF activeTarget = 0 THEN {} ELSE SpyLinks(activeTarget)
  /\ processed = [layout |-> layout, offsets |-> offsets, position |-> position]

Scroll ==
  /\ \E at \in 0 .. layout.maxScroll :
       /\ at # position
       /\ position' = at
       /\ ProcessSpy(layout, offsets, at)
  /\ UNCHANGED <<layout, offsets>>

\* What the page shows changes, and with it where its sections begin.
ChangeLayout ==
  /\ \E page \in Layouts :
       /\ layout' = page
       /\ position' = Min({position, page.maxScroll})
       /\ IF position' # position THEN ProcessSpy(page, offsets, position')
          ELSE UNCHANGED <<activeTarget, links, processed>>
  /\ UNCHANGED offsets

Refresh ==
  /\ offsets' = Offsets(layout)
  /\ UNCHANGED <<layout, position, activeTarget, links, processed>>

CallProcess ==
  /\ ProcessSpy(layout, offsets, position)
  /\ UNCHANGED <<layout, position, offsets>>

SpyNext == Scroll \/ ChangeLayout \/ Refresh \/ CallProcess

-----------------------------------------------------------------------------
(* After a scroll of a page whose sections are where they were when they   *)
(* were looked up, the marked link is that of a section that the position  *)
(* is in, at the page's end of the last one, and at most it is marked.     *)
(* Not promised above the first section, where the mark stays, and not     *)
(* when a second section begins at 0.                                      *)
SpyMarksSection ==
  LET scrollTop == position + SpyOffset
      Top(s) == layout.tops[s]
      sections == DOMAIN layout.tops
      In(s) == Top(s) <= scrollTop /\ \A other \in sections : ~(Top(s) < Top(other) /\ Top(other) < scrollTop)
      last == {s \in sections : \A other \in sections : Top(other) <= Top(s)}
  IN /\ activeTarget # 0 => links = SpyLinks(activeTarget)
     /\ processed = [layout |-> layout, offsets |-> Offsets(layout), position |-> position] =>
          CASE scrollTop >= layout.maxScroll -> activeTarget \in last
            [] scrollTop < layout.maxScroll /\ (\A s \in sections : Top(s) > scrollTop) -> TRUE
            [] OTHER -> In(activeTarget) \/ Cardinality({s \in sections : Top(s) <= 0}) > 1
=============================================================================
