------------------------------ MODULE Widgets -------------------------------
(***************************************************************************)
(* A page with one of the widgets of bootstrap.js, which share no state,   *)
(* or with none of them.                                                   *)
(***************************************************************************)
EXTENDS Collapse, Carousel, Modal, Tooltip, Tab, Typeahead, Alert, Button, Dropdown, ScrollSpy

VARIABLE widget

widgetVars ==
  <<widget, collapseVars, carouselVars, modalVars, tooltipVars, tabVars, typeaheadVars,
    alertVars, buttonVars, dropdownVars, spyVars>>

WidgetNames ==
  {"collapse", "carousel", "modal", "tooltip", "tab", "typeahead",
   "alert", "button", "dropdown", "scrollspy"}

\* The widgets the page has not are in any one of their initial states.
WidgetsInit ==
  /\ widget \in WidgetNames \cup {"none"}
  /\ CollapseInit /\ (widget # "collapse" => transitions /\ groups[1] = Opened)
  /\ CarouselInit /\ (widget # "carousel" => hasTransitions)
  /\ ModalInit /\ (widget # "modal" => options = CHOOSE o \in ModalOptions : TRUE)
  /\ TooltipInit /\ (widget # "tooltip" => setting = CHOOSE s \in Settings : TRUE)
  /\ TabInit /\ (widget # "tab" => fades = {} /\ marked = PathOf(CHOOSE tab \in Tabs : TRUE))
  /\ TypeaheadInit /\ (widget # "typeahead" => isFunction)
  /\ AlertInit
  /\ widget # "alert" =>
       /\ canFade /\ \A box \in Boxes : dataTarget[box] = box /\ ~boxes[box].fade /\ ~boxes[box].made
  /\ ButtonInit /\ (widget # "button" => radio /\ \A b \in Buttons : faces[b].text = Empty)
  /\ DropdownInit /\ (widget # "dropdown" => byScript = {} /\ disabled = {})
  /\ SpyInit /\ (widget # "scrollspy" => position = 0 /\ layout = CHOOSE page \in Layouts : TRUE)

WidgetsNext ==
  /\ \/ /\ widget = "collapse" /\ CollapseNext
        /\ UNCHANGED <<carouselVars, modalVars, tooltipVars, tabVars, typeaheadVars,
                       alertVars, buttonVars, dropdownVars, spyVars>>
     \/ /\ widget = "carousel" /\ CarouselNext
        /\ UNCHANGED <<collapseVars, modalVars, tooltipVars, tabVars, typeaheadVars,
                       alertVars, buttonVars, dropdownVars, spyVars>>
     \/ /\ widget = "modal" /\ ModalNext
        /\ UNCHANGED <<collapseVars, carouselVars, tooltipVars, tabVars, typeaheadVars,
                       alertVars, buttonVars, dropdownVars, spyVars>>
     \/ /\ widget = "tooltip" /\ TooltipNext
        /\ UNCHANGED <<collapseVars, carouselVars, modalVars, tabVars, typeaheadVars,
                       alertVars, buttonVars, dropdownVars, spyVars>>
     \/ /\ widget = "tab" /\ TabNext
        /\ UNCHANGED <<collapseVars, carouselVars, modalVars, tooltipVars, typeaheadVars,
                       alertVars, buttonVars, dropdownVars, spyVars>>
     \/ /\ widget = "typeahead" /\ TypeaheadNext
        /\ UNCHANGED <<collapseVars, carouselVars, modalVars, tooltipVars, tabVars,
                       alertVars, buttonVars, dropdownVars, spyVars>>
     \/ /\ widget = "alert" /\ AlertNext
        /\ UNCHANGED <<collapseVars, carouselVars, modalVars, tooltipVars, tabVars,
                       typeaheadVars, buttonVars, dropdownVars, spyVars>>
     \/ /\ widget = "button" /\ ButtonNext
        /\ UNCHANGED <<collapseVars, carouselVars, modalVars, tooltipVars, tabVars,
                       typeaheadVars, alertVars, dropdownVars, spyVars>>
     \/ /\ widget = "dropdown" /\ DropdownNext
        /\ UNCHANGED <<collapseVars, carouselVars, modalVars, tooltipVars, tabVars,
                       typeaheadVars, alertVars, buttonVars, spyVars>>
     \/ /\ widget = "scrollspy" /\ SpyNext
        /\ UNCHANGED <<collapseVars, carouselVars, modalVars, tooltipVars, tabVars,
                       typeaheadVars, alertVars, buttonVars, dropdownVars>>
  /\ UNCHANGED widget

WidgetsSpec == WidgetsInit /\ [][WidgetsNext]_widgetVars

-----------------------------------------------------------------------------
(* Of the groups of an accordion, the items of a carousel, the tabs of a   *)
(* list with their panes and the menus of a page, one is the one that is   *)
(* shown, through every order of clicks, keys, calls, timers and ends of   *)
(* transitions.                                                            *)
OneShown == OneGroupOpen /\ OneItemActive /\ TabShowsPane /\ OneMenuOpen

(* What moves or waits comes to rest as it should: a group at the height   *)
(* it has opened or closed, a carousel with at most the one timer it can   *)
(* stop, an alert gone once it has faded, a button enabled or disabled as  *)
(* its last state was.                                                     *)
Settled == RestingHeight /\ OneTimer /\ DismissedGone /\ ButtonAsAsked

(* Once nothing moves and no delay runs, a page shows what was asked for   *)
(* last: the item of a carousel, the dialog with its one backdrop or       *)
(* nothing of it, the tip of an element, the link to the section scrolled  *)
(* to.  And a menu of a typeahead that is shown lists what matches the     *)
(* query, once its items came and none came late after them.  A tip that   *)
(* was destroyed while a delay ran to show it is there too, and no other   *)
(* that was not asked for.  Each part names what it does not promise, as   *)
(* after calls of a dialog that crossed, or a tip shown while it faded.    *)
ShownAsAsked ==
  AskedIsShown /\ DialogWithBackdrop /\ TipAsAsked /\ MenuListsMatches /\ SpyMarksSection
=============================================================================
