------------------------------ MODULE OpenCourses ------------------------------
(***************************************************************************)
(* js/esm/src/OpenCourses.tsx: the open-courses line as the viewer uses    *)
(* it.  A pill or a tile has a tooltip, opened by the pointer after a      *)
(* wait or by the keyboard at once, and the line's one button a popover.   *)
(* One timer opens or closes the tooltip.  What happens to all of it when  *)
(* the page redraws the line elsewhere, in another shape, or not at all is *)
(* LineFollows, which the page's steps carry (Block.tla).  The answer has  *)
(* more groups than the full line draws.                                   *)
(***************************************************************************)
EXTENDS FiniteSets

CONSTANTS
    Groups,      \* the groups drawn as pills or tiles
    Cut          \* those whose tile cuts a text

ASSUME GroupsAssumption == Cut \subseteq Groups /\ Groups \cap {"none", "close", "away", "tip", "opener", "dialog", "root", "lost"} = {}

VARIABLES
    narrow,      \* whether the block is below NEWS_NARROW_PX
    popover,     \* whether the popover is open
    opener,      \* the shape whose control opened it: "none" before
    tip,         \* the group whose tooltip is set
    tiptimer,    \* the timer: "none", "close", or the group whose tooltip it opens
    pointer,     \* what the mouse is on: a group, "tip" or "away"
    keyboard     \* what has the focus: a group, "opener", "dialog", "root", "away", or "lost" with its control

lineVars == <<narrow, popover, opener, tip, tiptimer, pointer, keyboard>>
tipVars == <<tip, tiptimer>>

\* The tooltips of a shape, the pills that want one, and the control the popover hangs from.
tips(mode) == mode # "compact" /\ ~narrow
isPill(g, mode) == g \in Groups /\ mode # "compact"
wantsTip(g, mode) == isPill(g, mode) /\ (mode = "tiles" => g \in Cut)
TipDrawn(mode) == tips(mode) /\ tip # "none"

\* A tooltip that closes under the pointer leaves it on the page.
Settled(mode) == pointer' = IF pointer = "tip" /\ tip' = "none" THEN "away" ELSE pointer

showTip(g) == tip' = g /\ tiptimer' = "none"

blurTip == tip' = "none" /\ tiptimer' = "none"

--------------------------------------------------------------------------------
\* The popover.

\* The button opens it or closes it; a press by way of another shape's button has closed it already.
openFrom(mode) ==
    /\ mode # "tiles"
    /\ opener' = mode /\ popover' = ~(popover /\ opener = mode)
    /\ keyboard' = IF popover' THEN "dialog" ELSE "opener"
    /\ tip' = "none" /\ tiptimer' = "none" /\ Settled(mode) /\ UNCHANGED narrow

\* Closed with the keyboard given back: to the control that opened it, while it is there.
close(mode) ==
    /\ popover' = FALSE
    /\ keyboard' = IF opener = mode THEN "opener" ELSE "lost"
    /\ UNCHANGED <<narrow, opener, tipVars, pointer>>

PopoverEscape(mode) == popover /\ keyboard = "dialog" /\ close(mode)

\* A press elsewhere takes the keyboard with it.
outside(mode) ==
    /\ popover /\ popover' = FALSE /\ keyboard' = "away"
    /\ IF tips(mode) /\ keyboard \in Groups THEN blurTip ELSE UNCHANGED tipVars
    /\ Settled(mode) /\ UNCHANGED <<narrow, opener>>

\* The keyboard leaves it: it stays open only while the keyboard is on its opener.
onLeave(to, mode) ==
    /\ popover /\ keyboard = "dialog" /\ to \in {"opener", "away"} /\ (to = "opener" => mode # "tiles")
    /\ keyboard' = to /\ popover' = (to = "opener" /\ opener = mode)
    /\ UNCHANGED <<narrow, opener, tipVars, pointer>>

--------------------------------------------------------------------------------
\* The tooltip.

\* The keyboard comes to a pill, from another or from elsewhere, or leaves them.
focusTip(g, mode) ==
    /\ isPill(g, mode) /\ keyboard # g /\ keyboard' = g
    /\ popover' = (popover /\ keyboard # "dialog")
    /\ IF tips(mode) /\ wantsTip(g, mode) THEN showTip(g)
       ELSE IF tips(mode) /\ keyboard \in Groups THEN blurTip ELSE UNCHANGED tipVars
    /\ Settled(mode) /\ UNCHANGED <<narrow, opener>>
KeyboardLeaves(mode) ==
    /\ keyboard \in Groups \cup {"opener", "root"} /\ keyboard' = "away"
    /\ IF tips(mode) /\ keyboard \in Groups THEN blurTip ELSE UNCHANGED tipVars
    /\ Settled(mode) /\ UNCHANGED <<narrow, popover, opener>>

\* The pointer comes to a pill: its tooltip opens after a rest, and one on its way to close stays.
hoverTip(g, mode) ==
    /\ isPill(g, mode) /\ pointer # g /\ pointer' = g
    /\ tiptimer' = IF tips(mode) /\ wantsTip(g, mode) THEN (IF tip = g THEN "none" ELSE g)
                   ELSE IF tips(mode) /\ pointer # "away" THEN "close" ELSE tiptimer
    /\ UNCHANGED <<narrow, popover, opener, tip, keyboard>>

\* It leaves the pill or the tooltip, which waits for it to arrive on the other.
leaveTip(mode) ==
    /\ pointer # "away" /\ pointer' = "away"
    /\ tiptimer' = IF tips(mode) THEN "close" ELSE tiptimer
    /\ UNCHANGED <<narrow, popover, opener, tip, keyboard>>

keepTip == tiptimer' = "none"
TipEntered(mode) ==
    /\ TipDrawn(mode) /\ pointer # "tip" /\ pointer' = "tip" /\ keepTip
    /\ UNCHANGED <<narrow, popover, opener, tip, keyboard>>

TipTimer(mode) ==
    /\ tiptimer # "none" /\ tiptimer' = "none"
    /\ tip' = IF tiptimer = "close" THEN "none" ELSE tiptimer
    /\ Settled(mode) /\ UNCHANGED <<narrow, popover, opener, keyboard>>

\* Escape closes it wherever the keyboard is, but for the popover, which keeps the key to itself.
TipEscape(mode) ==
    /\ tip # "none" /\ ~(popover /\ keyboard = "dialog") /\ blurTip
    /\ Settled(mode) /\ UNCHANGED <<narrow, popover, opener, keyboard>>

--------------------------------------------------------------------------------
\* The page.

\* The block is resized: below the width there is no tooltip, nor anything that hears the pointer leave.
Resized(mode) ==
    /\ narrow' = ~narrow
    /\ pointer' = IF pointer = "tip" THEN "away" ELSE pointer
    /\ UNCHANGED <<popover, opener, tipVars, keyboard>>

Gesture(mode) ==
    \/ openFrom(mode) \/ PopoverEscape(mode) \/ outside(mode) \/ (\E to \in {"opener", "away"} : onLeave(to, mode))
    \/ (\E g \in Groups : focusTip(g, mode) \/ hoverTip(g, mode)) \/ KeyboardLeaves(mode)
    \/ leaveTip(mode) \/ TipEntered(mode) \/ TipEscape(mode) \/ Resized(mode)

Lost(controls) == keyboard' = IF keyboard \in controls THEN "lost" ELSE keyboard
AwayFromLine == pointer' = "away"

\* Mutant: the keyboard leaves with the button.
hideFromUnfocused == keyboard' = "lost"
\* Hidden by its button: the block's root takes the keyboard before the button leaves.
hideFrom == keyboard' = "root"

\* A page step that moves the line from one place to another mounts it anew; one that stops drawing it closes all
\* of it, but leaves the timer running; one that changes its shape takes away the pills or the control.
LineFollows(from, to, byHide) ==
    /\ UNCHANGED narrow
    /\ IF to.place # from.place
       THEN /\ popover' = FALSE /\ opener' = "none" /\ blurTip
            /\ AwayFromLine /\ Lost(Groups \cup {"opener", "dialog"})
       ELSE IF from.shown /\ ~to.shown
       THEN /\ popover' = FALSE /\ tip' = "none" /\ UNCHANGED <<opener, tiptimer>>
            /\ AwayFromLine /\ IF byHide THEN hideFrom ELSE Lost(Groups \cup {"opener", "dialog"})
       ELSE IF to.mode # from.mode
       THEN /\ UNCHANGED <<popover, opener, tipVars>>
            /\ AwayFromLine /\ Lost(Groups \cup {"opener"})
       ELSE UNCHANGED <<popover, opener, tipVars, pointer, keyboard>>

LineInit ==
    /\ narrow = FALSE /\ popover = FALSE /\ opener = "none" /\ tip = "none" /\ tiptimer = "none"
    /\ pointer = "away" /\ keyboard = "away"
================================================================================
