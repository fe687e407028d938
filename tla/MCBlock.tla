-------------------------------- MODULE MCBlock --------------------------------
(* The block with the calendar and the line on, open or closed, with the line hidden and with the calendar off, *)
(* the line used or not, the stars off and on, one course starred already, over payloads of no card and of two  *)
(* cards with their progress to come.                                                                           *)
EXTENDS Block

MCBlockOf(calendar, line, open, fails, acts) ==
    [calendar |-> calendar, line |-> line, open |-> open, favourites |-> FALSE, starred |-> {}, busy |-> {"teaching"},
     faults |-> fails, presses |-> acts, gestures |-> FALSE]
MCLineOf(calendar, acts) == [MCBlockOf(calendar, "on", FALSE, 0, acts) EXCEPT !.gestures = TRUE]
MCStarsOf(fails, acts) == [MCBlockOf(FALSE, "hidden", FALSE, fails, acts) EXCEPT !.favourites = TRUE, !.starred = {1}]
MCConfigs == {MCBlockOf(TRUE, "on", TRUE, 4, 1), MCBlockOf(TRUE, "on", FALSE, 2, 1),
              MCBlockOf(TRUE, "hidden", FALSE, 2, 2), MCBlockOf(FALSE, "on", FALSE, 4, 2),
              MCLineOf(TRUE, 1), MCLineOf(FALSE, 1), MCStarsOf(0, 3), MCStarsOf(1, 2)}
MCPayloads == {[cards |-> {}, twice |-> {}, pending |-> {}, more |-> FALSE],
               [cards |-> {1, 2}, twice |-> {1}, pending |-> {1, 2}, more |-> TRUE]}
================================================================================
