------------------------------- MODULE Window -------------------------------
(***************************************************************************)
(* Which items of a menu are drawn (scroll_window, ui/widgets.rs).  Items  *)
(* and rows are counted from 0.                                            *)
(***************************************************************************)
EXTENDS Naturals

\* usize::saturating_sub and usize::min.
Less(a, b) == IF a > b THEN a - b ELSE 0
Smaller(a, b) == IF a < b THEN a ELSE b

View(start, count, above, below) ==
  [start |-> start, count |-> count, above |-> above, below |-> below]

\* Mutant: the list counts as scrolled to its top one item too late.
ScrollWindowLate(len, visible, selected) ==
  LET mid == visible - 2
      from == Less(selected, mid \div 2)
  IN  IF len =< visible THEN View(0, len, FALSE, FALSE)
      ELSE IF visible < 3
      THEN View(Smaller(Less(selected, visible \div 2), len - visible), visible, FALSE, FALSE)
      ELSE IF from =< 2 THEN View(0, visible - 1, FALSE, TRUE)
      ELSE IF from + mid >= len - 1 THEN View(len - (visible - 1), visible - 1, TRUE, FALSE)
      ELSE View(from, mid, TRUE, TRUE)

\* The first item drawn, how many are, and whether an arrow takes the row above
\* and below them; the selected one is in the middle.
ScrollWindow(len, visible, selected) ==
  LET mid == visible - 2
      from == Less(selected, mid \div 2)
  IN  IF len =< visible THEN View(0, len, FALSE, FALSE)
      ELSE IF visible < 3
      THEN View(Smaller(Less(selected, visible \div 2), len - visible), visible, FALSE, FALSE)
      ELSE IF from =< 1 THEN View(0, visible - 1, FALSE, TRUE)
      ELSE IF from + mid >= len - 1 THEN View(len - (visible - 1), visible - 1, TRUE, FALSE)
      ELSE View(from, mid, TRUE, TRUE)

\* The selected item is drawn, everything fits, and where there is room for
\* arrows they tell whether there is more.
Shows(view, len, visible, selected) ==
  /\ view.start =< selected /\ selected < view.start + view.count
  /\ view.start + view.count =< len
  /\ view.count + (IF view.above THEN 1 ELSE 0) + (IF view.below THEN 1 ELSE 0) =< visible
  /\ visible >= 3 => /\ view.above <=> view.start > 0
                     /\ view.below <=> view.start + view.count < len

=============================================================================
