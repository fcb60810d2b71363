------------------------------ MODULE PertDisplay ------------------------------
(***************************************************************************)
(* What the two Pertelian LCD daemons, pertd and pertd2, share: the four   *)
(* rows of Width characters and the way a row is filled from the lines.   *)
(* fill_line() and data_to_display() are the same code in both daemons.    *)
(* A line is a sequence of characters; the empty sequence also stands for  *)
(* a NULL line, which every caller treats as empty.                       *)
(***************************************************************************)
EXTENDS Integers, Sequences, TLC

CONSTANT Width   \* PERT_DISPLAY_WIDTH

ASSUME Width > 0

Rows == 0..3

Blanks == [k \in 1..Width |-> " "]

(* fill_line(lineno, offset) on the lines ls and positions ps: the row's   *)
(* text and the positions after the call.  An empty line is filled from   *)
(* the line above, Width characters further on; a line that fits is shown *)
(* padded (blank when continued); a longer one shows Width characters      *)
(* from pos + offset, wrapping, and advances its pos.                      *)
RECURSIVE FillLine(_, _, _, _)
FillLine(ls, ps, n, off) ==
    LET t == ls[n]
        len == Len(t)
    IN CASE len = 0 /\ n = 0 -> [row |-> Blanks, pos |-> ps]
         [] len = 0 -> FillLine(ls, ps, n - 1, off + Width)
         [] len < Width + 1 ->
              [row |-> IF off = 0
                       THEN t \o [k \in 1..(Width - len) |-> " "] ELSE Blanks,
               pos |-> ps]
         [] len <= off -> [row |-> Blanks, pos |-> ps]
         [] OTHER ->
              [row |-> [k \in 1..Width |-> t[((ps[n] + off + k - 1) % len) + 1]],
               pos |-> [ps EXCEPT ![n] = IF @ + 1 >= len THEN 0 ELSE @ + 1]]

(* The horizontal refresh: wrtln(lineno, fill_line(lineno, 0)) for the rows *)
(* in order, each call seeing the positions the previous ones left.        *)
ScrollRows(ls, ps) ==
    LET r0 == FillLine(ls, ps, 0, 0)
        r1 == FillLine(ls, r0.pos, 1, 0)
        r2 == FillLine(ls, r1.pos, 2, 0)
        r3 == FillLine(ls, r2.pos, 3, 0)
    IN [rows |-> (0 :> r0.row) @@ (1 :> r1.row) @@ (2 :> r2.row)
                  @@ (3 :> r3.row),
        pos |-> r3.pos]

(* data_to_display(): some line is not empty.                             *)
DataToDisplay(ls) == \E i \in Rows : Len(ls[i]) > 0

(* display_date_time() writes the date to row 1 and the time to row 2;    *)
(* the text is the model value "clock".                                   *)
WithDate(rows) ==
    [rows EXCEPT ![1] = [k \in 1..Width |-> "clock"],
                 ![2] = [k \in 1..Width |-> "clock"]]

(* The closing message: row 1 says the daemon stopped, the others blank.  *)
StoppedRows == [i \in Rows |-> IF i = 1 THEN [k \in 1..Width |-> "stopped"]
                                        ELSE Blanks]
================================================================================
