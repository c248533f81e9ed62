------------------------------ MODULE TextScreen ------------------------------
(* The 30 x 20 text screen (text.c over libgba's console).  A screen says   *)
(* what is on each row: a tuple that names it, <<>> for nothing.  A text    *)
(* replaces its whole row.                                                  *)
EXTENDS Integers, Sequences, SequencesExt

TEXT_ROWS == 20
TEXT_COLS == 30
Row == 0..TEXT_ROWS - 1

text_clear == [r \in Row |-> <<>>]
text_at(s, row, what) == [s EXCEPT ![row] = what]
text_titlebar(s, title) == text_at(text_at(s, 0, <<"title", title>>), 1, <<"rule">>)

\* libgba's console: text that runs past the last column of the last row
\* moves every row up by one and goes on in a new last row.
newRow(s) == [r \in Row |-> IF r = TEXT_ROWS - 1 THEN <<"rest of hints">> ELSE s[r + 1]]
text_statusbar(s, hints) ==
  LET drawn == text_at(text_at(s, TEXT_ROWS - 2, <<"rule">>), TEXT_ROWS - 1, <<"hints", hints>>)
  IN IF Len(hints) > TEXT_COLS THEN newRow(drawn) ELSE drawn

(*************************************************************************)
(* A page is what one render function draws: does it clear first, the    *)
(* title, the rows in drawing order as <<row, what>>, the hints.         *)
(*************************************************************************)
Page(title, rows, hints) == [clear |-> TRUE, title |-> title, rows |-> rows, hints |-> hints]

Draw(s, page) ==
  LET before == text_titlebar(IF page.clear THEN text_clear ELSE s, page.title)
      On(r) == {i \in DOMAIN page.rows : page.rows[i][1] = r}
  IN text_statusbar([r \in Row |-> IF On(r) = {} THEN before[r] ELSE page.rows[Max(On(r))][2]],
                    page.hints)

\* The rows of a page that can still be read once it is drawn.
Visible(s, page) == {i \in DOMAIN page.rows : s[page.rows[i][1]] = page.rows[i][2]}

\* Consecutive rows from `top` on.
From(top, whats) == [i \in DOMAIN whats |-> <<top + i - 1, whats[i]>>]
=============================================================================
