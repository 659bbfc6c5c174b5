-------------------------------- MODULE OrmRow --------------------------------
(* What the session of SQLAlchemy writes for a row it loaded and edited.    *)

\* The columns of the UPDATE: those that differ from what was loaded.  A
\* column set to the value it was loaded with is not written.
DirtyColumns(loaded, edited) == {c \in DOMAIN loaded : loaded[c] # edited[c]}

\* The UPDATE applied to the row as it is by then.
Written(row, loaded, edited) ==
    [c \in DOMAIN row |-> IF c \in DirtyColumns(loaded, edited) THEN edited[c] ELSE row[c]]

\* Some column of C was changed by others since the row was loaded.
Moved(row, loaded, C) == \E c \in C : row[c] # loaded[c]

=============================================================================
