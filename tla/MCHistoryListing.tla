-------------------------- MODULE MCHistoryListing --------------------------
(* Small instances of HistoryListing for TLC. *)
EXTENDS HistoryListing

Ask(sign, column, size, first) ==
    [sort |-> [sign |-> sign, column |-> column], size |-> size, page |-> first]

Default == Ask("", "", 1, 1)

\* Every order by time, one by status, a first page and a size that are not
\* given, and pages of one row or two.
ManyRequests ==
    {Default, Ask("+", "created_at", 2, 1), Ask("-", "created_at", 2, 0),
     Ask("+", "updated_at", 2, 1), Ask("+", "status", 1, 1), Ask("", "", 0, 1)}

OneRequest == {Default}

\* Equal times of creation and equal times of update, in rows of the same and of
\* another status, and one that a slow clock has updated before its creation.
SomeRows ==
    {<<1, 1, Processing>>, <<1, 3, Done>>, <<2, 2, Processing>>, <<2, 3, Failed>>,
     <<3, 2, Done>>, <<3, 3, Done>>}

RowSymmetry == Permutations(Rows)

=============================================================================
