------------------------------ MODULE MCIntake ------------------------------
(***************************************************************************)
(* An instance of Intake for TLC: a u64 of four bits, and documents and    *)
(* objects at and around the limits.                                       *)
(***************************************************************************)
EXTENDS Intake

MCCounts == {-1, 0, 1, 10, 11, 256}

Fine == [pdf |-> TRUE, size |-> 1, marked |-> TRUE, parsed |-> TRUE, encrypted |-> FALSE,
         pages |-> 1, objects |-> 3]

MCHeads ==
    {Fine, [Fine EXCEPT !.objects = 0], [Fine EXCEPT !.size = MaxBytes, !.pages = MaxPages],
     [Fine EXCEPT !.pdf = FALSE],
     [Fine EXCEPT !.size = 0], [Fine EXCEPT !.size = MaxBytes + 1], [Fine EXCEPT !.marked = FALSE],
     [Fine EXCEPT !.parsed = FALSE], [Fine EXCEPT !.encrypted = TRUE], [Fine EXCEPT !.pages = 0],
     [Fine EXCEPT !.pages = MaxPages + 1], [Fine EXCEPT !.objects = MaxObjects + 1]}

Stream(flate, torn, n) ==
    [kind |-> "stream", width |-> -1, height |-> -1, flate |-> flate, torn |-> torn,
     content |-> IF flate THEN 1 ELSE n, inflated |-> n]
Image(w, h) ==
    [kind |-> "image", width |-> w, height |-> h, flate |-> FALSE, torn |-> FALSE,
     content |-> 1, inflated |-> 0]

MCObjects ==
    {[Stream(FALSE, FALSE, 1) EXCEPT !.kind = "other"]}
    \cup {Stream(FALSE, FALSE, n) : n \in {1, MaxBytes, Top}}
    \cup {Stream(TRUE, t, n) : t \in BOOLEAN,
                               n \in {1, MaxDecoded, MaxDecoded + 1, 2 * MaxDecoded + 2}}
    \cup {Image(w, h) : w \in {-1, 2, 8}, h \in {3, 4, Top}}
=============================================================================
