-------------------------------- MODULE Lists --------------------------------
(* Python's list.remove, applied to every element of a set: the list of    *)
(* open requests without the requests that leave it.                       *)
EXTENDS Integers, Sequences

Without(s, S) ==
    LET kept[i \in 0 .. Len(s)] ==
            IF i = 0 THEN <<>>
            ELSE IF s[i] \in S THEN kept[i - 1]
            ELSE Append(kept[i - 1], s[i])
    IN  kept[Len(s)]
=============================================================================
