-------------------------------- MODULE Lists --------------------------------
(* The two things the code does to an array besides appending to it, as     *)
(* functions of sequences.  Without is a filter; it is written as a function *)
(* of the prefix looked at so far, which proofs can expand (Lists_proofs).  *)
EXTENDS Naturals, Sequences

Elements(s) == {s[k] : k \in 1..Len(s)}

\* The newest n elements of s: what is left after "while (length > n) shift()".
Newest(s, n) == IF Len(s) <= n THEN s ELSE SubSeq(s, Len(s) - n + 1, Len(s))

\* What is left of s after "filter(x => !gone.has(x))".
Without(s, gone) ==
    LET kept[n \in 0..Len(s)] ==
            IF n = 0 THEN <<>>
            ELSE IF s[n] \in gone THEN kept[n - 1] ELSE Append(kept[n - 1], s[n])
    IN kept[Len(s)]
=============================================================================
