---------------------------- MODULE MCDriverArgs ----------------------------
(* Every command line of up to Short arguments over all of Words and of up *)
(* to Long over Core.                                                      *)
EXTENDS DriverArgs

CONSTANTS Words, Core, Short, Long

MCArgvs ==
    UNION {[1 .. n -> Words] : n \in 0 .. Short}
      \cup UNION {[1 .. n -> Core] : n \in 0 .. Long}

=============================================================================
