-------------------------------- MODULE Lists --------------------------------
(***************************************************************************)
(* Lists selected from and sorted.  The operators of the libraries that    *)
(* take a test or an order as a parameter compute the same, but nothing    *)
(* can be proved of them.                                                  *)
(***************************************************************************)
EXTENDS Integers, Sequences, FiniteSets

(***************************************************************************)
(* The members of a list that are in S, in the order of the list: a loop   *)
(* that appends the ones it wants.                                         *)
(***************************************************************************)
Selected(list, S) ==
  LET upTo[n \in 0..Len(list)] ==
        IF n = 0
        THEN <<>>
        ELSE IF list[n] \in S THEN Append(upTo[n - 1], list[n]) ELSE upTo[n - 1]
  IN  upTo[Len(list)]

(***************************************************************************)
(* The lists in a list, one behind the other.                              *)
(***************************************************************************)
Concat(ss) ==
  LET upTo[n \in 0..Len(ss)] == IF n = 0 THEN <<>> ELSE upTo[n - 1] \o ss[n]
  IN  upTo[Len(ss)]

(***************************************************************************)
(* A list sorted so that elements neither of which comes before the other  *)
(* keep their order: an element's place is one behind those that precede   *)
(* it.                                                                     *)
(***************************************************************************)
StableSort(s, Before(_, _)) ==
  LET Precedes(i, j) == \/ Before(s[i], s[j])
                        \/ ~Before(s[j], s[i]) /\ i < j
      Place(i) == Cardinality({j \in DOMAIN s : Precedes(j, i)}) + 1
  IN  [k \in DOMAIN s |-> s[CHOOSE i \in DOMAIN s : Place(i) = k]]
=============================================================================
