---------------------------- MODULE SequenceTools ----------------------------
(***************************************************************************)
(* Operators on sequences, written so that SequenceFacts can prove what    *)
(* they do.                                                                *)
(***************************************************************************)
EXTENDS Integers, FiniteSets, SequencesExt

\* The elements of a sequence that lie in a set, in their order.
Only(seq, S) ==
    FoldLeft(LAMBDA kept, element : IF element \in S THEN Append(kept, element) ELSE kept,
             <<>>, seq)

\* Sequences one after the other.
Joined(seqs) == FoldLeft(\o, <<>>, seqs)

SumOf(numbers) == FoldLeft(+, 0, numbers)

\* The place of the first of the largest numbers, or 0 if none is positive.
FirstBest(numbers) ==
    LET try(best, i) == IF numbers[i] > best.number THEN [place |-> i, number |-> numbers[i]]
                        ELSE best
    IN  FoldLeft(try, [place |-> 0, number |-> 0], [i \in DOMAIN numbers |-> i]).place

\* The sequence in the order of a relation; what the relation does not order stays in
\* its order.  As the SortSeq of TLC, of which nothing can be proved.
SortBy(seq, R) ==
    LET place(i) == Cardinality({j \in DOMAIN seq :
            <<seq[j], seq[i]>> \in R \/ (<<seq[i], seq[j]>> \notin R /\ j <= i)})
    IN  [n \in DOMAIN seq |-> seq[CHOOSE i \in DOMAIN seq : place(i) = n]]
=============================================================================
