-------------------------- MODULE MCExpertScoring --------------------------
(* Small batches for ExpertScoring: two ranks, two experts. *)
EXTENDS ExpertScoring

On(d)  == [enabled |-> TRUE, direction |-> d]
Off(d) == [enabled |-> FALSE, direction |-> d]
Row(u, x, y) == [user |-> u, experts |-> <<x, y>>, overflow |-> "none"]
Overflowing(row, what) == [row EXCEPT !.overflow = what]

\* Every expert enabled; one or two samples longer than the others.
AllEnabled == {[s \in Samples |-> IF s \in {i, j} THEN Row(5, On(1), On(2)) ELSE Row(1, On(1), On(2))]
                 : i \in 1..3, j \in 3..6}

\* One expert enabled per sample, not the same one: equal counts on all ranks.
OneEach == [Samples -> {Row(2, On(1), Off(1)), Row(2, Off(1), On(1))}]

\* Every rank holds the same number of enabled pairs, spread in any way.
EvenShards ==
    LET kinds == {Row(1, Off(1), Off(1)), Row(2, On(1), On(1)), Row(3, On(1), Off(1))}
        load(b, r) == Cardinality({p \in Rows \X Experts :
                        b[SampleOf(r, p[1])].experts[p[2]].enabled})
    IN {b \in [Samples -> kinds] : \A r \in Ranks : load(b, r) = load(b, 1)}

\* What expert_contexts may say of each sample on its own.
AnyEnabled == [Samples -> {Row(2, On(1), On(1)), Row(2, On(1), Off(1)), Row(2, Off(1), Off(1))}]

\* A sample that overflows, on either rank and in either mini-batch.
Overflows == {[[i \in Samples |-> row] EXCEPT ![s] = Overflowing(row, what)] :
                row \in {Row(2, On(1), Off(1)), Row(2, On(1), On(1))}, s \in {2, 6},
                what \in {"target", "loss", "gradient"}}

\* Fewer pairs on rank 2 than micro-batches to make of them.
FewOnTwo == {b \in AnyEnabled : /\ \A s \in 1..3 : b[s] = Row(2, On(1), On(1))
                                /\ \A s \in 4..5 : b[s] = Row(2, Off(1), Off(1))}

\* Expert prompts cut to the budget and yet wider than the token cap of scoring;
\* expert prompts that are no longer than a response.
OddWidths == {[s \in Samples |-> Row(5, On(4), On(1))], [s \in Samples |-> Row(1, On(1), Off(1))]}

MixedBatches == AllEnabled \cup EvenShards \cup OneEach \cup Overflows \cup FewOnTwo \cup OddWidths

\* One batch of enabled experts.
PlainBatch == {[s \in Samples |-> Row(2, On(1), On(2))]}

\* Deltas up to two either way, powers of two for the exponential, priors of one
\* half, one and two in sixteenths.
SmallDeltas == -2..2
PowersOfTwo == [n \in 0..2 |-> 2^n]
FairPriors == {One \div 2, One, 2 * One}
=============================================================================
