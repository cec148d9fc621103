---------------------------- MODULE ExpertFusion ----------------------------
(* The expert-axis fusion of build_mpopd_target at one token, in exact
   rational arithmetic: the softmax over the experts is taken with a zero
   logit standing in for every disabled expert, the disabled weights are then
   set to zero and the others divided by their sum, clamped from below.

   An expert's strength is the exponential of its logit, prior times
   exp(|delta| / temperature); Exp[n] stands for the exponential at the n-th
   step of |delta|.  Strengths are counted in 1/One, so that a prior below 1 is
   an integer, and 1e-12, the clamp, is 1/Clamp. *)
EXTENDS Integers, FiniteSets, Functions

CONSTANTS
    NumExperts, \* len(config.expert_names)
    Deltas,     \* values of expert_knorm - teacher_knorm
    Exp,        \* the exponential, a factor; Exp[0] = 1
    One,        \* a strength of exp(0)
    Priors,     \* expert_priors, in 1/One; {One} when there are none
    Clamp       \* the inverse of clamp_min's bound

Experts == 1..NumExperts

Abs(x) == IF x < 0 THEN -x ELSE x

ASSUME FusionAssumption ==
    /\ NumExperts \in Nat \ {0}
    /\ Deltas \subseteq Int /\ \A d \in Deltas : Exp[Abs(d)] \in Nat \ {0}
    /\ One \in Nat \ {0} /\ Clamp \in Nat \ {0}
    /\ Priors \subseteq Nat \ {0}

Most(a, b) == IF a > b THEN a ELSE b
Total(f) == FoldFunction(+, 0, f)

Strength(d, p, e) == p[e] * Exp[Abs(d[e])]

\* Mutant: the placeholder stays in the denominator.
WeightsNotRenormalized(m, d, p) ==
    LET logit == [e \in Experts |-> IF m[e] THEN Strength(d, p, e) ELSE One]
    IN [weight |-> [e \in Experts |-> IF m[e] THEN Clamp * logit[e] ELSE 0],
        scale  |-> Clamp * Total(logit)]

\* softmax of the filled logits, times the mask, over weight_sum.clamp_min:
\* (s / S) / max(A / S, 1 / Clamp) = Clamp * s / max(Clamp * A, S).  An expert's
\* weight is weight[e] / scale.
Weights(m, d, p) ==
    LET logit  == [e \in Experts |-> IF m[e] THEN Strength(d, p, e) ELSE One]
        masked == [e \in Experts |-> IF m[e] THEN logit[e] ELSE 0]
    IN [weight |-> [e \in Experts |-> Clamp * masked[e]],
        scale  |-> Most(Clamp * Total(masked), Total(logit))]

\* safe_delta weighted and summed, the fused delta being delta / scale; zero for
\* a sample without an active expert.  At a disabled expert d comes from zeros.
Fuse(m, d, p) ==
    LET w == Weights(m, d, p)
        safe == [e \in Experts |-> IF m[e] THEN d[e] ELSE 0]
        contribution == [e \in Experts |-> w.weight[e] * safe[e]]
    IN [weight |-> w.weight, scale |-> w.scale,
        delta |-> IF \E e \in Experts : m[e] THEN Total(contribution) ELSE 0]

-----------------------------------------------------------------------------
(* What the fusion stands for (docs/MP-OPD.md 16.1). *)

\* The sum of f over the experts that are on.
SumOver(on, f) == Total([e \in Experts |-> IF e \in on THEN f[e] ELSE 0])

\* fused is the average of the deltas of the experts that are on, under the softmax
\* over these alone; nothing when none is.
AverageOf(on, d, p, fused) ==
    LET strength == [e \in Experts |-> Strength(d, p, e)]
        weighted == [e \in Experts |-> strength[e] * d[e]]
    IN IF on # {} THEN fused.delta * SumOver(on, strength) = SumOver(on, weighted) * fused.scale
       ELSE fused.delta = 0

\* The sets of experts that the fusion under the mask m averages, whatever the deltas
\* and priors.
Averaged ==
    [m \in [Experts -> BOOLEAN] |->
       {on \in SUBSET Experts : \A d \in [Experts -> Deltas], p \in [Experts -> Priors] :
                                  AverageOf(on, d, p, Fuse(m, d, p))}]
=============================================================================
