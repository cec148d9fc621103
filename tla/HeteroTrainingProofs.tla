------------------------ MODULE HeteroTrainingProofs ------------------------
(* Proofs about HeteroTraining, for every configuration and any number of groups,
   forwards and crashes:

   - ranks never wait in different collectives, unless threads were asked for;
   - the weights come from the updates that the schedule means (Weights);
   - updates compare with current log-probs of the right inputs (Marked, Scored);
   - PACE absorbs each due reward once and in order (Absorbing). *)
EXTENDS HeteroTraining, FiniteSetTheorems, TLAPS

\* Outside of the scoring no rank waits; inside, all have the same left to run
\* and wait, if they do, in the pass that is next.
InStep ==
    /\ DOMAIN issued = Ranks
    /\ pc # "opd_score" => \A r \in Ranks : issued[r] = "none"
    /\ ~setup.parallel =>
         /\ \A r, q \in Ranks : left[r] = left[q]
         /\ \A r \in Ranks : issued[r] # "none" => issued[r] \in Runnable(r)

\* Ranks with the same forwards left have the same choice, and without threads
\* it is one pass at most.
LEMMA OneRunnable ==
    ASSUME NEW r \in Ranks, NEW q \in Ranks, left[r] = left[q], ~setup.parallel,
           NEW p \in Runnable(r), NEW o \in Runnable(q)
    PROVE  p = o
BY DEF Runnable

\* The inductive invariant gives the property.
LEMMA InStepImpliesRanksInStep == InStep => RanksInStep
<1>1. CASE setup.parallel
  BY <1>1 DEF RanksInStep, Ranks
<1>2. CASE ~setup.parallel
  <2>1. SUFFICES ASSUME InStep, NEW r \in Ranks, NEW q \in Ranks,
                        issued[r] # "none", issued[q] # "none"
                 PROVE  issued[r] = issued[q]
    BY DEF RanksInStep
  <2>2. issued[r] \in Runnable(r) /\ issued[q] \in Runnable(q) /\ left[r] = left[q]
    BY <1>2, <2>1 DEF InStep
  <2> QED BY <1>2, <2>1, <2>2, OneRunnable
<1> QED BY <1>1, <1>2

LEMMA InitInStep == Init => InStep
BY DEF Init, InStep, NotIssued, NoForwards

\* Steps of the driver that leave the scoring alone.
LEMMA DriverInStep ==
    ASSUME InStep, UNCHANGED <<setup, scoring>>,
           pc # "opd_score" \/ \A r \in Ranks : issued[r] = "none",
           pc' # "opd_score"
    PROVE  InStep'
BY DEF InStep, scoring, Ranks, Runnable

\* A rank issues a pass that it may issue.
LEMMA IssueInStep == ASSUME InStep, NEW r \in Ranks, Issue(r) PROVE InStep'
<1>1. PICK p \in Runnable(r) : issued' = [issued EXCEPT ![r] = p]
  BY DEF Issue
<1>2. UNCHANGED <<setup, pc, left>> /\ pc = "opd_score"
  BY DEF Issue, driver
<1>3. Ranks' = Ranks /\ \A q \in Ranks : Runnable(q)' = Runnable(q)
  BY <1>2 DEF Ranks, Runnable
<1> QED BY <1>1, <1>2, <1>3 DEF InStep

\* A collective runs: every rank has one forward less of the same pass.
LEMMA ForwardInStep == ASSUME InStep, ForwardRuns PROVE InStep'
<1>1. Ranks' = Ranks /\ setup' = setup
  BY DEF ForwardRuns, Ranks
<1>2. issued' = [r \in Ranks |-> "none"]
  BY DEF ForwardRuns, NotIssued
<1>3. ~setup.parallel => \A r, q \in Ranks : left'[r] = left'[q]
  BY DEF ForwardRuns, InStep
<1> QED BY <1>1, <1>2, <1>3 DEF InStep

LEMMA NextInStep == InStep /\ [Next]_vars => InStep'
<1> SUFFICES ASSUME InStep, [Next]_vars PROVE InStep'
  OBVIOUS
<1>1. CASE Launch
  BY <1>1, DriverInStep DEF Launch, GoTo
<1>2. CASE Generate
  BY <1>2, DriverInStep DEF Generate, GoTo
<1>3. CASE SkipGrpo
  BY <1>3, DriverInStep DEF SkipGrpo, GoTo
<1>4. CASE ScoreGrpo
  BY <1>4, DriverInStep DEF ScoreGrpo, GoTo
<1>5. CASE UpdateGrpo
  BY <1>5, DriverInStep DEF UpdateGrpo, GoTo
<1>6. CASE SkipOpd
  BY <1>6, DriverInStep DEF SkipOpd, GoTo
<1>7. CASE StartOpd
  <2>1. \A r \in Ranks : issued[r] = "none"
    BY <1>7 DEF StartOpd, InStep
  <2>2. /\ setup' = setup /\ issued' = issued
        /\ left' = [r \in Ranks |-> [p \in Passes |-> Forwards]]
    BY <1>7 DEF StartOpd
  <2>3. Ranks' = Ranks
    BY <2>2 DEF Ranks
  <2> QED BY <2>1, <2>2, <2>3 DEF InStep
<1>8. CASE OpdScored
  BY <1>8, DriverInStep DEF OpdScored, GoTo
<1>9. CASE UpdateOpd
  BY <1>9, DriverInStep DEF UpdateOpd, GoTo
<1>10. CASE Save
  BY <1>10, DriverInStep DEF Save, GoTo
<1>11. CASE NextStep
  BY <1>11, DriverInStep DEF NextStep, GoTo
<1>12. CASE ForwardRuns
  BY <1>12, ForwardInStep
<1>13. CASE Crash
  BY <1>13 DEF Crash, InStep, NotIssued, NoForwards, Ranks
<1>14. ASSUME NEW r \in Ranks, Issue(r) PROVE InStep'
  BY <1>14, IssueInStep
<1>15. CASE UNCHANGED vars
  BY <1>15 DEF vars, driver, scoring, InStep, Ranks, Runnable
<1> QED
  BY <1>1, <1>2, <1>3, <1>4, <1>5, <1>6, <1>7, <1>8, <1>9, <1>10, <1>11, <1>12, <1>13,
     <1>14, <1>15 DEF Next, Fit, Ended

\* No two ranks ever wait in different collectives, unless the threads were asked
\* for on several ranks: prepare_opd_log_probs without opd_parallel_student_base
\* (or on one rank) cannot deadlock on their order.
THEOREM RanksStayInStep == Spec => []RanksInStep
<1>1. Init => InStep
  BY InitInStep
<1>2. InStep /\ [Next]_vars => InStep'
  BY NextInStep
<1>3. InStep => RanksInStep
  BY InStepImpliesRanksInStep
<1> QED BY <1>1, <1>2, <1>3, PTL DEF Spec

-----------------------------------------------------------------------------
(* The schedule: _get_hetero_update_mode counts modulo the cycle; Meant says the
   same by whole cycles. *)

Kinds == {"grpo", "opd"}

LEMMA Division ==
    \A n \in Nat, c \in Nat \ {0} :
      /\ n \div c \in Nat /\ n % c \in Nat /\ n % c < c
      /\ n = (n \div c) * c + (n % c)
<1>1. \A n \in Nat, c \in Nat \ {0} : n = c * (n \div c) + (n % c)
  OBVIOUS
<1>2. \A q \in Int, c \in Nat : c * q = q * c
  OBVIOUS
<1>3. \A n \in Nat, c \in Nat \ {0} : n \div c \in Nat /\ n % c \in 0 .. c - 1
  OBVIOUS
<1> QED BY <1>1, <1>2, <1>3

\* A number is at one place of one cycle only.
LEMMA OneCycle ==
    ASSUME NEW c \in Nat \ {0}, NEW k \in Nat, NEW q \in Nat, NEW r \in 0 .. c - 1,
           NEW t \in 0 .. c - 1, k * c + r = q * c + t
    PROVE  k = q /\ r = t
<1>1. \A a, b \in Nat : a < b => a * c + c <= b * c
  OBVIOUS
<1>2. \A x \in Nat : x * c \in Nat
  OBVIOUS
<1>3. ~(k < q) /\ ~(q < k)
  BY <1>1, <1>2
<1> QED BY <1>2, <1>3

\* The updates of a step are those that the mode means for it.
LEMMA ScheduleMeant ==
    ASSUME setup \in Setup, NEW s \in Nat \ {0}, NEW kind \in Kinds
    PROVE  kind \in Updates(s) <=> Meant(kind, s)
<1> USE DEF Kinds
<1>1. CASE setup.mode = "both"
  BY <1>1 DEF Updates, Meant
<1>2. CASE setup.mode = "warmup"
  BY <1>2 DEF Updates, Meant, Setup
<1>3. CASE setup.mode = "alt"
  <2> DEFINE c == setup.opd + setup.grpo
             o == setup.opd
             n == s - 1
             q == n \div c
             r == n % c
  <2>1. c \in Nat \ {0} /\ o \in Nat /\ o < c /\ n \in Nat
    BY DEF Setup
  <2>2. kind \in Updates(s) <=> (r < o <=> kind = "opd")
    BY <1>3 DEF Updates
  <2>3. Meant(kind, s) <=> ((\E k \in 0 .. s : s \in k * c + 1 .. k * c + o) <=> kind = "opd")
    BY <1>3 DEF Meant
  <2>4. q \in Nat /\ r \in Nat /\ r < c /\ n = q * c + r
    BY <2>1, Division
  <2> HIDE DEF c, o, q, r
  <2>5. \A k \in Nat : k * c \in Nat /\ k <= k * c
    BY <2>1
  <2>6. q \in 0 .. s
    BY <2>1, <2>4, <2>5
  <2>7. ASSUME r < o
        PROVE  \E k \in 0 .. s : s \in k * c + 1 .. k * c + o
    <3>1. s \in q * c + 1 .. q * c + o
      BY <2>1, <2>4, <2>5, <2>7
    <3> QED BY <2>6, <3>1
  <2>8. ASSUME NEW k \in 0 .. s, s \in k * c + 1 .. k * c + o
        PROVE  r < o
    <3> DEFINE t == n - k * c
    <3>1. t \in 0 .. c - 1 /\ t < o /\ k * c + t = q * c + r
      BY <2>1, <2>4, <2>5, <2>8
    <3> HIDE DEF t
    <3>2. t = r
      BY <2>1, <2>4, <3>1, OneCycle
    <3> QED BY <3>1, <3>2
  <2> QED BY <2>2, <2>3, <2>7, <2>8
<1> QED BY <1>1, <1>2, <1>3 DEF Setup

-----------------------------------------------------------------------------
(* The types that the schedule, the scores and PACE need, and what the guards of
   fit have checked. *)

Sites == {"launch", "generate", "grpo", "grpo_update", "opd", "opd_score", "opd_update",
          "save", "next", "over", "dead"}

Typed ==
    /\ setup \in Setups /\ pc \in Sites /\ global_steps \in Nat
    /\ pc # "launch" => global_steps > 0
    /\ actor \in Seq(Nat \X Kinds) /\ pace \in Seq(Nat)
    /\ disk \in [step : Nat, actor : Seq(Nat \X Kinds), pace : Seq(Nat)]
    /\ rollout \in [version : Nat, mixed : Nat]
    /\ pc = "grpo_update" => "grpo" \in Updates(global_steps)
    /\ pc \in {"opd_score", "opd_update"} => "opd" \in Updates(global_steps)

LEMMA InitTyped == Init => Typed
BY DEF Init, Typed, Sites, NoSave

LEMMA NextTyped == Typed /\ [Next]_vars => Typed'
<1> SUFFICES ASSUME Typed, [Next]_vars PROVE Typed'
  OBVIOUS
<1> USE DEF driver, scoring, GoTo, Sites, Kinds
<1>0. \A s : setup' = setup => Updates(s)' = Updates(s)
  BY DEF Updates
<1>1. CASE Launch
  BY <1>1 DEF Launch, Typed, LoadedPace
<1>2. CASE Generate
  <2>1. \A mixed \in 0 .. Groups : mixed \in Nat
    BY SetupAssumption
  <2> QED BY <1>2, <2>1 DEF Generate, Typed, Absorbed
<1>3. CASE SkipGrpo
  BY <1>3 DEF SkipGrpo, Typed
<1>4. CASE ScoreGrpo
  BY <1>0, <1>4 DEF ScoreGrpo, Typed
<1>5. CASE UpdateGrpo
  BY <1>5 DEF UpdateGrpo, Typed
<1>6. CASE SkipOpd
  BY <1>6 DEF SkipOpd, Typed
<1>7. CASE StartOpd
  BY <1>0, <1>7 DEF StartOpd, Typed, Absorbed
<1>8. CASE OpdScored
  BY <1>0, <1>8 DEF OpdScored, Typed
<1>9. CASE UpdateOpd
  BY <1>9 DEF UpdateOpd, Typed
<1>10. CASE Save
  BY <1>10 DEF Save, Typed
<1>11. CASE NextStep
  BY <1>11 DEF NextStep, Typed
<1>12. CASE ForwardRuns
  BY <1>0, <1>12 DEF ForwardRuns, Typed
<1>13. CASE Crash
  BY <1>13 DEF Crash, Typed
<1>14. ASSUME NEW r \in Ranks, Issue(r) PROVE Typed'
  BY <1>0, <1>14 DEF Issue, Typed
<1>15. CASE UNCHANGED vars
  BY <1>0, <1>15 DEF vars, Typed
<1> QED
  BY <1>1, <1>2, <1>3, <1>4, <1>5, <1>6, <1>7, <1>8, <1>9, <1>10, <1>11, <1>12, <1>13,
     <1>14, <1>15 DEF Next, Fit, Ended

-----------------------------------------------------------------------------
(* The weights follow the schedule. *)

\* Every update of the list is meant for its step.
MeantOnly(list) == \A i \in 1 .. Len(list) : Meant(list[i][2], list[i][1])

\* Steps ascend; within one, GRPO is before OPD.
InOrder(list) ==
    \A i, j \in 1 .. Len(list) : i < j =>
      \/ list[i][1] < list[j][1]
      \/ list[i][1] = list[j][1] /\ list[i][2] = "grpo" /\ list[j][2] = "opd"

OpdUntil(list, s) ==
    \A t \in 1 .. s : Meant("opd", t) => \E i \in 1 .. Len(list) : list[i] = <<t, "opd">>

\* A whole history of s steps.
Followed(list, s) ==
    /\ MeantOnly(list) /\ InOrder(list) /\ OpdUntil(list, s)
    /\ \A i \in 1 .. Len(list) : list[i][1] <= s

\* The history in step s, where GRPO may have been and OPD has not.
BeforeOpd(list, s) ==
    /\ MeantOnly(list) /\ InOrder(list) /\ OpdUntil(list, s - 1)
    /\ \A i \in 1 .. Len(list) : list[i][1] < s \/ list[i] = <<s, "grpo">>

Weights ==
    /\ MeantOnly(actor) /\ InOrder(actor)
    /\ Followed(disk.actor, disk.step)
    /\ pc \in {"generate", "grpo", "grpo_update"} => Followed(actor, global_steps - 1)
    /\ pc \in {"opd", "opd_score", "opd_update"} => BeforeOpd(actor, global_steps)
    /\ pc \in {"save", "next"} => Followed(actor, global_steps)

LEMMA WeightsFollow == Weights => WeightsFollowSchedule
BY DEF Weights, WeightsFollowSchedule, Followed, MeantOnly, InOrder, OpdUntil

\* The history grows by the updates of step s, or passes it by.
LEMMA HistoryGrows ==
    ASSUME NEW list \in Seq(Nat \X Kinds), NEW s \in Nat \ {0}
    PROVE  /\ Followed(list, s - 1) => BeforeOpd(list, s)
           /\ Followed(list, s - 1) /\ Meant("grpo", s)
                => BeforeOpd(Append(list, <<s, "grpo">>), s)
           /\ BeforeOpd(list, s) /\ ~Meant("opd", s) => Followed(list, s)
           /\ BeforeOpd(list, s) /\ Meant("opd", s)
                => Followed(Append(list, <<s, "opd">>), s)
<1>1. \A i \in 1 .. Len(list) : list[i][1] \in Nat /\ list[i][2] \in Kinds
  BY DEF Kinds
<1>2. \A x : /\ Len(Append(list, x)) = Len(list) + 1 /\ Len(list) \in Nat
             /\ Append(list, x)[Len(list) + 1] = x
             /\ \A i \in 1 .. Len(list) : Append(list, x)[i] = list[i]
  OBVIOUS
<1>n. Len(list) \in Nat
  OBVIOUS
<1>3. Followed(list, s - 1) => BeforeOpd(list, s)
  BY <1>1 DEF Followed, BeforeOpd
<1>4. ASSUME Followed(list, s - 1), Meant("grpo", s)
      PROVE  BeforeOpd(Append(list, <<s, "grpo">>), s)
  <2> DEFINE new == Append(list, <<s, "grpo">>)
  <2>n. /\ Len(new) = Len(list) + 1 /\ new[Len(list) + 1] = <<s, "grpo">>
        /\ \A i \in 1 .. Len(list) : new[i] = list[i]
    BY <1>2
  <2> HIDE DEF new
  <2>1. MeantOnly(new)
    BY SMTT(20), <1>n, <2>n, <1>4 DEF Followed, MeantOnly
  <2>2. InOrder(new)
    <3> SUFFICES ASSUME NEW i \in 1 .. Len(new), NEW j \in 1 .. Len(new), i < j
                 PROVE  \/ new[i][1] < new[j][1]
                        \/ new[i][1] = new[j][1] /\ new[i][2] = "grpo" /\ new[j][2] = "opd"
      BY DEF InOrder
    <3>1. i \in 1 .. Len(list) /\ new[i] = list[i]
      BY <1>n, <2>n
    <3>2. CASE j = Len(list) + 1
      BY <1>1, <2>n, <1>4, <3>1, <3>2 DEF Followed
    <3>3. CASE j # Len(list) + 1
      <4>1. j \in 1 .. Len(list) /\ new[j] = list[j]
        BY <1>n, <2>n, <3>3
      <4> QED BY <1>4, <3>1, <4>1 DEF Followed, InOrder
    <3> QED BY <3>2, <3>3
  <2>3. OpdUntil(new, s - 1)
    <3> SUFFICES ASSUME NEW t \in 1 .. s - 1, Meant("opd", t)
                 PROVE  \E i \in 1 .. Len(new) : new[i] = <<t, "opd">>
      BY DEF OpdUntil
    <3>1. PICK i \in 1 .. Len(list) : list[i] = <<t, "opd">>
      BY <1>4 DEF Followed, OpdUntil
    <3>2. i \in 1 .. Len(new)
      BY <1>n, <2>n
    <3>3. new[i] = <<t, "opd">>
      BY <2>n, <3>1
    <3> QED BY <3>2, <3>3
  <2>4. \A i \in 1 .. Len(new) : new[i][1] < s \/ new[i] = <<s, "grpo">>
    BY <1>1, <1>n, <2>n, <1>4 DEF Followed
  <2> QED BY <2>1, <2>2, <2>3, <2>4 DEF BeforeOpd, new
<1>5. ASSUME BeforeOpd(list, s), ~Meant("opd", s)
      PROVE  Followed(list, s)
  <2>1. \A i \in 1 .. Len(list) : list[i][1] <= s
    BY <1>1, <1>5 DEF BeforeOpd
  <2>2. OpdUntil(list, s)
    BY SMTT(20), <1>5 DEF BeforeOpd, OpdUntil
  <2> QED BY <1>5, <2>1, <2>2 DEF BeforeOpd, Followed
<1>6. ASSUME BeforeOpd(list, s), Meant("opd", s)
      PROVE  Followed(Append(list, <<s, "opd">>), s)
  <2> DEFINE new == Append(list, <<s, "opd">>)
  <2>n. /\ Len(new) = Len(list) + 1 /\ new[Len(list) + 1] = <<s, "opd">>
        /\ \A i \in 1 .. Len(list) : new[i] = list[i]
    BY <1>2
  <2> HIDE DEF new
  <2>1. MeantOnly(new)
    BY SMTT(20), <1>n, <2>n, <1>6 DEF BeforeOpd, MeantOnly
  <2>2. InOrder(new)
    <3> SUFFICES ASSUME NEW i \in 1 .. Len(new), NEW j \in 1 .. Len(new), i < j
                 PROVE  \/ new[i][1] < new[j][1]
                        \/ new[i][1] = new[j][1] /\ new[i][2] = "grpo" /\ new[j][2] = "opd"
      BY DEF InOrder
    <3>1. i \in 1 .. Len(list) /\ new[i] = list[i]
      BY <1>n, <2>n
    <3>2. CASE j = Len(list) + 1
      BY <1>1, <2>n, <1>6, <3>1, <3>2 DEF BeforeOpd
    <3>3. CASE j # Len(list) + 1
      <4>1. j \in 1 .. Len(list) /\ new[j] = list[j]
        BY <1>n, <2>n, <3>3
      <4> QED BY <1>6, <3>1, <4>1 DEF BeforeOpd, InOrder
    <3> QED BY <3>2, <3>3
  <2>3. OpdUntil(new, s)
    <3> SUFFICES ASSUME NEW t \in 1 .. s, Meant("opd", t)
                 PROVE  \E i \in 1 .. Len(new) : new[i] = <<t, "opd">>
      BY DEF OpdUntil
    <3>1. CASE t = s
      <4>1. Len(list) + 1 \in 1 .. Len(new)
        BY <1>n, <2>n
      <4> QED BY <2>n, <3>1, <4>1
    <3>2. CASE t # s
      <4>1. PICK i \in 1 .. Len(list) : list[i] = <<t, "opd">>
        BY SMTT(20), <1>6, <3>2 DEF BeforeOpd, OpdUntil
      <4>2. i \in 1 .. Len(new)
        BY <1>n, <2>n
      <4>3. new[i] = <<t, "opd">>
        BY <2>n, <4>1
      <4> QED BY <4>2, <4>3
    <3> QED BY <3>1, <3>2
  <2>4. \A i \in 1 .. Len(new) : new[i][1] <= s
    BY SMTT(20), <1>1, <1>n, <2>n, <1>6 DEF BeforeOpd
  <2> QED BY <2>1, <2>2, <2>3, <2>4 DEF Followed, new
<1> QED BY <1>3, <1>4, <1>5, <1>6

LEMMA InitWeights == Init => Weights
BY DEF Init, Weights, NoSave, Followed, MeantOnly, InOrder, OpdUntil

\* The predicates depend on the configuration only, which never changes.
LEMMA SameHistory ==
    ASSUME setup' = setup
    PROVE  \A list : /\ MeantOnly(list)' <=> MeantOnly(list)
                     /\ InOrder(list)' <=> InOrder(list)
                     /\ \A s : /\ Followed(list, s)' <=> Followed(list, s)
                               /\ BeforeOpd(list, s)' <=> BeforeOpd(list, s)
BY DEF MeantOnly, InOrder, Followed, BeforeOpd, OpdUntil, Meant

LEMMA NextWeights == Typed /\ Weights /\ [Next]_vars => Weights'
<1> SUFFICES ASSUME Typed, Weights, [Next]_vars PROVE Weights'
  OBVIOUS
<1> USE DEF driver, scoring, GoTo
<1>s. setup \in Setup /\ pc \in Sites /\ global_steps \in Nat /\ actor \in Seq(Nat \X Kinds)
  BY SetupAssumption DEF Typed
<1>m. pc # "launch" => /\ global_steps \in Nat \ {0}
                       /\ \A kind \in Kinds :
                            kind \in Updates(global_steps) <=> Meant(kind, global_steps)
  BY <1>s, ScheduleMeant DEF Typed
<1>h. pc # "launch" =>
        /\ Followed(actor, global_steps - 1) => BeforeOpd(actor, global_steps)
        /\ Followed(actor, global_steps - 1) /\ Meant("grpo", global_steps)
             => BeforeOpd(Append(actor, <<global_steps, "grpo">>), global_steps)
        /\ BeforeOpd(actor, global_steps) /\ ~Meant("opd", global_steps)
             => Followed(actor, global_steps)
        /\ BeforeOpd(actor, global_steps) /\ Meant("opd", global_steps)
             => Followed(Append(actor, <<global_steps, "opd">>), global_steps)
  BY <1>s, <1>m, HistoryGrows
<1>k. setup' = setup
  BY DEF Next, Fit, Ended, vars, Launch, Generate, SkipGrpo, ScoreGrpo, UpdateGrpo, SkipOpd,
         StartOpd, OpdScored, UpdateOpd, Save, NextStep, ForwardRuns, Crash, Issue
<1>f. \A list : /\ MeantOnly(list)' <=> MeantOnly(list)
                /\ InOrder(list)' <=> InOrder(list)
                /\ \A s : /\ Followed(list, s)' <=> Followed(list, s)
                          /\ BeforeOpd(list, s)' <=> BeforeOpd(list, s)
  BY <1>k, SameHistory
<1>a. \A list, s : /\ Followed(list, s) => MeantOnly(list) /\ InOrder(list)
                   /\ BeforeOpd(list, s) => MeantOnly(list) /\ InOrder(list)
  BY DEF Followed, BeforeOpd
<1>1. CASE Launch
  <2>1. actor' = disk.actor /\ global_steps' - 1 = disk.step /\ disk' = disk /\ pc' = "generate"
    BY <1>1 DEF Launch, Typed
  <2> QED BY <1>f, <1>a, <2>1 DEF Weights
<1>2. CASE Generate
  <2>1. /\ UNCHANGED <<actor, disk, global_steps>>
        /\ pc = "generate" /\ pc' = "grpo"
    BY <1>2 DEF Generate
  <2> QED BY <1>f, <2>1 DEF Weights
<1>3. CASE SkipGrpo
  <2>1. UNCHANGED <<actor, disk, global_steps>> /\ pc = "grpo" /\ pc' = "opd"
    BY <1>3 DEF SkipGrpo
  <2> QED BY <1>f, <1>h, <2>1 DEF Weights
<1>4. CASE ScoreGrpo
  <2>1. /\ UNCHANGED <<actor, disk, global_steps>>
        /\ pc = "grpo" /\ pc' \in {"grpo_update", "dead"}
    BY <1>4 DEF ScoreGrpo
  <2> QED BY <1>f, <2>1 DEF Weights
<1>5. CASE UpdateGrpo
  <2>1. /\ actor' = Append(actor, <<global_steps, "grpo">>) /\ UNCHANGED <<disk, global_steps>>
        /\ pc = "grpo_update" /\ pc' = "opd" /\ "grpo" \in Updates(global_steps)
    BY <1>5 DEF UpdateGrpo, Typed
  <2>2. Meant("grpo", global_steps)
    BY <1>m, <2>1 DEF Kinds
  <2>3. BeforeOpd(actor', global_steps)
    BY <1>h, <2>1, <2>2 DEF Weights
  <2> QED BY <1>f, <1>a, <2>1, <2>3 DEF Weights
<1>6. CASE SkipOpd
  <2>1. /\ UNCHANGED <<actor, disk, global_steps>>
        /\ pc = "opd" /\ pc' = "save" /\ "opd" \notin Updates(global_steps)
    BY <1>6 DEF SkipOpd
  <2>2. ~Meant("opd", global_steps)
    BY <1>m, <2>1 DEF Kinds
  <2> QED BY <1>f, <1>h, <2>1, <2>2 DEF Weights
<1>7. CASE StartOpd
  <2>1. UNCHANGED <<actor, disk, global_steps>> /\ pc = "opd" /\ pc' = "opd_score"
    BY <1>7 DEF StartOpd
  <2> QED BY <1>f, <2>1 DEF Weights
<1>8. CASE OpdScored
  <2>1. UNCHANGED <<actor, disk, global_steps>> /\ pc = "opd_score" /\ pc' = "opd_update"
    BY <1>8 DEF OpdScored
  <2> QED BY <1>f, <2>1 DEF Weights
<1>9. CASE UpdateOpd
  <2>1. /\ actor' = Append(actor, <<global_steps, "opd">>) /\ UNCHANGED <<disk, global_steps>>
        /\ pc = "opd_update" /\ pc' = "save" /\ "opd" \in Updates(global_steps)
    BY <1>9 DEF UpdateOpd, Typed
  <2>2. Meant("opd", global_steps)
    BY <1>m, <2>1 DEF Kinds
  <2>3. Followed(actor', global_steps)
    BY <1>h, <2>1, <2>2 DEF Weights
  <2> QED BY <1>f, <1>a, <2>1, <2>3 DEF Weights
<1>10. CASE Save
  <2>1. /\ UNCHANGED <<actor, global_steps>> /\ pc = "save" /\ pc' = "next"
        /\ (disk' = disk \/ (disk'.actor = actor /\ disk'.step = global_steps))
    BY <1>10 DEF Save
  <2> QED BY <1>f, <2>1 DEF Weights
<1>11. CASE NextStep
  <2>1. /\ UNCHANGED <<actor, disk>> /\ global_steps' - 1 = global_steps
        /\ pc = "next" /\ pc' \in {"over", "generate"}
    BY <1>11, <1>s DEF NextStep
  <2> QED BY <1>f, <2>1 DEF Weights
<1>12. CASE ForwardRuns
  BY <1>12, <1>f DEF ForwardRuns, Weights
<1>13. CASE Crash
  <2>1. UNCHANGED disk /\ actor' = <<>> /\ pc' = "launch"
    BY <1>13 DEF Crash
  <2>2. MeantOnly(<<>>) /\ InOrder(<<>>)
    BY DEF MeantOnly, InOrder
  <2> QED BY <1>f, <2>1, <2>2 DEF Weights
<1>14. ASSUME NEW r \in Ranks, Issue(r) PROVE Weights'
  BY <1>14, <1>f DEF Issue, Weights
<1>15. CASE UNCHANGED vars
  BY <1>15, <1>f DEF vars, Weights
<1> QED
  BY <1>1, <1>2, <1>3, <1>4, <1>5, <1>6, <1>7, <1>8, <1>9, <1>10, <1>11, <1>12, <1>13,
     <1>14, <1>15 DEF Next, Fit, Ended

LEMMA TypedAlways == Spec => []Typed
<1>1. Init => Typed
  BY InitTyped
<1>2. Typed /\ [Next]_vars => Typed'
  BY NextTyped
<1> QED BY <1>1, <1>2, PTL DEF Spec

\* Through any number of crashes and restarts, and for every schedule, the weights
\* come from the updates the schedule means: GRPO before OPD, no update twice, no
\* OPD step of the past left out (_get_hetero_update_mode, fit, _load_checkpoint).
THEOREM WeightsAreScheduled == Spec => []WeightsFollowSchedule
<1>1. Init => Weights
  BY InitWeights
<1>2. Typed /\ Weights /\ [Next]_vars => Weights'
  BY NextWeights
<1>3. Weights => WeightsFollowSchedule
  BY WeightsFollow
<1> QED BY <1>1, <1>2, <1>3, TypedAlways, PTL DEF Spec

-----------------------------------------------------------------------------
(* What the updates compare with. *)

\* A pass whose forwards have begun has set use_ref_inputs in its own copy.
Marked ==
    /\ DOMAIN meta = Ranks /\ \A r \in Ranks : DOMAIN meta[r] = Passes
    /\ left \in [Ranks -> [Passes -> Int]]
    /\ \A r \in Ranks : issued[r] # "none" =>
         issued[r] \in Passes /\ meta[r][issued[r]] = UsesRefInputs(issued[r])
    /\ pc = "opd_score" =>
         \A r \in Ranks, p \in Passes : left[r][p] = Forwards \/ meta[r][p] = UsesRefInputs(p)
    /\ \A f \in inputs : f[2] = UsesRefInputs(f[1])

\* The scores are of the weights; the updates since the generation are this step's.
Scored ==
    /\ pc \in {"grpo_update", "opd_update"} => old_log_probs = Len(actor)
    /\ pc \in {"grpo", "grpo_update"} => rollout.version = Len(actor)
    /\ pc \in {"opd", "opd_score", "opd_update"} =>
         \A i \in 1 .. Len(actor) : i > rollout.version <=> actor[i][1] = global_steps

\* Before a GRPO update the weights have no update of this step at all.
LEMMA ScoredSuffices == Typed /\ Weights /\ Marked /\ Scored => ScoredByCurrentWeights
<1> SUFFICES ASSUME Typed, Weights, Marked, Scored, pc \in {"grpo_update", "opd_update"}
             PROVE  /\ old_log_probs = Len(actor)
                    /\ \A i \in 1 .. Len(actor) :
                         i > rollout.version <=> actor[i][1] = global_steps
                    /\ \A f \in inputs : f[2] = UsesRefInputs(f[1])
  BY DEF ScoredByCurrentWeights
<1>1. CASE pc = "grpo_update"
  <2>1. global_steps \in Nat /\ \A i \in 1 .. Len(actor) : actor[i][1] \in Nat
    BY DEF Typed, Kinds
  <2>2. \A i \in 1 .. Len(actor) : actor[i][1] <= global_steps - 1
    BY <1>1 DEF Weights, Followed
  <2>3. rollout.version = Len(actor) /\ Len(actor) \in Nat
    BY <1>1 DEF Scored, Typed
  <2>4. \A i \in 1 .. Len(actor) : ~(i > rollout.version)
    BY <2>3
  <2>5. \A i \in 1 .. Len(actor) : actor[i][1] # global_steps
    BY <2>1, <2>2
  <2> QED BY <2>4, <2>5 DEF Scored, Marked
<1>2. CASE pc = "opd_update"
  BY <1>2 DEF Scored, Marked
<1> QED BY <1>1, <1>2

LEMMA InitMarked == Init => Marked
BY DEF Init, Marked, NoCopies, NoForwards, NotIssued

LEMMA NextMarked == InStep /\ Marked /\ [Next]_vars => Marked'
<1> SUFFICES ASSUME InStep, Marked, [Next]_vars PROVE Marked'
  OBVIOUS
<1> USE DEF driver, scoring, GoTo
<1>k. setup' = setup /\ Ranks' = Ranks
  BY DEF Next, Fit, Ended, vars, Launch, Generate, SkipGrpo, ScoreGrpo, UpdateGrpo, SkipOpd,
         StartOpd, OpdScored, UpdateOpd, Save, NextStep, ForwardRuns, Crash, Issue, Ranks
<1>1. ASSUME UNCHANGED scoring, pc' # "opd_score" \/ pc' = pc PROVE Marked'
  BY <1>k, <1>1 DEF Marked
<1>2. CASE StartOpd
  <2>1. /\ UNCHANGED <<issued, meta>> /\ inputs' = {}
        /\ left' = [r \in Ranks |-> [p \in Passes |-> Forwards]]
    BY <1>2 DEF StartOpd
  <2> QED BY <1>k, <2>1, SetupAssumption DEF Marked
<1>3. CASE ForwardRuns
  <2>1. /\ UNCHANGED <<pc, meta>> /\ issued' = NotIssued
        /\ \A r \in Ranks : issued[r] # "none"
        /\ left'   = [r \in Ranks |-> [left[r] EXCEPT ![issued[r]] = @ - 1]]
        /\ inputs' = inputs \cup {<<issued[r], meta[r][issued[r]]>> : r \in Ranks}
    BY <1>3 DEF ForwardRuns, CopyOf
  <2>2. left' \in [Ranks -> [Passes -> Int]]
    BY <2>1 DEF Marked
  <2>3. \A r \in Ranks, p \in Passes : p # issued[r] => left'[r][p] = left[r][p]
    BY <2>1 DEF Marked
  <2>4. \A r \in Ranks : issued'[r] = "none"
    BY <2>1 DEF NotIssued
  <2>5. \A f \in inputs' : f[2] = UsesRefInputs(f[1])
    BY <2>1 DEF Marked
  <2>6. pc = "opd_score" =>
          \A r \in Ranks, p \in Passes : left'[r][p] = Forwards \/ meta[r][p] = UsesRefInputs(p)
    BY <2>1, <2>3 DEF Marked
  <2> QED BY <1>k, <2>1, <2>2, <2>4, <2>5, <2>6 DEF Marked
<1>4. CASE Crash
  <2>1. /\ left' = NoForwards /\ issued' = NotIssued /\ meta' = NoCopies /\ inputs' = {}
        /\ pc' = "launch"
    BY <1>4 DEF Crash
  <2> QED BY <1>k, <2>1 DEF Marked, NoForwards, NotIssued, NoCopies
<1>5. ASSUME NEW r \in Ranks, Issue(r) PROVE Marked'
  <2>1. PICK p \in Runnable(r) : /\ issued' = [issued EXCEPT ![r] = p]
                                 /\ Begin(r, p)
    BY <1>5 DEF Issue
  <2>2. UNCHANGED <<pc, left, inputs>> /\ pc = "opd_score"
    BY <1>5 DEF Issue
  <2>3. p \in Passes
    BY DEF Runnable, Passes, Proxies
  <2>4. meta' = IF left[r][p] = Forwards THEN [meta EXCEPT ![r][p] = UsesRefInputs(p)] ELSE meta
    BY <2>1 DEF Begin, CopyOf
  <2>5. /\ DOMAIN meta' = Ranks /\ \A q \in Ranks : DOMAIN meta'[q] = Passes
        /\ meta'[r][p] = UsesRefInputs(p)
        /\ \A q \in Ranks, o \in Passes : q # r \/ o # p => meta'[q][o] = meta[q][o]
    BY <2>2, <2>3, <2>4 DEF Marked
  <2>6. issued'[r] = p /\ \A q \in Ranks \ {r} : issued'[q] = issued[q]
    BY <2>1 DEF InStep
  <2>7. \A q \in Ranks : issued'[q] # "none" =>
          issued'[q] \in Passes /\ meta'[q][issued'[q]] = UsesRefInputs(issued'[q])
    BY <2>3, <2>5, <2>6 DEF Marked
  <2>8. \A q \in Ranks, o \in Passes : left'[q][o] = Forwards \/ meta'[q][o] = UsesRefInputs(o)
    BY <2>2, <2>5 DEF Marked
  <2> QED BY <1>k, <2>2, <2>5, <2>7, <2>8 DEF Marked
<1>6. CASE Launch
  BY <1>1, <1>6 DEF Launch
<1>7. CASE Generate
  BY <1>1, <1>7 DEF Generate
<1>8. CASE SkipGrpo
  BY <1>1, <1>8 DEF SkipGrpo
<1>9. CASE ScoreGrpo
  BY <1>1, <1>9 DEF ScoreGrpo
<1>10. CASE UpdateGrpo
  BY <1>1, <1>10 DEF UpdateGrpo
<1>11. CASE SkipOpd
  BY <1>1, <1>11 DEF SkipOpd
<1>12. CASE OpdScored
  BY <1>1, <1>12 DEF OpdScored
<1>13. CASE UpdateOpd
  BY <1>1, <1>13 DEF UpdateOpd
<1>14. CASE Save
  BY <1>1, <1>14 DEF Save
<1>15. CASE NextStep
  BY <1>1, <1>15 DEF NextStep
<1>16. CASE UNCHANGED vars
  BY <1>1, <1>16 DEF vars
<1> QED
  BY <1>2, <1>3, <1>4, <1>5, <1>6, <1>7, <1>8, <1>9, <1>10, <1>11, <1>12, <1>13, <1>14,
     <1>15, <1>16 DEF Next, Fit, Ended

LEMMA InitScored == Init => Scored
BY DEF Init, Scored

LEMMA NextScored == Typed /\ Weights /\ InStep /\ Scored /\ [Next]_vars => Scored'
<1> SUFFICES ASSUME Typed, Weights, InStep, Scored, [Next]_vars PROVE Scored'
  OBVIOUS
<1> USE DEF driver, scoring, GoTo
<1>1. CASE Launch
  BY <1>1 DEF Launch, Scored
<1>2. CASE Generate
  <2>1. /\ pc' = "grpo" /\ actor' = actor /\ rollout'.version = Len(actor)
    BY <1>2 DEF Generate
  <2> QED BY <2>1 DEF Scored
<1>a. /\ global_steps \in Nat /\ Len(actor) \in Nat
      /\ \A i \in 1 .. Len(actor) : actor[i][1] \in Nat
  BY DEF Typed, Kinds
<1>b. pc \in {"grpo", "grpo_update"} =>
        \A i \in 1 .. Len(actor) : ~(i > rollout.version) /\ actor[i][1] # global_steps
  <2>1. pc \in {"grpo", "grpo_update"} =>
          \A i \in 1 .. Len(actor) : actor[i][1] <= global_steps - 1
    BY DEF Weights, Followed
  <2> QED BY <1>a, <2>1 DEF Scored
<1>3. CASE SkipGrpo
  <2>1. UNCHANGED <<actor, rollout, global_steps>> /\ pc = "grpo" /\ pc' = "opd"
    BY <1>3 DEF SkipGrpo
  <2> QED BY <1>b, <2>1 DEF Scored
<1>4. CASE ScoreGrpo
  <2>1. /\ UNCHANGED <<actor, rollout>> /\ pc = "grpo" /\ pc' \in {"grpo_update", "dead"}
        /\ pc' = "grpo_update" => old_log_probs' = Len(actor)
    BY <1>4 DEF ScoreGrpo
  <2> QED BY <2>1 DEF Scored
<1>5. CASE UpdateGrpo
  <2>1. /\ UNCHANGED <<rollout, global_steps>> /\ pc = "grpo_update" /\ pc' = "opd"
        /\ actor' = Append(actor, <<global_steps, "grpo">>)
    BY <1>5 DEF UpdateGrpo
  <2>2. /\ Len(actor') = Len(actor) + 1 /\ actor'[Len(actor) + 1] = <<global_steps, "grpo">>
        /\ \A i \in 1 .. Len(actor) : actor'[i] = actor[i]
    BY <2>1 DEF Typed
  <2>3. \A i \in 1 .. Len(actor') : i > rollout.version <=> actor'[i][1] = global_steps
    <3> SUFFICES ASSUME NEW i \in 1 .. Len(actor')
                 PROVE  i > rollout.version <=> actor'[i][1] = global_steps
      OBVIOUS
    <3>1. CASE i = Len(actor) + 1
      BY <1>a, <2>1, <2>2, <3>1 DEF Scored
    <3>2. CASE i # Len(actor) + 1
      <4>1. i \in 1 .. Len(actor) /\ actor'[i] = actor[i]
        BY <1>a, <2>2, <3>2
      <4> QED BY <1>b, <2>1, <4>1
    <3> QED BY <3>1, <3>2
  <2> QED BY <2>1, <2>3 DEF Scored
<1>6. CASE SkipOpd
  BY <1>6 DEF SkipOpd, Scored
<1>7. CASE StartOpd
  BY <1>7 DEF StartOpd, Scored
<1>8. CASE OpdScored
  BY <1>8 DEF OpdScored, Scored, FreshScores
<1>9. CASE UpdateOpd
  BY <1>9 DEF UpdateOpd, Scored
<1>10. CASE Save
  BY <1>10 DEF Save, Scored
<1>11. CASE NextStep
  BY <1>11 DEF NextStep, Scored
<1>12. CASE ForwardRuns
  BY <1>12 DEF ForwardRuns, Scored
<1>13. CASE Crash
  BY <1>13 DEF Crash, Scored
<1>14. ASSUME NEW r \in Ranks, Issue(r) PROVE Scored'
  BY <1>14 DEF Issue, Scored
<1>15. CASE UNCHANGED vars
  BY <1>15 DEF vars, Scored
<1> QED
  BY <1>1, <1>2, <1>3, <1>4, <1>5, <1>6, <1>7, <1>8, <1>9, <1>10, <1>11, <1>12, <1>13,
     <1>14, <1>15 DEF Next, Fit, Ended

\* An update compares with the log-probs of the very weights it changes, on the
\* responses of this step's generation, and every model scored its own inputs, also
\* with the threads of opd_parallel_student_base: _shallow_copy_dataproto is enough.
THEOREM ScoresAreCurrent == Spec => []ScoredByCurrentWeights
<1>1. Init => Weights /\ InStep /\ Marked /\ Scored
  BY InitWeights, InitInStep, InitMarked, InitScored
<1>2. Typed /\ Weights /\ [Next]_vars => Weights'
  BY NextWeights
<1>3. InStep /\ [Next]_vars => InStep'
  BY NextInStep
<1>4. InStep /\ Marked /\ [Next]_vars => Marked'
  BY NextMarked
<1>5. Typed /\ Weights /\ InStep /\ Scored /\ [Next]_vars => Scored'
  BY NextScored
<1>6. Typed /\ Weights /\ Marked /\ Scored => ScoredByCurrentWeights
  BY ScoredSuffices
<1> QED BY <1>1, <1>2, <1>3, <1>4, <1>5, <1>6, TypedAlways, PTL DEF Spec

-----------------------------------------------------------------------------
(* PACE absorbs each due reward once and in order. *)

LEMMA AscendingGrows ==
    ASSUME NEW list \in Seq(Nat), NEW S, IsFiniteSet(S), NEW x \in Nat,
           \A t \in S : t < x, IsAscending(list, S)
    PROVE  IsAscending(Append(list, x), S \cup {x})
<1> DEFINE n == Len(list)
           new == Append(list, x)
<1>1. /\ n \in Nat /\ Len(new) = n + 1 /\ new[n + 1] = x
      /\ \A i \in 1 .. n : new[i] = list[i]
  OBVIOUS
<1>2. /\ n = Cardinality(S) /\ {list[i] : i \in 1 .. n} = S
      /\ \A i \in 2 .. n : list[i - 1] < list[i]
  BY DEF IsAscending
<1>3. Cardinality(S \cup {x}) = Cardinality(S) + 1
  <2>1. x \notin S
    OBVIOUS
  <2> QED BY <2>1, FS_AddElement
<1> HIDE DEF n, new
<1>4. {new[i] : i \in 1 .. Len(new)} = S \cup {x}
  <2>1. \A i \in 1 .. Len(new) : new[i] \in S \cup {x}
    BY <1>1, <1>2
  <2>2. \A t \in S : \E i \in 1 .. n : list[i] = t
    BY <1>2
  <2>3. \A t \in S \cup {x} : \E i \in 1 .. Len(new) : new[i] = t
    BY <1>1, <2>2
  <2> QED BY <2>1, <2>3
<1>5. \A i \in 2 .. Len(new) : new[i - 1] < new[i]
  <2> SUFFICES ASSUME NEW i \in 2 .. Len(new) PROVE new[i - 1] < new[i]
    OBVIOUS
  <2>1. i - 1 \in 1 .. n /\ new[i - 1] = list[i - 1]
    BY <1>1
  <2>2. CASE i = n + 1
    <3>1. list[i - 1] \in S
      BY <1>2, <2>1
    <3> QED BY <1>1, <2>1, <2>2, <3>1
  <2>3. CASE i # n + 1
    BY <1>1, <1>2, <2>1, <2>3
  <2> QED BY <2>2, <2>3
<1> QED BY <1>1, <1>2, <1>3, <1>4, <1>5 DEF IsAscending, n, new

LEMMA EmptyAscends == IsAscending(<<>>, {})
BY FS_EmptySet DEF IsAscending

\* Is the reward of step s due?
DueAt(s) ==
    /\ s % setup.interval = 0
    /\ setup.source = "rollout" \/ (setup.source = "validation" /\ Meant("opd", s))

LEMMA DueGrows ==
    ASSUME NEW s \in Nat \ {0}
    PROVE  /\ DueAt(s) => Due(s) = Due(s - 1) \cup {s}
           /\ ~DueAt(s) => Due(s) = Due(s - 1)
           /\ IsFiniteSet(Due(s - 1)) /\ \A t \in Due(s - 1) : t < s
<1>1. 1 .. s = (1 .. (s - 1)) \cup {s} /\ s \notin 1 .. (s - 1)
  OBVIOUS
<1>2. IsFiniteSet(1 .. (s - 1))
  <2> DEFINE b == s - 1
  <2>1. b \in Int
    OBVIOUS
  <2> HIDE DEF b
  <2>2. IsFiniteSet(1 .. b)
    BY <2>1, FS_Interval
  <2> QED BY <2>2 DEF b
<1>3. Due(s - 1) \subseteq 1 .. (s - 1)
  BY DEF Due
<1>4. IsFiniteSet(Due(s - 1))
  BY <1>2, <1>3, FS_Subset
<1>5. \A t : t \in Due(s) <=> t \in 1 .. s /\ DueAt(t)
  BY DEF Due, DueAt
<1>6. \A t : t \in Due(s - 1) <=> t \in 1 .. (s - 1) /\ DueAt(t)
  BY DEF Due, DueAt
<1>7. DueAt(s) => Due(s) = Due(s - 1) \cup {s}
  BY <1>1, <1>5, <1>6
<1>8. ~DueAt(s) => Due(s) = Due(s - 1)
  BY <1>1, <1>5, <1>6
<1> QED BY <1>3, <1>4, <1>7, <1>8

\* The rewards absorbed when fit is at pc; a rollout's reward is absorbed at the
\* beginning of the step, a validation's before the OPD update.
Absorbing ==
    /\ IsAscending(disk.pace, Due(disk.step))
    /\ pc = "generate" => IsAscending(pace, Due(global_steps - 1))
    /\ pc \in {"grpo", "grpo_update", "opd"} =>
         IsAscending(pace, Due(IF setup.source = "rollout" THEN global_steps ELSE global_steps - 1))
    /\ pc \in {"opd_score", "opd_update", "save", "next"} => IsAscending(pace, Due(global_steps))
    /\ pc = "opd_update" => token_lambda = pace

LEMMA AbsorbingSuffices == Absorbing => PaceSeesEachStepOnce
BY DEF Absorbing, PaceSeesEachStepOnce

LEMMA InitAbsorbing == Init => Absorbing
<1> SUFFICES ASSUME Init PROVE Absorbing
  OBVIOUS
<1>1. disk.pace = <<>> /\ disk.step = 0 /\ pc = "launch"
  BY DEF Init, NoSave
<1>2. Due(0) = {}
  BY DEF Due
<1> QED BY <1>1, <1>2, EmptyAscends DEF Absorbing

LEMMA NextAbsorbing == Typed /\ InStep /\ Absorbing /\ [Next]_vars => Absorbing'
<1> SUFFICES ASSUME Typed, InStep, Absorbing, [Next]_vars PROVE Absorbing'
  OBVIOUS
<1> USE DEF driver, scoring, GoTo
<1>k. setup' = setup
  BY DEF Next, Fit, Ended, vars, Launch, Generate, SkipGrpo, ScoreGrpo, UpdateGrpo, SkipOpd,
         StartOpd, OpdScored, UpdateOpd, Save, NextStep, ForwardRuns, Crash, Issue
<1>d. \A s : Due(s)' = Due(s)
  BY <1>k DEF Due, Meant
<1>s. pc # "launch" => global_steps \in Nat \ {0}
  BY DEF Typed
<1>m. pc # "launch" => ("opd" \in Updates(global_steps) <=> Meant("opd", global_steps))
  BY <1>s, ScheduleMeant, SetupAssumption DEF Typed, Kinds
<1>g. pc # "launch" =>
        /\ DueAt(global_steps) => Due(global_steps) = Due(global_steps - 1) \cup {global_steps}
        /\ ~DueAt(global_steps) => Due(global_steps) = Due(global_steps - 1)
  BY <1>s, DueGrows
<1>e. pc # "launch" /\ IsAscending(pace, Due(global_steps - 1))
        => IsAscending(Append(pace, global_steps), Due(global_steps - 1) \cup {global_steps})
  <2> SUFFICES ASSUME pc # "launch", IsAscending(pace, Due(global_steps - 1))
               PROVE  IsAscending(Append(pace, global_steps),
                                  Due(global_steps - 1) \cup {global_steps})
    OBVIOUS
  <2>1. /\ IsFiniteSet(Due(global_steps - 1))
        /\ \A t \in Due(global_steps - 1) : t < global_steps
    BY <1>s, DueGrows
  <2>2. pace \in Seq(Nat) /\ global_steps \in Nat
    BY DEF Typed
  <2> QED BY <2>1, <2>2, AscendingGrows
<1>1. CASE Launch
  <2>1. /\ global_steps' - 1 = disk.step /\ disk' = disk /\ pc' = "generate"
        /\ pace' = IF setup.source = "off" THEN <<>> ELSE disk.pace
    BY <1>1 DEF Launch, LoadedPace, Typed
  <2>2. setup.source = "off" => Due(disk.step) = {}
    BY DEF Due
  <2>3. IsAscending(pace', Due(disk.step))
    BY <2>1, <2>2, EmptyAscends DEF Absorbing
  <2> QED BY <1>d, <2>1, <2>3 DEF Absorbing
<1>2. CASE Generate
  <2>1. /\ UNCHANGED <<global_steps, disk>> /\ pc = "generate" /\ pc' = "grpo"
        /\ pace' = IF setup.source = "rollout" /\ global_steps % setup.interval = 0
                   THEN Append(pace, global_steps) ELSE pace
    BY <1>2 DEF Generate, Absorbed
  <2>2. IsAscending(pace, Due(global_steps - 1))
    BY <2>1 DEF Absorbing
  <2>3. setup.source = "rollout" => IsAscending(pace', Due(global_steps))
    BY <1>g, <1>e, <2>1, <2>2 DEF DueAt
  <2>4. setup.source # "rollout" => IsAscending(pace', Due(global_steps - 1))
    BY <2>1, <2>2
  <2> QED BY <1>k, <1>d, <2>1, <2>3, <2>4 DEF Absorbing
<1>3. CASE SkipGrpo
  <2>1. UNCHANGED <<global_steps, disk, pace>> /\ pc = "grpo" /\ pc' = "opd"
    BY <1>3 DEF SkipGrpo
  <2> QED BY <1>k, <1>d, <2>1 DEF Absorbing
<1>4. CASE ScoreGrpo
  <2>1. UNCHANGED <<global_steps, disk, pace>> /\ pc = "grpo" /\ pc' \in {"grpo_update", "dead"}
    BY <1>4 DEF ScoreGrpo
  <2> QED BY <1>k, <1>d, <2>1 DEF Absorbing
<1>5. CASE UpdateGrpo
  <2>1. UNCHANGED <<global_steps, disk, pace>> /\ pc = "grpo_update" /\ pc' = "opd"
    BY <1>5 DEF UpdateGrpo
  <2> QED BY <1>k, <1>d, <2>1 DEF Absorbing
<1>6. CASE SkipOpd
  <2>1. /\ UNCHANGED <<global_steps, disk, pace>> /\ pc = "opd" /\ pc' = "save"
        /\ ~Meant("opd", global_steps)
    BY <1>6, <1>m DEF SkipOpd
  <2>2. IsAscending(pace, Due(global_steps))
    BY <1>g, <2>1 DEF Absorbing, DueAt
  <2> QED BY <1>d, <2>1, <2>2 DEF Absorbing
<1>7. CASE StartOpd
  <2>1. /\ UNCHANGED <<global_steps, disk>> /\ pc = "opd" /\ pc' = "opd_score"
        /\ Meant("opd", global_steps)
        /\ pace' = IF setup.source = "validation" /\ global_steps % setup.interval = 0
                   THEN Append(pace, global_steps) ELSE pace
    BY <1>7, <1>m DEF StartOpd, Absorbed
  <2>2. CASE setup.source = "rollout"
    BY <1>d, <2>1, <2>2 DEF Absorbing
  <2>3. CASE setup.source # "rollout"
    <3>1. IsAscending(pace, Due(global_steps - 1))
      BY <2>1, <2>3 DEF Absorbing
    <3>2. IsAscending(pace', Due(global_steps))
      BY <1>g, <1>e, <2>1, <2>3, <3>1 DEF DueAt
    <3> QED BY <1>d, <2>1, <3>2 DEF Absorbing
  <2> QED BY <2>2, <2>3
<1>8. CASE OpdScored
  <2>1. /\ UNCHANGED <<global_steps, disk, pace>> /\ pc = "opd_score" /\ pc' = "opd_update"
        /\ token_lambda' = pace
    BY <1>8 DEF OpdScored, AttachedLambda
  <2> QED BY <1>d, <2>1 DEF Absorbing
<1>9. CASE UpdateOpd
  <2>1. UNCHANGED <<global_steps, disk, pace>> /\ pc = "opd_update" /\ pc' = "save"
    BY <1>9 DEF UpdateOpd
  <2> QED BY <1>d, <2>1 DEF Absorbing
<1>10. CASE Save
  <2>1. /\ UNCHANGED <<global_steps, pace>> /\ pc = "save" /\ pc' = "next"
        /\ (disk' = disk \/ (disk'.pace = pace /\ disk'.step = global_steps))
    BY <1>10 DEF Save
  <2> QED BY <1>d, <2>1 DEF Absorbing
<1>11. CASE NextStep
  <2>1. /\ UNCHANGED <<pace, disk>> /\ global_steps' - 1 = global_steps
        /\ pc = "next" /\ pc' \in {"over", "generate"}
    BY <1>11, <1>s DEF NextStep
  <2> QED BY <1>d, <2>1 DEF Absorbing
<1>12. CASE ForwardRuns
  BY <1>12, <1>k, <1>d DEF ForwardRuns, Absorbing
<1>13. CASE Crash
  BY <1>13, <1>d DEF Crash, Absorbing
<1>14. ASSUME NEW r \in Ranks, Issue(r) PROVE Absorbing'
  BY <1>14, <1>k, <1>d DEF Issue, Absorbing
<1>15. CASE UNCHANGED vars
  BY <1>15, <1>k, <1>d DEF vars, Absorbing
<1> QED
  BY <1>1, <1>2, <1>3, <1>4, <1>5, <1>6, <1>7, <1>8, <1>9, <1>10, <1>11, <1>12, <1>13,
     <1>14, <1>15 DEF Next, Fit, Ended

\* PACE absorbs each due reward once and in order along the weights' own history,
\* across any number of restarts and for every schedule, source and interval, and
\* an OPD update uses a lambda0 that has absorbed this step's reward
\* (_update_pace_controller, _pace_state_dict, _load_pace_state_dict).
THEOREM PaceAbsorbsOnce == Spec => []PaceSeesEachStepOnce
<1>1. Init => InStep /\ Absorbing
  BY InitInStep, InitAbsorbing
<1>2. InStep /\ [Next]_vars => InStep'
  BY NextInStep
<1>3. Typed /\ InStep /\ Absorbing /\ [Next]_vars => Absorbing'
  BY NextAbsorbing
<1>4. Absorbing => PaceSeesEachStepOnce
  BY AbsorbingSuffices
<1> QED BY <1>1, <1>2, <1>3, <1>4, TypedAlways, PTL DEF Spec
=============================================================================
