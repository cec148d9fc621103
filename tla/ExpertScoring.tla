--------------------------- MODULE ExpertScoring ---------------------------
(* One MP-OPD step behind the rollout, _run_mpopd_step: the driver packs one
   expert prompt per enabled (sample, expert) pair and scatters them into
   [B, E, L] tensors; every data-parallel rank scores its shard with the
   student, the base policy and the teacher, gathers the enabled pairs into a
   flat batch, scores it in chunks and micro-batches and scatters the scores
   back to [B, T, K, E]; the driver joins the shards and the ranks update the
   student.

   The three policies are sharded over the ranks (FSDP), so a forward is a
   collective: it runs when every rank has entered a forward of the same
   module, and a rank whose partners have no forward left waits for ever.

   A tensor row is a record naming what it was computed from; token ids,
   probabilities and the response axis are abstracted away.  The prompt keeps
   two token counts, what is left of the user's chat and of the expert's
   instruction with its evidence, because left truncation tells them apart; a
   clean row is read with its response, an expert row is the prompt alone. *)
EXTENDS ExpertFusion, Sequences

CONSTANTS
    World,        \* data-parallel ranks
    RowsPerRank,  \* rows of a shard: DataProto.chunk wants equal shards
    MaxPrompt,    \* data.max_prompt_length, what clean prompts are padded to
    Response,     \* positions of a padded response
    Layouts,      \* the batches that may arrive: what each sample carries
    Budget,       \* expert prompt budget in tokens, both limits applied
    ExpertChunk,  \* expert_forward_micro_batch_size, 0: no chunking
    ScoreDynamic, \* log_prob_use_dynamic_bsz
    MicroSize,    \* log_prob_micro_batch_size_per_gpu
    ScoreCap,     \* log_prob_max_token_len_per_gpu
    MiniSize,     \* ppo_mini_batch_size, per rank
    UpdateDynamic,\* actor.use_dynamic_bsz
    UpdateMicro,  \* ppo_micro_batch_size_per_gpu
    UpdateCap,    \* ppo_max_token_len_per_gpu
    SkipEmpty     \* skip_samples_without_active_experts

Ranks   == 1..World
Rows    == 1..RowsPerRank
Samples == 1..(World * RowsPerRank)

\* A sample of a batch: tokens of its chat; for each expert whether it is
\* enabled and how many tokens its instruction and evidence take; the first of
\* its target, loss and gradient that does not come out finite.
Context == [enabled : BOOLEAN, direction : Nat \ {0}]
Sample  == [user : 1..MaxPrompt, experts : [Experts -> Context],
            overflow : {"none", "target", "loss", "gradient"}]

ASSUME SizesAssumption ==
    /\ World \in Nat \ {0} /\ RowsPerRank \in Nat \ {0}
    /\ MaxPrompt \in Nat \ {0} /\ Response \in Nat \ {0}
    /\ Budget \in Nat \ {0} /\ ExpertChunk \in Nat
    /\ {ScoreDynamic, UpdateDynamic, SkipEmpty} \subseteq BOOLEAN
    /\ {MicroSize, ScoreCap, MiniSize, UpdateMicro, UpdateCap} \subseteq Nat \ {0}
ASSUME LayoutsAssumption == Layouts \subseteq [Samples -> Sample]

VARIABLES
    batch,    \* the samples of the current step, in DataProto order
    attached, \* driver: expert prompts scattered to [B, E] and expert_mask
    pass,     \* rank -> the pass it is in, or where it waits
    chunks,   \* rank -> chunks of the pass still to run, the running one first
    want,     \* rank -> micro-batches agreed for the running chunk, 0 before
    micro,    \* rank -> index lists of the micro-batches still to run
    order,    \* rank -> indices of the running chunk in the order they ran
    raw,      \* rank -> their scores in that order
    out,      \* rank -> scores of the finished chunks, concatenated
    scores,   \* rank -> pass -> its concatenated scores
    board,    \* driver: the scored batch, shards concatenated
    learned,  \* sample -> the targets its loss was differentiated against
    dropped,  \* samples of mini-batches whose gradients were zeroed, not applied
    failed    \* a rank raised: ray.get re-raises in the driver, the job ends

local == <<chunks, want, micro, order, raw, out>>
vars  == <<batch, attached, pass, local, scores, board, learned, dropped, failed>>

Blank  == <<>>         \* rows of zeros the scatters leave
Policy(p) == CASE p \in {"student", "update"} -> "actor"
               [] p = "base"                  -> "base_policy"
               [] p \in {"teacher", "expert"} -> "ref_policy"

Dynamic(p) == IF p = "update" THEN UpdateDynamic ELSE ScoreDynamic
Cap(p)     == IF p = "update" THEN UpdateCap ELSE ScoreCap

Least(a, b) == IF a < b THEN a ELSE b
CeilDiv(a, b) == (a + b - 1) \div b

\* DataProto.split: consecutive pieces of n rows, the last may be shorter.
Split(s, n) == [i \in 1..CeilDiv(Len(s), n) |->
                  SubSeq(s, (i - 1) * n + 1, Least(i * n, Len(s)))]
Indices(s) == [i \in 1..Len(s) |-> i]

\* The members of a set of numbers, the smallest first.
Ascending(set) ==
    [k \in 1..Cardinality(set) |->
       CHOOSE i \in set : Cardinality({j \in set : j <= i}) = k]

-----------------------------------------------------------------------------
(* The driver packs and scatters. *)

\* prompt_ids[-budget:]: the tail survives, the end of the user's chat first
\* gives way and then the head of the instruction.
LeftCut(user, direction) ==
    LET kept == Least(Budget, user + direction)
        tail == Least(direction, kept)
    IN [user |-> kept - tail, direction |-> tail]

ExpertPrompt(b, s, e) ==
    LET cut == LeftCut(b[s].user, b[s].experts[e].direction)
    IN [sample |-> s, expert |-> e, user |-> cut.user, direction |-> cut.direction]

CleanPrompt(s) == [sample |-> s, expert |-> 0, user |-> batch[s].user, direction |-> 0]

\* A [n, E] mask read row by row, as both loops of prepare_expert_prompt_inputs
\* and torch.nonzero do.
Grid(n) == [i \in 1..(n * NumExperts) |->
              <<((i - 1) \div NumExperts) + 1, ((i - 1) % NumExperts) + 1>>]
NonZero(n, mask(_, _)) ==
    LET set == {i \in 1..(n * NumExperts) : mask(Grid(n)[i][1], Grid(n)[i][2])}
    IN [k \in 1..Cardinality(set) |-> Grid(n)[Ascending(set)[k]]]

\* Flat rows of the enabled pairs; the response is the sample's own.
Pack(b) ==
    LET enabled(s, e) == b[s].experts[e].enabled
        pairs == NonZero(World * RowsPerRank, enabled)
    IN [i \in 1..Len(pairs) |->
          [at |-> pairs[i], prompt |-> ExpertPrompt(b, pairs[i][1], pairs[i][2]),
           response |-> pairs[i][1]]]

\* expert_input_ids and its companions, and expert_mask.
Attach(packed) ==
    [s \in Samples |-> [e \in Experts |->
       LET rows == {i \in 1..Len(packed) : packed[i].at = <<s, e>>}
       IN IF rows = {} THEN [on |-> FALSE, row |-> Blank]
          ELSE LET i == CHOOSE i \in rows : TRUE
               IN [on |-> TRUE, row |-> [prompt |-> packed[i].prompt,
                                         response |-> packed[i].response]]]]

-----------------------------------------------------------------------------
(* A rank's rows in each pass. *)

SampleOf(r, b) == (r - 1) * RowsPerRank + b   \* equal, contiguous shards

\* Mutant: the rank pairs its j-th enabled expert row with its j-th sample.
FlatExpertsUnindexed(r, topk) ==
    LET on(b, e) == attached[SampleOf(r, b)][e].on
        flat == NonZero(RowsPerRank, on)
    IN [j \in 1..Len(flat) |->
          LET cell == attached[SampleOf(r, flat[j][1])][flat[j][2]].row
          IN [prompt |-> cell.prompt, response |-> cell.response,
              topk |-> topk[Least(j, Len(topk))]]]

\* build_flat_expert_dataproto: torch.nonzero order, the student's top-k rows
\* repeated by index_select.
FlatExperts(r, topk) ==
    LET on(b, e) == attached[SampleOf(r, b)][e].on
        flat == NonZero(RowsPerRank, on)
    IN [j \in 1..Len(flat) |->
          LET cell == attached[SampleOf(r, flat[j][1])][flat[j][2]].row
          IN [prompt |-> cell.prompt, response |-> cell.response,
              topk |-> topk[flat[j][1]]]]

CleanRows(r, topk(_)) ==
    [b \in Rows |-> [prompt |-> CleanPrompt(SampleOf(r, b)),
                     response |-> SampleOf(r, b), topk |-> topk(b)]]

\* The chunks a rank runs in pass p, given what it has scored so far.
ChunksOf(p, r, done) ==
    CASE p = "student" -> <<CleanRows(r, LAMBDA b : 0)>>
      [] p \in {"base", "teacher"} -> <<CleanRows(r, LAMBDA b : done["student"][b].ids)>>
      [] p = "expert" ->
           LET flat == FlatExperts(r, [b \in Rows |-> done["student"][b].ids])
           IN IF flat = <<>> THEN <<>>
              ELSE IF ExpertChunk > 0 THEN Split(flat, ExpertChunk)
              ELSE <<flat>>

\* A clean row's input_ids go on with its response, an expert row's end with the prompt.
Tokens(row) == row.prompt.user + row.prompt.direction
                 + (IF row.prompt.expert = 0 THEN Response ELSE 0)

TotalTokens(rows) ==
    LET upTo[i \in 0..Len(rows)] ==
          IF i = 0 THEN 0 ELSE upTo[i - 1] + Tokens(rows[i])
    IN upTo[Len(rows)]

\* restore_specialized_expert_log_probs: scatter by the same row-major order,
\* zeros at the disabled pairs.
Specialized(r, flatScores) ==
    LET on(b, e) == attached[SampleOf(r, b)][e].on
        flat == NonZero(RowsPerRank, on)
    IN [b \in Rows |-> [e \in Experts |->
          LET at == {j \in 1..Len(flat) : flat[j] = <<b, e>>}
          IN IF at = {} THEN Blank ELSE flatScores[CHOOSE j \in at : TRUE]]]

\* What one forward returns for a row: the top-k ids of the sample whose
\* response was scored, or the log-probs of those ids under a prompt.  It looks
\* at input_ids alone, at their last positions: for an expert row these are
\* positions of the prompt, and the response has no part in the scores.
NoResponse == 0
Result(p, row) ==
    IF p = "student" THEN [ids |-> row.response]
    ELSE [policy |-> Policy(p), prompt |-> row.prompt,
          response |-> IF p = "expert" THEN NoResponse ELSE row.response, topk |-> row.topk]

\* attach_expert_prompt_tensors pads every expert prompt to the longest of the batch.
Packed == {attached[c[1]][c[2]].row : c \in {d \in Samples \X Experts : attached[d[1]][d[2]].on}}

\* A tensor as wide as the rows of the pass are padded to exceeds the token cap.
TooWide(p) == IF p = "expert" THEN \E row \in Packed : Tokens(row) > ScoreCap
              ELSE MaxPrompt + Response > Cap(p)

\* The expert tensor has no room for the response positions the scores are cut from.
TooNarrow == \A row \in Packed : Tokens(row) <= Response

-----------------------------------------------------------------------------
(* What the update makes of a row. *)

\* Mutant: the mask is not applied, scores of zeros enter the fusion.
ActiveUnmasked(row) == Experts

\* build_mpopd_target: a disabled expert has weight 0 and its delta counts 0;
\* a sample is valid when an expert is active.
Active(row) == {e \in Experts : row.mask[e]}
Valid(row)  == Active(row) # {}
Target(row) == [sample |-> row.prompt.sample, topk |-> row.topk,
                anchor |-> row.base, reference |-> row.teacher,
                fused |-> {<<e, row.specialized[e]>> : e \in Active(row)}]

\* The checks of update_policy_mpopd on a micro-batch: a non-finite target, before
\* the forward; a non-finite loss, or samples without an active expert when they
\* may not be skipped, after it.
NonFinite(row, what) == Valid(row) /\ batch[row.prompt.sample].overflow = what
BadTarget(rows) == \E row \in rows : NonFinite(row, "target")
BadLoss(rows)   == \/ \E row \in rows : NonFinite(row, "loss")
                   \/ ~SkipEmpty /\ \E row \in rows : ~Valid(row)

\* Mutant: the finiteness checks are gone.
RefusedOnlyEmpty(rows) == ~SkipEmpty /\ \E row \in rows : ~Valid(row)

Refused(rows) == BadTarget(rows) \/ BadLoss(rows)

-----------------------------------------------------------------------------
(* A pass: static or dynamic micro-batches, forwards, scores put back in
   order.  The update is the pass "update" over mini-batches. *)

InPass(r)  == pass[r] \in {"student", "base", "teacher", "expert", "update"}
Untouched(r) == /\ InPass(r) /\ chunks[r] # <<>>
                /\ want[r] = 0 /\ micro[r] = <<>> /\ raw[r] = <<>>

\* Mutant: each rank cuts by its own token count and nobody agrees on the number.
SplitUnagreed(r) ==
    /\ ~failed /\ Untouched(r) /\ ~Dynamic(pass[r])
    /\ micro' = [micro EXCEPT ![r] =
                   Split(Indices(Head(chunks[r])),
                         IF TotalTokens(Head(chunks[r])) > UpdateCap THEN 1 ELSE Len(Head(chunks[r])))]
    /\ UNCHANGED <<batch, attached, pass, chunks, want, order, raw, out,
                   scores, board, learned, dropped, failed>>

\* data.split(micro_batch_size) of a chunk.
SplitStatic(r) ==
    /\ ~failed /\ Untouched(r) /\ ~Dynamic(pass[r])
    /\ LET size == IF pass[r] = "update" THEN UpdateMicro ELSE MicroSize
       IN micro' = [micro EXCEPT ![r] = Split(Indices(Head(chunks[r])), size)]
    /\ UNCHANGED <<batch, attached, pass, chunks, want, order, raw, out,
                   scores, board, learned, dropped, failed>>

\* rearrange_micro_batches: the rank's own count, then all_reduce(MAX) over the ranks;
\* a rank with fewer rows than the agreed count fails the assertion after it.
OwnCount(r) == Least(Len(Head(chunks[r])),
                     CeilDiv(TotalTokens(Head(chunks[r])), Cap(pass[r])))

AgreedCount(r) == CHOOSE n \in {OwnCount(q) : q \in Ranks} : \A q \in Ranks : OwnCount(q) <= n

AgreeOnCount ==
    /\ ~failed
    /\ \A r \in Ranks : Untouched(r) /\ Dynamic(pass[r]) /\ ~TooWide(pass[r])
    /\ want' = [r \in Ranks |-> AgreedCount(r)]
    /\ UNCHANGED <<batch, attached, pass, chunks, micro, order, raw, out,
                   scores, board, learned, dropped, failed>>

\* assert max_token_len >= max_seq_len, before the ranks agree.
FailWidthAssert(r) ==
    /\ ~failed /\ Untouched(r) /\ Dynamic(pass[r]) /\ TooWide(pass[r])
    /\ failed' = TRUE
    /\ UNCHANGED <<batch, attached, pass, local, scores, board, learned, dropped>>

\* Any split of the rows into that many non-empty micro-batches may be the
\* balanced one; within a micro-batch the indices ascend.
Partitions(n, k) ==
    LET onto == {f \in [1..n -> 1..k] : \A j \in 1..k : \E i \in 1..n : f[i] = j}
    IN {[j \in 1..k |-> Ascending({i \in 1..n : f[i] = j})] : f \in onto}

SplitDynamic(r) ==
    /\ ~failed /\ chunks[r] # <<>> /\ micro[r] = <<>> /\ raw[r] = <<>>
    /\ want[r] \in 1..Len(Head(chunks[r]))
    /\ \E lists \in Partitions(Len(Head(chunks[r])), want[r]) :
          micro' = [micro EXCEPT ![r] = lists]
    /\ UNCHANGED <<batch, attached, pass, chunks, want, order, raw, out,
                   scores, board, learned, dropped, failed>>

FailCountAssert(r) ==
    /\ ~failed /\ chunks[r] # <<>> /\ want[r] > Len(Head(chunks[r]))
    /\ failed' = TRUE
    /\ UNCHANGED <<batch, attached, pass, local, scores, board, learned, dropped>>

\* FSDP runs a forward when every rank has entered one of the same module.  In
\* the update the forward stands for the micro-batch with its backward.
MicroRows(r) == {Head(chunks[r])[i] : i \in {Head(micro[r])[j] : j \in 1..Len(Head(micro[r]))}}
Waiting(r)   == InPass(r) /\ chunks[r] # <<>> /\ micro[r] # <<>>
Updating     == \A r \in Ranks : pass[r] = "update"

TrainedBy(rows, s) ==   \* at most one row per sample in the ranks' micro-batches
    LET own == {row \in rows : row.prompt.sample = s /\ Valid(row)}
    IN IF own = {} THEN <<>> ELSE <<Target(CHOOSE row \in own : TRUE)>>

Forward ==
    /\ ~failed
    /\ \A r \in Ranks : Waiting(r)
    /\ \A r, q \in Ranks : Policy(pass[r]) = Policy(pass[q])
    /\ \A r \in Ranks : pass[r] = "expert" => ~TooNarrow
    /\ Updating => \A r \in Ranks : ~Refused(MicroRows(r))
    /\ raw' = [r \in Ranks |->
                 raw[r] \o [j \in 1..Len(Head(micro[r])) |->
                              Result(pass[r], Head(chunks[r])[Head(micro[r])[j]])]]
    /\ order' = [r \in Ranks |-> order[r] \o Head(micro[r])]
    /\ micro' = [r \in Ranks |-> Tail(micro[r])]
    /\ learned' = IF Updating
                  THEN [s \in Samples |-> learned[s] \o
                          TrainedBy(UNION {MicroRows(r) : r \in Ranks}, s)]
                  ELSE learned
    /\ UNCHANGED <<batch, attached, pass, chunks, want, out, scores, board, dropped, failed>>

\* Fitting the top-k ids of a response into a prompt that is no longer than it.
FailNarrow(r) ==
    /\ ~failed /\ pass[r] = "expert" /\ Waiting(r) /\ TooNarrow
    /\ failed' = TRUE
    /\ UNCHANGED <<batch, attached, pass, local, scores, board, learned, dropped>>

\* FloatingPointError or ValueError in a worker, ray.get raises it in the driver: for a
\* target before the forward, for a loss after the forward that all ranks joined.
FailTarget(r) ==
    /\ ~failed /\ pass[r] = "update" /\ Waiting(r) /\ BadTarget(MicroRows(r))
    /\ failed' = TRUE
    /\ UNCHANGED <<batch, attached, pass, local, scores, board, learned, dropped>>

FailLoss ==
    /\ ~failed /\ Updating /\ \A r \in Ranks : Waiting(r) /\ ~BadTarget(MicroRows(r))
    /\ \E r \in Ranks : BadLoss(MicroRows(r))
    /\ failed' = TRUE
    /\ UNCHANGED <<batch, attached, pass, local, scores, board, learned, dropped>>

ChunkRun(r) == /\ InPass(r) /\ chunks[r] # <<>>
               /\ micro[r] = <<>> /\ Len(raw[r]) = Len(Head(chunks[r]))

\* Mutant: the micro-batches' scores are concatenated as they came.
RestoredAsRun(ran, rows) == rows

\* restore_dynamic_batch; the static split ran the rows in order.
Restored(ran, rows) ==
    [i \in 1..Len(rows) |-> rows[CHOOSE p \in 1..Len(rows) : ran[p] = i]]

Popped(r) == /\ chunks' = [chunks EXCEPT ![r] = Tail(@)]
             /\ want'   = [want EXCEPT ![r] = 0]
             /\ order'  = [order EXCEPT ![r] = <<>>]
             /\ raw'    = [raw EXCEPT ![r] = <<>>]

\* compute_topk_log_probs_on_ids returns; the caller concatenates the chunks.
EndChunk(r) ==
    /\ ~failed /\ ChunkRun(r) /\ pass[r] # "update"
    /\ out' = [out EXCEPT ![r] = @ \o Restored(order[r], raw[r])]
    /\ Popped(r)
    /\ UNCHANGED <<batch, attached, pass, micro, scores, board, learned, dropped, failed>>

MiniRows(r) == {Head(chunks[r])[i] : i \in 1..Len(Head(chunks[r]))}

\* _optimizer_step: clip_grad_norm_ sums the norm over the ranks; when it is not
\* finite all of them zero the gradients of the mini-batch instead of a step.
OptimizerStep ==
    /\ ~failed
    /\ \A r \in Ranks : ChunkRun(r) /\ pass[r] = "update"
    /\ LET mini == UNION {MiniRows(r) : r \in Ranks}
       IN dropped' = IF \E row \in mini : NonFinite(row, "gradient")
                     THEN dropped \cup {row.prompt.sample : row \in mini} ELSE dropped
    /\ chunks' = [r \in Ranks |-> Tail(chunks[r])]
    /\ want'   = [r \in Ranks |-> 0]
    /\ order'  = [r \in Ranks |-> <<>>]
    /\ raw'    = [r \in Ranks |-> <<>>]
    /\ UNCHANGED <<batch, attached, pass, micro, out, scores, board, learned, failed>>

\* The next pass of prepare_mpopd_log_probs.
Following(p) == CASE p = "student" -> "base"    [] p = "base"   -> "teacher"
                  [] p = "teacher" -> "expert"  [] p = "expert" -> "returned"

EndPass(r) ==
    /\ ~failed /\ InPass(r) /\ chunks[r] = <<>> /\ pass[r] # "update"
    /\ LET p    == pass[r]
           done == [scores[r] EXCEPT ![p] = out[r]]
       IN /\ scores' = [scores EXCEPT ![r] = done]
          /\ pass'   = [pass EXCEPT ![r] = Following(p)]
          /\ chunks' = [chunks EXCEPT ![r] =
                          IF p = "expert" THEN <<>> ELSE ChunksOf(Following(p), r, done)]
    /\ out' = [out EXCEPT ![r] = <<>>]
    /\ UNCHANGED <<batch, attached, want, micro, order, raw, board, learned, dropped, failed>>

EndUpdate(r) ==
    /\ ~failed /\ pass[r] = "update" /\ chunks[r] = <<>>
    /\ pass' = [pass EXCEPT ![r] = "updated"]
    /\ UNCHANGED <<batch, attached, local, scores, board, learned, dropped, failed>>

-----------------------------------------------------------------------------
(* The driver. *)

ShardRow(s) == [r |-> ((s - 1) \div RowsPerRank) + 1, b |-> ((s - 1) % RowsPerRank) + 1]

\* collect_nd_compute_dataproto joins the ranks' outputs and batch.union adds
\* the driver's own expert_mask and responses.
Joined ==
    [s \in Samples |->
       LET r == ShardRow(s).r
           b == ShardRow(s).b
       IN [prompt      |-> CleanPrompt(s), response |-> s,
           topk        |-> scores[r]["student"][b].ids,
           base        |-> scores[r]["base"][b],
           teacher     |-> scores[r]["teacher"][b],
           specialized |-> Specialized(r, scores[r]["expert"])[b],
           mask        |-> [e \in Experts |-> attached[s][e].on]]]

\* prepare_mpopd_log_probs has returned on every rank: update_actor_mpopd is
\* dispatched, each rank splits its shard into mini-batches.
DispatchUpdate ==
    /\ ~failed /\ \A r \in Ranks : pass[r] = "returned"
    /\ board'  = Joined
    /\ pass'   = [r \in Ranks |-> "update"]
    /\ chunks' = [r \in Ranks |->
                    Split([b \in Rows |-> Joined[SampleOf(r, b)]], MiniSize)]
    /\ UNCHANGED <<batch, attached, want, micro, order, raw, out, scores, learned, dropped, failed>>

NoScores == [p \in {"student", "base", "teacher", "expert"} |-> <<>>]

Init ==
    /\ batch \in Layouts
    /\ attached = Attach(Pack(batch))
    /\ pass = [r \in Ranks |-> "student"]
    /\ chunks = [r \in Ranks |-> ChunksOf("student", r, NoScores)]
    /\ want = [r \in Ranks |-> 0]
    /\ micro = [r \in Ranks |-> <<>>] /\ order = [r \in Ranks |-> <<>>]
    /\ raw = [r \in Ranks |-> <<>>] /\ out = [r \in Ranks |-> <<>>]
    /\ scores = [r \in Ranks |-> NoScores]
    /\ board = Blank
    /\ learned = [s \in Samples |-> <<>>]
    /\ dropped = {}
    /\ failed = FALSE

\* update_actor_mpopd has returned on every rank: _fit_mpopd goes on with
\* another batch.
NextBatch ==
    /\ ~failed /\ \A r \in Ranks : pass[r] = "updated"
    /\ \E b \in Layouts :
         /\ batch' = b
         /\ attached' = Attach(Pack(b))
    /\ pass' = [r \in Ranks |-> "student"]
    /\ chunks' = [r \in Ranks |-> ChunksOf("student", r, NoScores)']
    /\ scores' = [r \in Ranks |-> NoScores]
    /\ board' = Blank
    /\ learned' = [s \in Samples |-> <<>>]
    /\ dropped' = {}
    /\ UNCHANGED <<want, micro, order, raw, out, failed>>

\* What the workers and the driver do within a step.
Work ==
    \/ \E r \in Ranks :
         \/ SplitStatic(r) \/ SplitDynamic(r) \/ EndChunk(r) \/ EndPass(r) \/ EndUpdate(r)
         \/ FailWidthAssert(r) \/ FailCountAssert(r) \/ FailNarrow(r) \/ FailTarget(r)
    \/ AgreeOnCount \/ Forward \/ FailLoss \/ OptimizerStep \/ DispatchUpdate

Next == Work \/ NextBatch

Spec == Init /\ [][Next]_vars

\* The worker processes and the driver keep running.
FairSpec == Spec /\ WF_vars(Work)

-----------------------------------------------------------------------------
(* Properties. *)

\* Scores stay with their own row through packing, sharding, flattening,
\* chunking, dynamic reordering and scattering back.  On a rank: row b of a clean
\* pass is about the rank's b-th sample, at the top-k ids of its own response.  In
\* the batch to train on: entry [s, e] is what the teacher said, at the top-k ids of
\* that sample's response, of the prompt of that sample for that expert, zeros where
\* it is disabled.
OwnScores ==
    /\ \A r \in Ranks :
         /\ scores[r]["student"] # <<>> =>
              scores[r]["student"] = [b \in Rows |-> [ids |-> SampleOf(r, b)]]
         /\ \A p \in {"base", "teacher"} :
              scores[r][p] # <<>> =>
                scores[r][p] = [b \in Rows |->
                   [policy |-> Policy(p), prompt |-> CleanPrompt(SampleOf(r, b)),
                    response |-> SampleOf(r, b), topk |-> SampleOf(r, b)]]
    /\ board # Blank =>
         \A s \in Samples, e \in Experts :
           board[s].specialized[e] =
             IF batch[s].experts[e].enabled
             THEN [policy |-> "ref_policy", prompt |-> ExpertPrompt(batch, s, e),
                   response |-> NoResponse, topk |-> s]
             ELSE Blank

\* The experts' scores are about the student's response, as docs/MP-OPD.md:103 (teacher
\* forcing: the response prefix is appended to every expert prompt) and the comment of
\* prepare_expert_prompt_inputs over prompt_rows ("The policy helpers append/score
\* responses separately") say.
ExpertsScoreTheResponse ==
    board # Blank =>
      \A s \in Samples, e \in Experts :
        batch[s].experts[e].enabled => board[s].specialized[e].response = s

\* The comment over masked_logits of build_mpopd_target, "the remaining experts are
\* renormalized": under the mask that the scored batch carries for a sample the fused
\* delta is the average over the experts the sample came with enabled; placeholders, the
\* zero rows of disabled experts and the clamp have no part in it.
FusedOverEnabled ==
    board # Blank =>
      \A s \in Samples :
        {e \in Experts : batch[s].experts[e].enabled} \in Averaged[board[s].mask]

\* When the update is over, every sample with an enabled expert has been
\* trained on once, against a target of exactly its enabled experts anchored at
\* its own base scores, and a sample without one has not been trained on; a step was
\* skipped only for a gradient that overflowed.
TrainedOnEnabledExperts ==
    (\A r \in Ranks : pass[r] = "updated") =>
      /\ dropped # {} => \E q \in Samples : batch[q].overflow = "gradient"
      /\ \A s \in Samples :
           LET on == {e \in Experts : batch[s].experts[e].enabled}
           IN IF on = {} THEN learned[s] = <<>>
              ELSE /\ Len(learned[s]) = 1
                   /\ {f[1] : f \in learned[s][1].fused} = on
                   /\ \A f \in learned[s][1].fused : f[2].prompt.sample = s
                   /\ learned[s][1].anchor.prompt.sample = s
                   /\ learned[s][1].reference.prompt.sample = s

\* A sample whose target or loss came out non-finite leaves no gradient, on whichever
\* rank and in whichever micro-batch it is met (the checks before backward in
\* update_policy_mpopd); one whose gradient does is part of no step: once its mini-batch
\* is behind the optimizer it has been dropped (the norm over all ranks in _optimizer_step).
OverflowNeverTrained ==
    \A s \in Samples :
      learned[s] # <<>> =>
        /\ batch[s].overflow \notin {"target", "loss"}
        /\ batch[s].overflow = "gradient" =>
             \/ s \in dropped
             \/ \E r \in Ranks : /\ chunks[r] # <<>>
                                 /\ \E row \in MiniRows(r) : row.prompt.sample = s

\* No rank waits in a collective for one that has returned to the driver:
\* that one comes back only with the next call, which needs the waiting rank.
AtCollective(r) == Waiting(r) \/ (Dynamic(pass[r]) /\ Untouched(r))
NoRankStranded ==
    ~failed => \A r, q \in Ranks :
                 pass[q] \in {"returned", "updated"} => ~AtCollective(r)

\* Every rank holds the same number of enabled (sample, expert) pairs.
EnabledPairs(r) == {p \in Rows \X Experts : batch[SampleOf(r, p[1])].experts[p[2]].enabled}
EvenLoads == \A r, q \in Ranks : Cardinality(EnabledPairs(r)) = Cardinality(EnabledPairs(q))

\* A rank that can go on by itself, and the points at which all must be together.
CanMove(r) ==
    \/ Untouched(r) /\ ~Dynamic(pass[r])
    \/ /\ chunks[r] # <<>> /\ micro[r] = <<>> /\ raw[r] = <<>>
       /\ want[r] \in 1..Len(Head(chunks[r]))
    \/ ChunkRun(r) /\ pass[r] # "update"
    \/ InPass(r) /\ chunks[r] = <<>>
Together ==
    \/ \A r \in Ranks : Waiting(r) /\ \A q \in Ranks : Policy(pass[q]) = Policy(pass[r])
    \/ \A r \in Ranks : Untouched(r) /\ Dynamic(pass[r])
    \/ \A r \in Ranks : ChunkRun(r) /\ pass[r] = "update"
    \/ \E end \in {"returned", "updated"} : \A r \in Ranks : pass[r] = end

\* What the ranks keep of each other while no step of one raises.
RanksMeet ==
    ~failed => /\ Together \/ \E r \in Ranks : CanMove(r)
               /\ \A r \in Ranks : want[r] # 0 => want[r] <= Len(Head(chunks[r]))
               /\ NoRankStranded

\* On even loads some rank can go on, or all are at one collective, barrier or end of a
\* call: the ranks are never spread over collectives that do not belong together
\* (prepare_mpopd_log_probs, update_policy_mpopd), none has agreed on more micro-batches
\* than it has rows (the assertion of rearrange_micro_batches), and none has returned while
\* others wait for it in a forward.
EvenRanksMeet == EvenLoads => RanksMeet

\* With equally many enabled pairs, wherever these are in the shard, however long
\* the prompts are (prepare_expert_prompt_inputs drops none) and however scoring
\* and update cut them, the ranks' forwards match in number and order and the
\* step ends: all ranks come back from the update, or one of them raises.
EveryStepEnds == EvenLoads ~> (failed \/ \A r \in Ranks : pass[r] = "updated")
=============================================================================
