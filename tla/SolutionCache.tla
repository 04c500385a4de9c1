---------------------------- MODULE SolutionCache ----------------------------
(***************************************************************************)
(* Names and scores of configurations during a tabu search                 *)
(* (optimization/tabu_search.py, optimizer.py, util.py): every mutation    *)
(* names its result with the smallest free ID, the optimizer keeps the     *)
(* fitness of a configuration under its ID and the ID under its hash, and  *)
(* a configuration whose hash is known is not simulated again but read     *)
(* from there.                                                             *)
(*                                                                         *)
(* A configuration is a point (what its hash tells apart) and an ID; what  *)
(* a simulation of it returns is Fitness, the weighted objectives.  What a *)
(* mutation does to the point is the subject of module Reconfiguration;    *)
(* here it leads to any of Moves.  The log files and the progress bar are  *)
(* left out.                                                               *)
(***************************************************************************)
EXTENDS Naturals, FiniteSets, Sequences, SequencesExt

CONSTANTS
    Points,            \* configurations up to their hash
    Moves,             \* Moves[p]: what a mutation makes of p
    Fitness,           \* Fitness[p]: what the simulation of p returns
    InitialPoint,      \* the point of the initial solution
    NeighborhoodSize, TabuSize, MaxSteps, MaxScore  \* hyperparameters

VARIABLES
    assigned,      \* _assigned_optimization_system_ids
    store,         \* hashes: the first ID under a hash; performances: the fitness under an ID
    current, best, \* the search's configurations
    tabuList,      \* the last TabuSize that were chosen
    neighborhood,  \* what current was mutated to
    scores,        \* the scores of the first of them
    stage,         \* mutate, score, choose or, after run has returned, ended
    steps          \* cur_steps

vars == <<assigned, store, current, best, tabuList, neighborhood, scores, stage, steps>>

(* The ID of the configuration that the user brings *)
UserId == 0

(* replace_optimization_configuration_id, allocate_sequential_id: the old  *)
(* ID is free again although others may still have it.                     *)
FreshId(used) == CHOOSE n \in 1..Cardinality(used) + 1 : n \notin used /\ \A m \in 1..n - 1 : m \in used
Renamed(old) == FreshId(assigned \ {old})

Put(f, k, v) == [x \in DOMAIN f \cup {k} |-> IF x = k THEN v ELSE f[x]]

(* evaluate, get_fitness_data_entry: a known hash is not simulated; its    *)
(* fitness is what is kept under the ID it was first found with.           *)
Known(s, c) == c.point \in DOMAIN s.hashes
FitnessIn(s, c) == IF Known(s, c) THEN s.performances[s.hashes[c.point]] ELSE Fitness[c.point]

(* save_optimization_step, cache_fitness_data: the fitness is kept under   *)
(* the ID, over what was kept there; a hash keeps its first ID.            *)
Saved(s, c) == [hashes |-> IF Known(s, c) THEN s.hashes ELSE Put(s.hashes, c.point, c.id),
                performances |-> Put(s.performances, c.id, FitnessIn(s, c))]

(* _clear *)
Init == /\ assigned = {} /\ store = [hashes |-> <<>>, performances |-> <<>>]
        /\ current = [point |-> InitialPoint, id |-> UserId] /\ best = current
        /\ tabuList = <<>> /\ neighborhood = <<>> /\ scores = <<>> /\ stage = "mutate" /\ steps = 0

(* _neighborhood: one more mutation of a copy of current.  An operation    *)
(* that fails leaves the copy and its ID; invalid mutations, which are     *)
(* thrown away and only use up IDs, are left out.                          *)
Mutated == \/ \E p \in Moves[current.point] :
                 /\ neighborhood' = Append(neighborhood, [point |-> p, id |-> Renamed(current.id)])
                 /\ assigned' = (assigned \ {current.id}) \cup {Renamed(current.id)}
           \/ neighborhood' = Append(neighborhood, current) /\ UNCHANGED assigned
AddNeighbor ==
    /\ stage = "mutate" /\ Mutated
    /\ stage' = IF Len(neighborhood') = NeighborhoodSize THEN "score" ELSE "mutate"
    /\ UNCHANGED <<store, current, best, tabuList, scores, steps>>

(* _best, _score: the neighbors are scored one after the other *)
Score ==
    LET c == neighborhood[Len(scores) + 1] IN
    /\ stage = "score" /\ store' = Saved(store, c) /\ scores' = Append(scores, FitnessIn(store, c))
    /\ stage' = IF Len(scores') = Len(neighborhood) THEN "choose" ELSE "score"
    /\ UNCHANGED <<assigned, current, best, tabuList, neighborhood, steps>>

(* argmax: the first of the highest *)
Chosen == neighborhood[CHOOSE i \in DOMAIN scores :
            \A j \in DOMAIN scores : scores[j] < scores[i] \/ (scores[j] = scores[i] /\ i <= j)]
Tabu(c) == c \in Range(tabuList)
AllTabu == \A c \in Range(neighborhood) : Tabu(c)
Remembered(c) == LET l == Append(tabuList, c) IN IF Len(l) > TabuSize THEN Tail(l) ELSE l

(* _score(c) > _score(best): both scores are saved, one after the other *)
BothSaved(c) == Saved(Saved(store, c), best)
Improves(c) == FitnessIn(store, c) > FitnessIn(Saved(store, c), best)

(* The end of a step: the best is scored once more, for max_score *)
NextStep(b, s) ==
    /\ best' = b /\ store' = Saved(s, b) /\ steps' = steps + 1
    /\ stage' = IF FitnessIn(s, b) > MaxScore \/ steps + 1 = MaxSteps THEN "ended" ELSE "mutate"
    /\ neighborhood' = <<>> /\ scores' = <<>> /\ UNCHANGED assigned

(* run: every neighbor is tabu *)
GiveUp == /\ stage = "choose" /\ AllTabu
          /\ stage' = "ended" /\ store' = Saved(store, best)
          /\ UNCHANGED <<assigned, current, best, tabuList, neighborhood, scores, steps>>

(* run: the best neighbor becomes the current configuration *)
Accept ==
    /\ stage = "choose" /\ ~Tabu(Chosen)
    /\ current' = Chosen /\ tabuList' = Remembered(Chosen)
    /\ NextStep(IF Improves(Chosen) THEN Chosen ELSE best, BothSaved(Chosen))

(* run: a tabu neighbor that beats the best is remembered as the best *)
Aspire ==
    /\ stage = "choose" /\ ~AllTabu /\ Tabu(Chosen) /\ Improves(Chosen)
    /\ tabuList' = Remembered(Chosen) /\ UNCHANGED current
    /\ NextStep(Chosen, BothSaved(Chosen))

(* run: a tabu neighbor that does not is removed; the others are scored again *)
Reject ==
    /\ stage = "choose" /\ ~AllTabu /\ Tabu(Chosen) /\ ~Improves(Chosen)
    /\ neighborhood' = RemoveFirst(neighborhood, Chosen)
    /\ store' = BothSaved(Chosen) /\ scores' = <<>> /\ stage' = "score"
    /\ UNCHANGED <<assigned, current, best, tabuList, steps>>

Next == AddNeighbor \/ Score \/ GiveUp \/ Accept \/ Aspire \/ Reject

Spec == Init /\ [][Next]_vars

(* What the search compares its candidates with is the fitness of its best *)
(* configuration: whenever the score of best is looked up, it is what the  *)
(* simulation of best returned (optimization.py:523, tabu_search.py:119).  *)
BestScoreIsOwn == Known(store, best) => FitnessIn(store, best) = Fitness[best.point]
=============================================================================
