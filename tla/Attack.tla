--------------------------------- MODULE Attack ---------------------------------
(***************************************************************************)
(* The jobs of a repeater attack (internal/repeater/attack.go): which      *)
(* value every variable of the template gets in every request.             *)
(*                                                                         *)
(* An attack has a mode, its insertion points (positions), one list of     *)
(* payloads for each, and base, the values outside an insertion.  A job is *)
(* a function from names to payloads.  Jobs yields one map again and       *)
(* again: sniper takes back what it put in for a position, and every other *)
(* mode sets all positions anew for every job.                             *)
(***************************************************************************)
EXTENDS Naturals, SequencesExt

Modes == <<"single", "sniper", "battering-ram", "pitchfork", "cluster-bomb">>

Set(job, pos, payload) ==
    [name \in {pos} \cup DOMAIN job |-> IF name = pos THEN payload ELSE job[name]]

\* The insertion points that have a list.
Inserts(a) == IF Len(a.lists) < Len(a.positions) THEN Len(a.lists) ELSE Len(a.positions)
Listed(a) == 1 .. Inserts(a)

\* The values of base, and over them a payload for each of the first positions.  All
\* of them are set for every job, so that nothing is left of the job before.
Inserting(a, payloads) ==
    LET at(name) == {i \in DOMAIN payloads : a.positions[i] = name}
    IN  [name \in DOMAIN a.base \cup {a.positions[i] : i \in DOMAIN payloads} |->
            IF at(name) = {} THEN a.base[name] ELSE payloads[Max(at(name))]]

\* Mutation: the last payload stays behind.
NotRestored(job, pos, base) == job

\* What becomes of a position when its list is through.
Restored(job, pos, base) ==
    IF pos \in DOMAIN base THEN Set(job, pos, base[pos])
    ELSE [name \in DOMAIN job \ {pos} |-> job[name]]

\* One position after the other goes through its list.
WalkList(a, s, i) ==
    LET jobs == [k \in DOMAIN a.lists[i] |-> Set(s.job, a.positions[i], a.lists[i][k])]
        left == IF jobs = <<>> THEN s.job ELSE Last(jobs)
    IN  [job |-> Restored(left, a.positions[i], a.base), jobs |-> s.jobs \o jobs]

SniperJobs(a) ==
    LET walked[i \in 0 .. Inserts(a)] ==
            IF i = 0 THEN [job |-> a.base, jobs |-> <<>>] ELSE WalkList(a, walked[i - 1], i)
    IN  walked[Inserts(a)].jobs

BatteringRamJobs(a) ==
    IF a.lists = <<>> THEN <<>>
    ELSE [k \in DOMAIN a.lists[1] |->
             Inserting(a, [i \in DOMAIN a.positions |-> a.lists[1][k]])]

PitchforkJobs(a) ==
    LET n == IF a.positions = <<>> \/ Len(a.lists) < Len(a.positions) THEN 0
             ELSE Min({Len(a.lists[i]) : i \in Listed(a)})
    IN  [k \in 1 .. n |-> Inserting(a, [i \in DOMAIN a.positions |-> a.lists[i][k]])]

\* The odometer: the last position turns first.
Full(a, turns) == {i \in Listed(a) : turns[i] = Len(a.lists[i])}

Turn(a, turns) ==
    LET wheel == Max(Listed(a) \ Full(a, turns))
    IN  [i \in Listed(a) |->
            CASE i < wheel -> turns[i] [] i = wheel -> turns[i] + 1 [] OTHER -> 1]

Wheels(a) == {turns \in [Listed(a) -> Nat] : \A i \in Listed(a) : turns[i] \in 1 .. Len(a.lists[i])}

\* Every reading of the odometer, in turn.
Readings(a) ==
    LET from[turns \in Wheels(a)] ==
            <<turns>> \o (IF Full(a, turns) = Listed(a) THEN <<>> ELSE from[Turn(a, turns)])
    IN  from[[i \in Listed(a) |-> 1]]

ReadingJob(a, turns) == Inserting(a, [i \in Listed(a) |-> a.lists[i][turns[i]]])

ClusterBombJobs(a) ==
    CASE Listed(a) = {} -> <<a.base>>
      [] \E i \in Listed(a) : a.lists[i] = <<>> -> <<>>
      [] OTHER -> LET readings == Readings(a)
                  IN  [k \in DOMAIN readings |-> ReadingJob(a, readings[k])]

Jobs(a) ==
    CASE a.mode = "sniper" -> SniperJobs(a)
      [] a.mode = "battering-ram" -> BatteringRamJobs(a)
      [] a.mode = "pitchfork" -> PitchforkJobs(a)
      [] a.mode = "cluster-bomb" -> ClusterBombJobs(a)
      [] OTHER -> <<a.base>>

-----------------------------------------------------------------------------
(* Reference: the table of attack modes in docs/repeater.md, for an attack *)
(* with a list of distinct payloads for every position.                    *)

\* The positions a job does not leave at their base value.
Inserted(a, job) == {i \in Listed(a) : job[a.positions[i]] # a.base[a.positions[i]]}

LengthsAdded(a) ==
    LET sum[i \in 0 .. Inserts(a)] == IF i = 0 THEN 0 ELSE sum[i - 1] + Len(a.lists[i])
    IN  sum[Inserts(a)]

LengthsMultiplied(a) ==
    LET product[i \in 0 .. Inserts(a)] == IF i = 0 THEN 1 ELSE product[i - 1] * Len(a.lists[i])
    IN  product[Inserts(a)]

Count(a) ==
    CASE a.mode = "sniper" -> LengthsAdded(a)
      [] a.mode = "battering-ram" -> IF a.lists = <<>> THEN 0 ELSE Len(a.lists[1])
      [] a.mode = "pitchfork" ->
            IF a.lists = <<>> THEN 0 ELSE Min({Len(a.lists[i]) : i \in Listed(a)})
      [] a.mode = "cluster-bomb" -> LengthsMultiplied(a)
      [] OTHER -> 1

JobsAsDocumented(a) ==
    LET jobs == Jobs(a)
        tried(i, payload) == \E k \in DOMAIN jobs : jobs[k][a.positions[i]] = payload
    IN  /\ Len(jobs) = Count(a)
        /\ \A k \in DOMAIN jobs : DOMAIN jobs[k] = DOMAIN a.base
        /\ a.mode \in {"sniper", "cluster-bomb"} /\ jobs # <<>> =>
              \A i \in Listed(a) : \A payload \in ToSet(a.lists[i]) : tried(i, payload)
        /\ a.mode = "sniper" => \A k \in DOMAIN jobs : Cardinality(Inserted(a, jobs[k])) <= 1
        /\ a.mode = "battering-ram" =>
              \A k \in DOMAIN jobs : \A i \in Listed(a) :
                  jobs[k][a.positions[i]] = a.lists[1][k]
        /\ a.mode = "pitchfork" =>
              \A k \in DOMAIN jobs : \A i \in Listed(a) :
                  jobs[k][a.positions[i]] = a.lists[i][k]
        /\ a.mode = "cluster-bomb" => IsInjective(jobs)
================================================================================
