-------------------------- MODULE MCDailyProfiles --------------------------
(***************************************************************************)
(* Two profiles, 1 LONG and 2 SHORT, and the rows of the scripts.          *)
(*                                                                         *)
(* The histories that are replayed: one profile whose rows settle up to a  *)
(* minute late, so that they arrive out of the order of their opening; and *)
(* two profiles that name the same decision, whose first owner leaves the  *)
(* window while the other stays.                                           *)
(*                                                                         *)
(* The databases of the backtest: each profile observed before the first   *)
(* selection or not; the LONG one in up to two minutes of the second day,  *)
(* the first of which may settle two minutes late; and the SHORT one once, *)
(* as the primary signal or as another candidate.                          *)
(***************************************************************************)
EXTENDS ProfileReplay

CONSTANTS LateTimes, SharedTimes      \* the minutes each history opens rows at

Row(k, t, late, w, d) ==
    [key |-> k, opened |-> t, expires |-> t + Life, settled |-> t + Life + late,
     won |-> w, dec |-> d]

MCHistories ==
    {{Row(1, t, late, w, 0) : t \in LateTimes, late \in {0, 1}, w \in BOOLEAN},
     {Row(k, t, 0, w, d) : k \in Profiles, t \in SharedTimes, w \in BOOLEAN, d \in {0, 1}}}

Ranked(k, t, late, o) == {[ord |-> o] @@ Row(k, t, late, w, 0) : w \in BOOLEAN}

AtMostOne(S) == {{}} \cup {{e} : e \in S}

MCDatabases ==
    {a \cup b \cup c \cup d \cup e :
        a \in AtMostOne({[ord |-> 0] @@ Row(1, 1, 0, TRUE, 0)}),
        b \in AtMostOne({[ord |-> 1] @@ Row(2, 1, 0, TRUE, 0)}),
        c \in AtMostOne(Ranked(1, 5, 0, 0) \cup Ranked(1, 5, 2, 0)),
        d \in AtMostOne(Ranked(1, 6, 0, 1)),
        e \in AtMostOne(Ranked(2, 6, 0, 0) \cup Ranked(2, 6, 2, 1) \cup Ranked(2, 7, 0, 0))}
    \ {{}}
=============================================================================
