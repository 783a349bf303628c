------------------------------ MODULE MatchLoop ------------------------------
\* deploy/match-loop: the sidecar that polls a world's headquarters (HQ).  Solo it
\* ends the lost game and, after a delay, resets the map; with a referee (a vs
\* world) it only reports.  Polls and posts are steps, the game moves in between.
EXTENDS Integers

CONSTANTS MlMaxHp,
          MlRounds, MlFaults       \* bounds: maps, lost or failed posts and polls

ASSUME HqStands == MlMaxHp \in Nat \ {0}

VARIABLES
  hq,             \* the HQ of the current map: its hit points, or Gone (not built, removed)
  builtHq,        \* the current map had an HQ
  screen,         \* the game shows its LOST screen
  mlVs,           \* RBB_REFEREE_URL is set
  mlSeen,         \* seen_alive
  mlDefeat,       \* defeat_at: "none", "waiting", "due"
  mlHp,           \* last_reported_hp
  mlAt,           \* where step() is: "sleep", "hp", "dead" (reports to post), "end" or "restart"
  mlView,         \* what its poll saw
  refereeHp, refereeDead,   \* what the referee was told
  mlCount,        \* maps, faults, HQs that died, games ended, maps that others reset
  mlSlip          \* history: a post was lost
mlVars == <<hq, builtHq, screen, mlVs, mlSeen, mlDefeat, mlHp, mlAt, mlView, refereeHp, refereeDead, mlCount, mlSlip>>
game == <<hq, builtHq, screen>>
referee == <<refereeHp, refereeDead>>

Gone == -1
NoHp == -2        \* None: nothing reported yet

MlInit ==
  /\ hq = Gone /\ builtHq = FALSE /\ screen = FALSE
  /\ mlVs \in BOOLEAN /\ mlSeen = FALSE /\ mlDefeat = "none" /\ mlHp = NoHp
  /\ mlAt = "sleep" /\ mlView = Gone
  /\ refereeHp = NoHp /\ refereeDead = FALSE
  /\ mlCount = [maps |-> 1, faults |-> 0, deaths |-> 0, ended |-> 0, foreign |-> 0] /\ mlSlip = FALSE

MlFault == mlCount.faults < MlFaults /\ mlCount' = [mlCount EXCEPT !.faults = @ + 1]
mlLoop == <<mlSeen, mlDefeat, mlHp, mlAt, mlView>>

\* The game: an HQ is built, is hit and is removed when it is dead.
BuildHq == ~builtHq /\ hq' = MlMaxHp /\ builtHq' = TRUE /\ UNCHANGED <<screen, mlCount>>
HitHq ==
  /\ hq > 0 /\ ~screen /\ hq' = hq - 1 /\ UNCHANGED <<builtHq, screen>>
  /\ mlCount' = IF hq = 1 THEN [mlCount EXCEPT !.deaths = @ + 1] ELSE mlCount
RemoveHq == hq = 0 /\ hq' = Gone /\ UNCHANGED <<builtHq, screen, mlCount>>
GameMoves == (BuildHq \/ HitHq \/ RemoveHq) /\ UNCHANGED <<mlVs, mlLoop, referee, mlSlip>>

\* Others give the world a new map: the pool's recycle, or a rematch, with which
\* the referee forgets the HQ.
NewMap ==
  /\ mlCount.maps < MlRounds
  /\ mlCount' = [mlCount EXCEPT !.maps = @ + 1, !.foreign = @ + 1]
  /\ hq' = Gone /\ builtHq' = FALSE /\ screen' = FALSE
  /\ refereeHp' = NoHp /\ refereeDead' = FALSE
  /\ UNCHANGED <<mlVs, mlLoop, mlSlip>>

MlAlive(view) == view > 0
\* is_defeat: dead, or not there; the latch tells an HQ lost from one not built
\* (bugs: no latch; only a dead one that is still there counts).
AnyAbsence(view) == ~MlAlive(view)
DeadOnly(view) == mlSeen /\ view = 0
IsDefeat(view) == mlSeen /\ ~MlAlive(view)

\* step(): get_state; an answer that is not ok changes nothing.  With a referee it
\* reports hit points that are new, and drops the latch with the report of the death.
ToldAnew(view) == view # mlHp
MlPoll ==
  /\ mlAt = "sleep" /\ (mlVs \/ mlDefeat = "none")
  /\ \/ MlFault /\ UNCHANGED mlLoop
     \/ /\ mlView' = hq /\ UNCHANGED <<mlCount, mlHp, mlDefeat>>
        /\ \/ /\ MlAlive(hq) /\ mlSeen' = TRUE
              /\ mlAt' = IF mlVs /\ ToldAnew(hq) THEN "hp" ELSE "sleep"
           \/ /\ IsDefeat(hq) /\ mlSeen' = FALSE
              /\ mlAt' = IF ~mlVs THEN "end" ELSE IF hq # Gone /\ ToldAnew(hq) THEN "hp" ELSE "dead"
           \/ ~MlAlive(hq) /\ ~IsDefeat(hq) /\ mlAt' = "sleep" /\ UNCHANGED mlSeen
  /\ UNCHANGED <<game, mlVs, referee, mlSlip>>

\* A post arrives, or fails and is not repeated; hit points count as reported
\* either way.
MlPost(told, step, then) ==
  /\ mlAt = step /\ mlAt' = then
  /\ \/ told /\ UNCHANGED <<mlCount, mlSlip>>
     \/ MlFault /\ mlSlip' = TRUE /\ UNCHANGED <<game, referee>>
  /\ UNCHANGED <<mlVs, mlSeen, mlView>>
ReportHp ==
  /\ MlPost(refereeHp' = mlView /\ UNCHANGED <<game, refereeDead>>, "hp",
            IF MlAlive(mlView) THEN "sleep" ELSE "dead")
  /\ mlHp' = mlView /\ UNCHANGED mlDefeat
ReportDead ==
  MlPost(refereeDead' = TRUE /\ UNCHANGED <<game, refereeHp>>, "dead", "sleep") /\ UNCHANGED <<mlHp, mlDefeat>>

\* Solo: end_game, the delay, restart_map; defeat_at is cleared whatever came of it.
EndLostGame ==
  /\ mlAt = "end" /\ mlAt' = "sleep" /\ mlDefeat' = "waiting"
  /\ \/ screen' = TRUE /\ mlCount' = [mlCount EXCEPT !.ended = @ + 1] /\ UNCHANGED mlSlip
     \/ MlFault /\ mlSlip' = TRUE /\ UNCHANGED screen
  /\ UNCHANGED <<hq, builtHq, mlVs, mlSeen, mlHp, mlView, referee>>
DelayOver ==
  /\ mlDefeat = "waiting" /\ mlDefeat' = "due"
  /\ UNCHANGED <<game, mlVs, mlSeen, mlHp, mlAt, mlView, referee, mlCount, mlSlip>>
RestartMap ==
  /\ mlAt = "sleep" /\ mlDefeat = "due" /\ mlDefeat' = "none" /\ mlSeen' = FALSE
  /\ \/ /\ mlCount.maps < MlRounds /\ mlCount' = [mlCount EXCEPT !.maps = @ + 1]
        /\ hq' = Gone /\ builtHq' = FALSE /\ screen' = FALSE /\ UNCHANGED mlSlip
     \/ MlFault /\ mlSlip' = TRUE /\ UNCHANGED game
  /\ UNCHANGED <<mlVs, mlHp, mlAt, mlView, referee>>

\* docker restarts the sidecar: latch and delay are memory.
LoopDies ==
  /\ MlFault /\ mlSlip' = TRUE
  /\ mlSeen' = FALSE /\ mlDefeat' = "none" /\ mlHp' = NoHp /\ mlAt' = "sleep" /\ mlView' = Gone
  /\ UNCHANGED <<game, mlVs, referee>>

MlStep == MlPoll \/ ReportHp \/ ReportDead \/ EndLostGame \/ RestartMap
MlNext == GameMoves \/ NewMap \/ MlStep \/ DelayOver \/ LoopDies
MlFair == WF_mlVars(MlStep) /\ WF_mlVars(DelayOver)
MlSpec == MlInit /\ [][MlNext]_mlVars /\ MlFair
-----------------------------------------------------------------------------
\* The loop ends a game once for each HQ that died, and not for a map whose HQ is
\* not built yet (match_loop.py:4-8, 87-91); a map that others reset under a living
\* HQ passes for one more death.
OneEndPerDeath == mlCount.ended + (IF mlAt = "end" THEN 1 ELSE 0) <= mlCount.deaths + mlCount.foreign

\* While no report is lost the referee holds the hit points the loop last saw; a
\* rematch makes it forget them, until they change (match_loop.py:222-229).
RefereeKnowsHp ==
  mlVs /\ ~mlSlip /\ mlAt = "sleep" /\ MlAlive(mlView) =>
    refereeHp = mlView \/ (mlCount.foreign > 0 /\ refereeHp = NoHp /\ mlHp = mlView)

\* While no post is lost, an HQ that was seen and dies is told to the referee, or
\* solo followed by a new map.
DeathIsAnswered ==
  (mlSeen /\ builtHq /\ hq \in {0, Gone} /\ mlAt = "sleep") ~>
    mlSlip \/ (IF mlVs THEN refereeDead ELSE mlCount.maps = MlRounds) \/ ~builtHq

\* The loop's reports and its own ends of a game.
LoopTellsTheGame == OneEndPerDeath /\ RefereeKnowsHp
=============================================================================
