----------------------------- MODULE ChatAnnouncer -----------------------------
\* deploy/chat-announcer: polls the attack cycle's status, or when that fails the
\* copy the bridge was last given, and says in the chat what has come up: a
\* threshold of the warm-up or of the next attack, the start, the waves of an
\* attack, the end.  What it has said it keeps in memory, by epochs.  A poll with
\* its messages is one step; the words are left out.
EXTENDS Integers, Sequences, FiniteSets, FiniteSetsExt

CONSTANTS
  AnThresholds,        \* for "warmup" and "running": the seconds at which it warns
  AnLength,            \* for both, the length of a warm-up and of the way to an attack
  AnRounds, AnAttacks, AnFaults     \* bounds

ASSUME ThresholdsAreSeconds ==
  \A state \in {"warmup", "running"} :
    AnThresholds[state] \subseteq Nat /\ IsFiniteSet(AnThresholds[state]) /\ AnLength[state] \in Nat

VARIABLES
  anCycle,        \* the cycle's status, fired when it has a last_fire; its round is history
  anFiring,       \* the cycle's thread is sending a wave, of this or an earlier round
  anBridge,       \* the copy at the bridge
  announcer,      \* _prev_state, _attack_index, _warmup_announced, _attack_announced, _go_sent
  anChat,         \* history: what the chat got in this round, or on this way to an attack
  anPolled,       \* history: the status of the last poll, with the last round seen
  anSlip,         \* history: in this round it was given something old, or lost, or began anew
  anGap,          \* history: it took a wave's index over without a last_fire
  anFaults
anVars == <<anCycle, anFiring, anBridge, announcer, anChat, anPolled, anSlip, anGap, anFaults>>

NoIndex == -1
NewAnnouncer == [prev |-> "none", index |-> NoIndex, warmup |-> {}, running |-> {}, go |-> FALSE]
Silent == [warmup |-> <<>>, running |-> <<>>, go |-> 0, incoming |-> 0, over |-> 0]

AnInit ==
  /\ anCycle = [round |-> 0, state |-> "paused", index |-> 0, left |-> 0, fired |-> FALSE]
  /\ anFiring = FALSE /\ anBridge = anCycle /\ anPolled = anCycle
  /\ announcer = NewAnnouncer /\ anChat = Silent /\ anSlip = TRUE /\ anGap = FALSE /\ anFaults = 0

\* The attack cycle: a round begins, from any state; time runs; the warm-up ends in
\* an attack that is due at once; the HQ falls, or a reset.  An attack raises the
\* index in one lock section and sets last_fire in another, once its waves are sent.
CycleBegins ==
  /\ anCycle.round < AnRounds /\ anChat' = Silent /\ anGap' = FALSE /\ UNCHANGED anFiring
  /\ anCycle' = [round |-> anCycle.round + 1, state |-> "warmup", index |-> 0, left |-> AnLength["warmup"], fired |-> FALSE]
CycleTicks ==
  /\ anCycle.state \in {"warmup", "running"} /\ anCycle.left > 0
  /\ anCycle' = [anCycle EXCEPT !.left = @ - 1] /\ UNCHANGED <<anFiring, anChat, anGap>>
CycleStarts ==
  /\ ~anFiring /\ anCycle.state = "warmup" /\ anCycle.left = 0
  /\ anCycle' = [anCycle EXCEPT !.state = "running"] /\ UNCHANGED <<anFiring, anChat, anGap>>
CycleAttacks ==
  /\ ~anFiring /\ anCycle.state = "running" /\ anCycle.left = 0 /\ anCycle.index < AnAttacks
  /\ anCycle' = [anCycle EXCEPT !.index = @ + 1, !.left = AnLength["running"]]
  /\ anFiring' = TRUE /\ anChat' = [anChat EXCEPT !.running = <<>>, !.incoming = 0] /\ anGap' = FALSE
CycleFires ==
  /\ anFiring /\ anFiring' = FALSE
  /\ anCycle' = [anCycle EXCEPT !.fired = TRUE] /\ UNCHANGED <<anChat, anGap>>
CycleStops ==
  /\ anCycle.state \in {"warmup", "running"} /\ UNCHANGED <<anFiring, anChat, anGap>>
  /\ \/ anCycle' = [anCycle EXCEPT !.state = "game_over", !.left = 0]
     \/ anCycle' = [anCycle EXCEPT !.state = "paused", !.left = 0, !.index = 0, !.fired = FALSE]
CycleMoves ==
  /\ CycleBegins \/ CycleTicks \/ CycleStarts \/ CycleAttacks \/ CycleFires \/ CycleStops
  /\ UNCHANGED <<anBridge, announcer, anPolled, anSlip, anFaults>>
\* The bridge's copy, as long as it may still be asked for.
StatusPushed ==
  /\ anFaults < AnFaults /\ anBridge # anCycle /\ anBridge' = anCycle
  /\ UNCHANGED <<anCycle, anFiring, announcer, anChat, anPolled, anSlip, anGap, anFaults>>

\* step(): a new warm-up begins both epochs, another index that of the attack.  The
\* state is kept for the next poll, paused or not (bug: not when paused).
KeepsPaused(st) == IF st.state = "paused" THEN announcer.prev ELSE st.state
Previous(st) == st.state
Begins(st) == st.state = "warmup" /\ announcer.prev # "warmup"
Known(st) ==
  [announcer EXCEPT !.warmup = IF Begins(st) THEN {} ELSE @, !.go = @ /\ ~Begins(st),
                    !.running = IF Begins(st) \/ st.index # announcer.index THEN {} ELSE @]
\* _resolve_threshold: of those that are crossed and not said the largest is said,
\* and all count as said.
Crossed(st, said) ==
  IF st.state = "running" \/ (st.state = "warmup" /\ st.left > 0)
  THEN {t \in AnThresholds[st.state] : st.left <= t} \ said[st.state] ELSE {}
Goes(st, said) ==
  /\ ~said.go
  /\ (st.state = "warmup" /\ st.left = 0) \/ (st.state = "running" /\ announcer.prev = "warmup")
Remembers(st) ==
  LET said == Known(st)
      now == IF Crossed(st, said) = {} THEN said ELSE [said EXCEPT ![st.state] = @ \cup Crossed(st, said)]
  IN [now EXCEPT !.prev = Previous(st), !.index = st.index, !.go = @ \/ Goes(st, said)]
One(said) == IF said THEN 1 ELSE 0
\* Another index in a running round is a wave; without counts of a last_fire it is
\* not told of, and its index is taken over all the same.
Comes(st) == st.state = "running" /\ announcer.index # NoIndex /\ st.index > announcer.index
Fires(st) == Comes(st) /\ st.fired
Says(st) ==
  LET said == Known(st)
      new == Crossed(st, said)
      warned == IF new = {} THEN anChat ELSE [anChat EXCEPT ![st.state] = Append(@, Max(new))]
      ends == st.state = "game_over" /\ announcer.prev \in {"warmup", "running"}
  IN [warned EXCEPT !.go = @ + One(Goes(st, said)), !.incoming = @ + One(Fires(st)), !.over = @ + One(ends)]

\* poll_once: fetch_status, step, send.  A round it comes to in the warm-up, from
\* another state, is one it can tell of as a whole.
AnPoll(st, lost) ==
  LET joins == st.state = "warmup" /\ anPolled.state # "warmup"
      old == st # anCycle
  IN /\ announcer' = Remembers(st) /\ anPolled' = [st EXCEPT !.round = Max({@, anPolled.round})]
     /\ anChat' = IF lost \/ st.round # anCycle.round THEN anChat ELSE Says(st)
     /\ anSlip' = (old \/ lost \/ (IF st.round > anPolled.round THEN ~joins ELSE anSlip))
     /\ anGap' = (anGap \/ (Comes(st) /\ ~st.fired))
     /\ UNCHANGED <<anCycle, anFiring, anBridge>>
AnFault == anFaults < AnFaults /\ anFaults' = anFaults + 1
PollCycle == AnPoll(anCycle, FALSE) /\ UNCHANGED anFaults
PollBridge == AnFault /\ AnPoll(anBridge, FALSE)
SendsFail == AnFault /\ AnPoll(anCycle, TRUE)
AnnouncerDies ==
  /\ AnFault /\ announcer' = NewAnnouncer /\ anSlip' = TRUE
  /\ UNCHANGED <<anCycle, anFiring, anBridge, anChat, anPolled, anGap>>

AnNext == CycleMoves \/ StatusPushed \/ PollCycle \/ PollBridge \/ SendsFail \/ AnnouncerDies
AnSpec == AnInit /\ [][AnNext]_anVars
-----------------------------------------------------------------------------
\* "genau einmal pro Schwelle und Epoche, kein 1-Hz-Spam" (announcer.py:6-8):
\* however often or seldom it polls, the thresholds of a warm-up or of one attack
\* come in falling order, none twice, and the start, each attack and the end once -
\* in a round it was there for from the warm-up, told the present, not cut off.
Falls(said) == \A i \in 1 .. (Len(said) - 1) : said[i] > said[i + 1]
SaysOnce ==
  ~anSlip /\ anPolled.round = anCycle.round =>
    /\ Falls(anChat.warmup) /\ Falls(anChat.running)
    /\ anChat.go <= 1 /\ anChat.incoming <= 1 /\ anChat.over <= 1
\* And after a poll of such a round nothing that was due has been left out, but a
\* wave a poll found in the status before its last_fire.
SaysAll ==
  ~anSlip /\ anPolled = anCycle =>
    /\ anCycle.state = "warmup" /\ anCycle.left > 0 /\ (\E t \in AnThresholds["warmup"] : anCycle.left <= t) =>
         anChat.warmup # <<>>
    /\ anCycle.state = "running" =>
         anChat.go = 1 /\ ((\E t \in AnThresholds["running"] : anCycle.left <= t) => anChat.running # <<>>)
    /\ anCycle.state = "running" /\ anCycle.index > 0 /\ ~anGap => anChat.incoming = 1
    /\ anCycle.state = "game_over" => anChat.over = 1

\* The chat hears each remaining time, start, wave and end of a round once, and
\* none is left out but the wave whose fires a poll came between.
ChatTellsOnce == SaysOnce /\ SaysAll
=============================================================================
