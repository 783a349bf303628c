------------------------------ MODULE WaveLoop ------------------------------
(***************************************************************************)
(* The wave referee with everything between it and a world: the executor   *)
(* in the game (external, as the referee's comments and the API document   *)
(* describe it), its event log, which a relay reads line by line and       *)
(* reports, the handlers of POST /report hq_dead and POST /referee/event,  *)
(* and the poll of the outbox (tournament/src/api.rs).                     *)
(***************************************************************************)
EXTENDS WaveReferee, Sequences, FiniteSets

CONSTANTS
  Deployments,   \* sets of what may happen in one of them:
                 \*   "push": hq_dead comes by POST /report, which pushes the reset
                 \*   "repeat": the relay may report a line of the log again
                 \*   "loss": the answer of a poll may be lost
                 \*   "overlap": a poll may come while a handler pushes
                 \*   "unanswered": a push that arrived may get no answer, or too late a one
  MaxRounds,     \* bound: resets of a world
  MaxLevel       \* bound: waves of a round

VARIABLES
  exec,          \* executor: state, the wave it spawns (0: none), resets done
  log,           \* log[w]: events the relay has not reported yet
  inbox,         \* inbox[w]: commands the executor has not run yet
  pushing,       \* the resets a handler pushes, or pushed and has not acked
  handed,        \* history: how often command n was handed to its executor
  may            \* what may happen in this deployment

loopVars == <<exec, log, inbox, pushing, handed, may>>
allVars == <<vars, loopVars>>

LoopInit ==
  /\ Init
  /\ exec = [w \in Worlds |-> [state |-> "boot", wave |-> 0, life |-> 0]]
  /\ log = [w \in Worlds |-> <<>>]
  /\ inbox = [w \in Worlds |-> {}]
  /\ pushing = {}
  /\ handed = [n \in 1 .. MaxCmd |-> 0]
  /\ may \in Deployments

Event(w, kind) == [kind |-> kind, level |-> exec[w].wave, life |-> exec[w].life]
Writes(w, kind) == log' = [log EXCEPT ![w] = Append(@, Event(w, kind))]

-----------------------------------------------------------------------------
(* The executor.                                                           *)

ExecReady(w) ==
  /\ exec[w].state = "boot"
  /\ exec' = [exec EXCEPT ![w].state = "up"]
  /\ Writes(w, "ready")
  /\ UNCHANGED <<vars, inbox, pushing, handed, may>>

ExecWaveDone(w) ==
  /\ exec[w].wave # 0
  /\ exec[w].state = "up"
  /\ exec' = [exec EXCEPT ![w].wave = 0]
  /\ Writes(w, "wave_done")
  /\ UNCHANGED <<vars, inbox, pushing, handed, may>>

\* The death may be logged more than once.
ExecHqDead(w) ==
  /\ exec[w].state \in {"up", "dead"}
  /\ Len(log[w]) < 3
  /\ exec[w].life < MaxRounds
  /\ exec' = [exec EXCEPT ![w].state = "dead"]
  /\ Writes(w, "hq_destroyed")
  /\ UNCHANGED <<vars, inbox, pushing, handed, may>>

\* The oldest command runs: rb_wave spawns its wave, rb_reset starts over.
Run(w) ==
  \E c \in inbox[w] :
    /\ \A d \in inbox[w] : c.id <= d.id
    /\ inbox' = [inbox EXCEPT ![w] = @ \ {c}]
    /\ exec' = [exec EXCEPT ![w] =
                  IF c.level = 0
                  THEN [state |-> "boot", wave |-> 0, life |-> @.life + 1]
                  ELSE [state |-> @.state, wave |-> IF @.wave = 0 THEN c.level ELSE @.wave,
                        life |-> @.life]]
    /\ UNCHANGED <<vars, log, pushing, handed, may>>

-----------------------------------------------------------------------------
(* The referee's handlers.                                                 *)

Decides(w, e) ==
  \/ e.kind = "ready" /\ OnReady(w)
  \/ e.kind = "wave_done" /\ OnWaveDone(w, e.level)
  \/ e.kind = "hq_destroyed" /\ OnHqDestroyed(w)
  \/ Ignored(w, e.kind, e.level) /\ UNCHANGED vars

\* The relay reports the next line, and may report it again later.
Relay(w) ==
  /\ log[w] # <<>>
  /\ LET e == Head(log[w]) IN
     /\ Decides(w, e)
     /\ pushing' = IF "push" \in may /\ e.kind = "hq_destroyed"
                   THEN pushing \union {[to |-> w, command |-> c, pushed |-> FALSE] :
                                          c \in outbox'[w] \ outbox[w]}
                   ELSE pushing
     /\ \/ log' = [log EXCEPT ![w] = Tail(@)]
        \/ /\ "repeat" \in may
           /\ Len(log[w]) < 3
           /\ log' = [log EXCEPT ![w] = Append(Tail(@), e)]
  /\ nextLevel'[w] <= MaxLevel + 1
  /\ UNCHANGED <<exec, inbox, handed, may>>

Hand(w, commands) ==
  /\ inbox' = [inbox EXCEPT ![w] = @ \union commands]
  /\ handed' = [n \in 1 .. MaxCmd |->
                 IF \E c \in commands : c.id = n THEN handed[n] + 1 ELSE handed[n]]

\* The push of a reset (push_referee_commands).  A push without a good answer, be it
\* that it never arrived or that only its answer was lost or came after the timeout
\* (post_json), is not acked: the command stays in the outbox for the poll.
Push ==
  \E p \in pushing :
    /\ ~p.pushed
    /\ \/ /\ Hand(p.to, {p.command})
          /\ pushing' = (pushing \ {p}) \union {[p EXCEPT !.pushed = TRUE]}
       \/ /\ pushing' = pushing \ {p}
          /\ UNCHANGED <<inbox, handed>>
       \/ /\ "unanswered" \in may
          /\ Hand(p.to, {p.command})
          /\ pushing' = pushing \ {p}
    /\ UNCHANGED <<vars, exec, log, may>>

\* After the push the handler acks what was pushed.
Acked(p) == {p.command}

Ack ==
  \E p \in pushing :
    /\ p.pushed
    /\ Take(p.to, Acked(p))
    /\ pushing' = pushing \ {p}
    /\ UNCHANGED <<exec, log, inbox, handed, may>>

\* GET /referee/poll: the outbox is emptied before the answer is on its way.
Poll(w) ==
  /\ outbox[w] # {}
  /\ "overlap" \notin may => pushing = {}
  /\ Take(w, outbox[w])
  /\ \/ Hand(w, outbox[w])
     \/ "loss" \in may /\ UNCHANGED <<inbox, handed>>
  /\ UNCHANGED <<exec, log, pushing, may>>

LoopNext ==
  \/ \E w \in Worlds : ExecReady(w) \/ ExecWaveDone(w) \/ ExecHqDead(w) \/ Run(w)
                       \/ Relay(w) \/ Poll(w)
  \/ Push \/ Ack

\* The relay, the poller, the handlers and the executor keep going; nobody has
\* to die.
LoopSpec ==
  /\ LoopInit /\ [][LoopNext]_allVars
  /\ WF_allVars(Push \/ Ack)
  /\ \A w \in Worlds : WF_allVars(Relay(w)) /\ WF_allVars(Poll(w)) /\ WF_allVars(Run(w))
                       /\ WF_allVars(ExecReady(w)) /\ WF_allVars(ExecWaveDone(w))

-----------------------------------------------------------------------------
(* Properties.                                                             *)

\* No double wave: the executor is never told to spawn a wave while it spawns
\* one.  With a log that is reported in order, each line once, and resets that
\* are polled, the referee's idea of the wave in flight is never ahead of the
\* world, through deaths, resets and lost answers.  It is in the others: a
\* wave_done of an earlier life, reported again, counts for the new one ("a
\* repeated log event never makes a double wave", referee.rs), and a pushed
\* reset overtakes a wave in the outbox.
Queued == {"push", "repeat"} \intersect may = {}

OneWaveAtATime ==
  Queued => \A w \in Worlds : exec[w].wave # 0 =>
              \A c \in inbox[w] \union outbox[w] : c.level = 0

\* "The waves rest until the executor is ready again" (referee.rs): a wave that
\* was decided before the HQ's death never runs after the reset, if resets are
\* polled.
WavesOfThisLife ==
  Queued => \A w \in Worlds : \A c \in inbox[w] :
              c.level > 0 => c.round = exec[w].life

\* One reset for one death: the world is never reset more often than its HQ was
\* destroyed, nor more often than the referee decided, polled or pushed and with
\* answers of polls lost, unless a poll comes between a push and its ack or a push
\* that arrived gets no answer.
OneResetPerDeath ==
  {"repeat", "overlap", "unanswered"} \intersect may = {} =>
    \A w \in Worlds :
      /\ exec[w].life <= rounds[w]
      /\ rounds[w] <= exec[w].life + 1

\* "Delivered exactly once, push or poll, never both" (referee.rs, ack): so it is as
\* long as no poll comes between a push and its ack and pushes that arrive are
\* answered, however often lines repeat.  Otherwise push and poll may both hand a
\* command out, and never more often than these two.
HandedOnce == \A n \in 1 .. MaxCmd :
  /\ handed[n] <= 2
  /\ {"overlap", "unanswered"} \intersect may = {} => handed[n] <= 1

\* A world that is up gets its next wave, or dies, until the cap is reached: the
\* referee never waits for the report of a wave that was not spawned, and never
\* leaves a restarted world without its ready's wave, when nothing is lost,
\* repeated or pushed.
WavesGoOn ==
  \A w \in Worlds :
    may = {} /\ exec[w].state = "up" ~>
      (exec[w].wave # 0 \/ exec[w].state = "dead" \/ (running[w] /\ inFlight[w] = None))

\* What reaches the executor: one wave at a time, of this life, each command once and
\* one reset for a death, each in the deployments that it names.
CommandsRunOnce == OneWaveAtATime /\ WavesOfThisLife /\ OneResetPerDeath /\ HandedOnce
=============================================================================
