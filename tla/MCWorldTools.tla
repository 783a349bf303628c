----------------------------- MODULE MCWorldTools -----------------------------
EXTENDS WorldTools

\* Router: a client alone behind its address, two behind another; one has no name.
\* Without holds there are three flows, with them two.
Addresses == {<<1, 1>>, <<2, 1>>, <<2, 2>>}
Homes == [c \in Addresses |-> IF c = <<1, 1>> THEN "b1" ELSE IF c = <<2, 1>> THEN "b2" ELSE "none"]
Scenes ==
  {[hold |-> FALSE, drop |-> TRUE, datagrams |-> 2, switches |-> 1, flows |-> 3],
   [hold |-> TRUE, drop |-> FALSE, datagrams |-> 3, switches |-> 1, flows |-> 2],
   [hold |-> TRUE, drop |-> TRUE, datagrams |-> 2, switches |-> 1, flows |-> 2]}

\* Collector: main calls functions with a frame pointer, with alloca, with a saved
\* rbp, without unwind data, and of a module that is not given.
Dumps == [exc : {"full", "noContext", "none"}, thread : {"fault", "dispatcher", "none"}, stack : {"there", "missing"}]
Functions6 ==
  [f \in {"main", "framed", "alloca", "saver", "bare", "foreign"} |->
    [at |-> CASE f = "main" -> 100 [] f = "framed" -> 200 [] f = "alloca" -> 300 [] f = "saver" -> 400
              [] f = "bare" -> 500 [] OTHER -> 600,
     module |-> IF f = "foreign" THEN "other" ELSE IF f = "bare" THEN "second" ELSE "game",
     frame |-> f \in {"main", "framed", "alloca"}, info |-> f # "bare",
     prolog |-> CASE f \in {"main", "framed"} -> <<Pushes, SetsFrame(0)>>
                  [] f = "alloca" -> <<Pushes, Allocs(2), SetsFrame(1)>>
                  [] f = "saver" -> <<Allocs(1), Saves(0)>>
                  [] OTHER -> <<Allocs(1)>>]]

\* Cycle: a faster beat, a faster schedule, or other toggles.
Setting(interval, schedule, on) ==
  [interval |-> interval, offset |-> 1, schedule |-> schedule, counts |-> <<1, 2>>, boss |-> 3,
   toggles |-> [natural |-> TRUE, persona |-> TRUE, self |-> on, enemy |-> ~on]]
Settings == {Setting(3, <<2, 3>>, TRUE), Setting(2, <<2, 3>>, TRUE), Setting(3, <<1>>, FALSE)}
Persona2 == <<1, 0, 2>>

\* Scheduler: seconds per level.
ToNext == <<2, 1, 3, 2>>
Intervals == <<3, 2, 2, 1>>

\* Recorder: a death, and a log that begins anew, or a line written in two pieces.
RecorderBounds ==
  {[lines |-> 3, heads |-> 0, cuts |-> 1, deaths |-> 1], [lines |-> 4, heads |-> 0, cuts |-> 0, deaths |-> 0],
   [lines |-> 2, heads |-> 1, cuts |-> 1, deaths |-> 0]}

\* Announcer: two seconds of warm-up, one between attacks.
Thresholds == [state \in {"warmup", "running"} |-> IF state = "warmup" THEN {1, 2} ELSE {0, 1}]
Lengths == [state \in {"warmup", "running"} |-> IF state = "warmup" THEN 2 ELSE 1]
=============================================================================
