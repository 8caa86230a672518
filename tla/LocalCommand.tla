---------------------------- MODULE LocalCommand ----------------------------
(***************************************************************************)
(* How commands and functions are run for a limited time: run_local of     *)
(* libvirt_ci/utils.py, which polls the process and reads its pipes until  *)
(* it has ended or its time is up and then kills the group; run_local_cmd  *)
(* of cli/fedora_util.py, which has a thread collect the output until the  *)
(* pipes are closed and kills the process and its children; the decorator  *)
(* of cli/FunctionTimeout.py, which runs a function in a process and gets  *)
(* its result from a queue.                                                *)
(***************************************************************************)
EXTENDS Integers

CONSTANTS
    Runner,   \* of "run_local", "run_local_cmd", "function"
    Limited,  \* of BOOLEAN: whether run_local_cmd has a timeout
    MaxOut    \* bound of what the command writes

CommandAssumption ==
    /\ Runner \subseteq {"run_local", "run_local_cmd", "function"}
    /\ Limited \subseteq BOOLEAN /\ MaxOut \in Nat

VARIABLES
    runner, limited,
    shell,     \* the process, and how it ended
    back,      \* a process it leaves in the background, that has its pipes
    wrote,     \* what the process wrote, and what of it is still in the pipe
    inpipe,
    queued,    \* what is in the queue of a function's process
    expired,   \* whether the time is up
    calling,   \* the caller: where it is and what it knows
    collected  \* whether the collecting thread has ended

vars == <<runner, limited, shell, back, wrote, inpipe, queued, expired, calling, collected>>
program == <<shell, back, wrote, inpipe, queued>>

Codes   == {0, 1}
Killed  == [at |-> "dead", code |-> -9]
Alive   == [at |-> "alive", code |-> 0]
Running == shell.at \in {"alive", "flushing"}

TypeOK ==
    /\ runner \in Runner /\ limited \in BOOLEAN /\ expired \in BOOLEAN /\ collected \in BOOLEAN
    /\ shell \in [at : {"alive", "flushing", "exited", "dead"}, code : Codes \cup {-9}]
    /\ back.at \in {"none", "alive", "dead"} /\ back.own \in BOOLEAN /\ back.orphan \in BOOLEAN
    /\ wrote \in 0..MaxOut /\ inpipe \in 0..wrote /\ queued \in {"nothing", "None", "result"}
    /\ calling.at \in {"poll", "read", "kill", "join", "test", "list", "get", "done"}
    /\ calling.status \in {"none", "success", "failure", "timeout", "exit", "value"}

Init ==
    /\ runner \in Runner /\ limited \in IF runner = "run_local_cmd" THEN Limited ELSE {TRUE}
    /\ shell = Alive /\ back = [at |-> "none", own |-> FALSE, orphan |-> FALSE]
    /\ wrote = 0 /\ inpipe = 0 /\ expired = FALSE /\ collected = FALSE
    /\ queued = IF runner = "function" THEN "None" ELSE "nothing"
    /\ calling = [at |-> IF runner = "run_local" THEN "poll" ELSE "join", seen |-> FALSE,
               over |-> FALSE, status |-> "none", got |-> 0, list |-> {}, value |-> "nothing"]

-----------------------------------------------------------------------------
(* The command, the function, and time. *)

Emit ==
    /\ runner # "function" /\ shell.at = "alive" /\ wrote < MaxOut
    /\ wrote' = wrote + 1 /\ inpipe' = inpipe + 1
    /\ UNCHANGED <<runner, limited, shell, back, queued, expired, calling, collected>>

\* A process in the background, in the group of the command or in one of its own.
Fork(own) ==
    /\ runner # "function" /\ shell.at = "alive" /\ back.at = "none"
    /\ back' = [at |-> "alive", own |-> own, orphan |-> FALSE]
    /\ UNCHANGED <<runner, limited, shell, wrote, inpipe, queued, expired, calling, collected>>

Exit(c) ==
    /\ shell.at = "alive" /\ shell' = [at |-> "exited", code |-> c]
    /\ back' = [back EXCEPT !.orphan = @ \/ back.at = "alive"]
    /\ UNCHANGED <<runner, limited, wrote, inpipe, queued, expired, calling, collected>>

BackEnds ==
    /\ back.at = "alive" /\ back' = [back EXCEPT !.at = "dead"]
    /\ UNCHANGED <<runner, limited, shell, wrote, inpipe, queued, expired, calling, collected>>

\* The function returned: `None` is taken from the queue and the result put in.  The
\* process ends when a thread of it has written the result to a pipe, which for a
\* large one somebody must read.
Return(large) ==
    /\ runner = "function" /\ shell.at = "alive" /\ queued' = "result"
    /\ shell' = [at |-> IF large THEN "flushing" ELSE "exited", code |-> 0]
    /\ UNCHANGED <<runner, limited, back, wrote, inpipe, expired, calling, collected>>

TimeIsUp ==
    /\ ~expired /\ expired' = TRUE
    /\ UNCHANGED <<runner, limited, program, calling, collected>>

-----------------------------------------------------------------------------
(* utils.run_local: _update_result in a loop. *)

Ended(status) == calling' = [calling EXCEPT !.at = "done", !.status = status]
OfCode == IF shell.code = 0 THEN "success" ELSE "failure"

\* poll and the duration
Poll ==
    /\ runner = "run_local" /\ calling.at = "poll"
    /\ calling' = [calling EXCEPT !.at = "read", !.seen = ~Running, !.over = expired]
    /\ UNCHANGED <<runner, limited, program, expired, collected>>

\* A process that was seen to have ended wrote all it ever does.
\* (Mutant: only what is there when it runs is read.)
BugReadPipes ==
    /\ runner = "run_local" /\ calling.at = "read"
    /\ calling' = [calling EXCEPT !.got = @ + (IF calling.seen THEN 0 ELSE inpipe),
                    !.status = IF calling.seen THEN OfCode ELSE @,
                    !.at = IF calling.seen THEN "done" ELSE IF calling.over THEN "kill" ELSE "poll"]
    /\ inpipe' = 0
    /\ UNCHANGED <<runner, limited, shell, back, wrote, queued, expired, collected>>
ReadPipes ==
    /\ runner = "run_local" /\ calling.at = "read"
    /\ calling' = [calling EXCEPT !.got = @ + inpipe,
                    !.status = IF calling.seen THEN OfCode ELSE @,
                    !.at = IF calling.seen THEN "done" ELSE IF calling.over THEN "kill" ELSE "poll"]
    /\ inpipe' = 0
    /\ UNCHANGED <<runner, limited, shell, back, wrote, queued, expired, collected>>

\* killpg of the group of the command
KillGroup ==
    /\ runner = "run_local" /\ calling.at = "kill" /\ Ended("timeout")
    /\ shell' = IF Running THEN Killed ELSE shell
    /\ back' = IF back.at = "alive" /\ ~back.own THEN [back EXCEPT !.at = "dead"] ELSE back
    /\ UNCHANGED <<runner, limited, wrote, inpipe, queued, expired, collected>>

-----------------------------------------------------------------------------
(* fedora_util.run_local_cmd, with a CollectThread that communicates. *)

Collect ==
    /\ runner = "run_local_cmd" /\ ~collected /\ inpipe > 0
    /\ calling' = [calling EXCEPT !.got = @ + inpipe] /\ inpipe' = 0
    /\ UNCHANGED <<runner, limited, shell, back, wrote, queued, expired, collected>>

\* The pipes are closed when nobody has them.
\* (Mutant: the thread only waits for the process.)
BugCollected ==
    /\ runner = "run_local_cmd" /\ ~collected /\ ~Running /\ collected' = TRUE
    /\ UNCHANGED <<runner, limited, program, expired, calling>>
Collected ==
    /\ runner = "run_local_cmd" /\ ~collected /\ inpipe = 0 /\ ~Running /\ back.at # "alive"
    /\ collected' = TRUE
    /\ UNCHANGED <<runner, limited, program, expired, calling>>

\* (Mutant: without the timeout.)
BugJoin ==
    /\ runner = "run_local_cmd" /\ calling.at = "join" /\ collected
    /\ calling' = [calling EXCEPT !.at = "test"]
    /\ UNCHANGED <<runner, limited, program, expired, collected>>
Join ==
    /\ runner = "run_local_cmd" /\ calling.at = "join" /\ (collected \/ (limited /\ expired))
    /\ calling' = [calling EXCEPT !.at = "test"]
    /\ UNCHANGED <<runner, limited, program, expired, collected>>

TestJoined ==
    /\ runner = "run_local_cmd" /\ calling.at = "test"
    /\ IF collected THEN Ended(OfCode) ELSE calling' = [calling EXCEPT !.at = "list"]
    /\ UNCHANGED <<runner, limited, program, expired, collected>>

\* kill_subprocess: the children are listed first.  What was left in the background by
\* a process that has exited is not its child any more.
List ==
    /\ runner = "run_local_cmd" /\ calling.at = "list"
    /\ calling' = [calling EXCEPT !.at = "kill", !.list =
                    {"shell"} \cup (IF back.at = "alive" /\ ~back.orphan THEN {"back"} ELSE {})]
    /\ UNCHANGED <<runner, limited, program, expired, collected>>

\* (Mutant: the process before its children, which then are nobody's.)
BugKillListed ==
    /\ runner = "run_local_cmd" /\ calling.at = "kill" /\ Ended("timeout")
    /\ shell' = IF Running THEN Killed ELSE shell
    /\ UNCHANGED <<runner, limited, back, wrote, inpipe, queued, expired, collected>>
KillListed ==
    /\ runner = "run_local_cmd" /\ calling.at = "kill"
    /\ IF "back" \in calling.list
       THEN /\ back' = IF back.at = "alive" THEN [back EXCEPT !.at = "dead"] ELSE back
            /\ calling' = [calling EXCEPT !.list = @ \ {"back"}] /\ UNCHANGED shell
       ELSE /\ shell' = IF Running THEN Killed ELSE shell
            /\ back' = [back EXCEPT !.orphan = @ \/ (Running /\ back.at = "alive")]
            /\ Ended("timeout")
    /\ UNCHANGED <<runner, limited, wrote, inpipe, queued, expired, collected>>

-----------------------------------------------------------------------------
(* FunctionTimeout: join for the time, then kill, exit or get. *)

Joined ==
    /\ runner = "function" /\ calling.at = "join" /\ (~Running \/ expired)
    /\ calling' = [calling EXCEPT !.at = "test"]
    /\ UNCHANGED <<runner, limited, program, expired, collected>>

\* (Mutant: the exit code is not looked at.)
BugTested ==
    /\ runner = "function" /\ calling.at = "test"
    /\ IF Running THEN Ended("timeout") /\ shell' = Killed
       ELSE /\ UNCHANGED shell /\ calling' = [calling EXCEPT !.at = "get"]
    /\ UNCHANGED <<runner, limited, back, wrote, inpipe, queued, expired, collected>>
Tested ==
    /\ runner = "function" /\ calling.at = "test"
    /\ IF Running THEN Ended("timeout") /\ shell' = Killed
       ELSE /\ UNCHANGED shell
            /\ IF shell.code # 0 THEN Ended("exit") ELSE calling' = [calling EXCEPT !.at = "get"]
    /\ UNCHANGED <<runner, limited, back, wrote, inpipe, queued, expired, collected>>

Get ==
    /\ runner = "function" /\ calling.at = "get"
    /\ calling' = [calling EXCEPT !.at = "done", !.status = "value", !.value = queued]
    /\ queued' = "nothing"
    /\ UNCHANGED <<runner, limited, shell, back, wrote, inpipe, expired, collected>>

Caller ==
    \/ Poll \/ ReadPipes \/ KillGroup
    \/ Join \/ TestJoined \/ List \/ KillListed
    \/ Joined \/ Tested \/ Get
Reader == Collect \/ Collected

Next ==
    \/ Emit \/ BackEnds \/ TimeIsUp \/ Caller \/ Reader
    \/ \E own \in BOOLEAN : Fork(own) \/ Return(own)
    \/ \E c \in Codes : Exit(c)

Spec     == Init /\ [][Next]_vars
FairSpec == Spec /\ WF_vars(TimeIsUp) /\ WF_vars(Caller) /\ WF_vars(Reader)

-----------------------------------------------------------------------------
(* What the code keeps. *)

Over == calling.at = "done"

\* A call that reports the end of a command has all that it wrote, and its verdict.
EndIsReported ==
    Over /\ calling.status \in {"success", "failure"} =>
        /\ shell.at = "exited" /\ calling.got = wrote /\ calling.status = OfCode

\* A timeout is reported only when the time was up.  Nothing of the command runs then
\* but what left its group (run_local), or what it had left in the background when it
\* ended, or did while its children were listed and killed (run_local_cmd).
NothingRunsOn ==
    Over /\ calling.status = "timeout" =>
        /\ expired /\ ~Running
        /\ back.at = "alive" => IF runner = "run_local" THEN back.own ELSE back.orphan

\* After the end of a command nothing has the pipes of run_local_cmd.
PipesAreClosed ==
    Over /\ runner = "run_local_cmd" /\ calling.status \in {"success", "failure"} => back.at # "alive"

\* The value of a function is its result, or None if it ended its process itself
\* without an error; a result that does not fit in the pipe is never returned.
ValueIsResult ==
    Over /\ runner = "function" =>
        /\ calling.status = "value" => shell = [at |-> "exited", code |-> 0] /\ calling.value # "nothing"
        /\ calling.value = "None" => queued = "nothing"
        /\ calling.status = "exit" => queued = "None"

\* A call with a limit ends, whatever the command does.
CallsReturn == limited ~> Over
=============================================================================
