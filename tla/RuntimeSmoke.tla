---------------------------- MODULE RuntimeSmoke ----------------------------
(***************************************************************************)
(* tools/packaged_runtime_smoke.py and the programs it starts.             *)
(*                                                                         *)
(* "server" runs the packaged server, waits for its ready file, drives it  *)
(* with a probe and asks it to stop; "client" runs the packaged client,    *)
(* which starts a server of its own and plays against it; "reject" runs    *)
(* the client with a campaign boundary it must refuse.  Whoever started a  *)
(* server, the tool or the client, is its parent and rewrites a heartbeat  *)
(* file every second; the server looks at the file every second, stops     *)
(* when it says "shutdown" and when it has not changed for Stale seconds.  *)
(*                                                                         *)
(* Whatever is under test may crash or hang, and the tool may be killed.   *)
(* A second passes (Tick) once everybody due in it has had its turn.       *)
(***************************************************************************)
EXTENDS Naturals

CONSTANTS
    StartupTimeout, ProbeTimeout, ShutdownTimeout, ProcessTimeout,  \* of the tool, in seconds
    ClientPatience,  \* how long the client waits for its server to stop
    TermPatience,    \* between SIGTERM and SIGKILL
    Stale, Grace,    \* of the server's monitor
    MaxStalls        \* bound: monitor callbacks that come late

ASSUME SmokeAssumption ==
    /\ {StartupTimeout, ProbeTimeout, ShutdownTimeout, ProcessTimeout,
        ClientPatience, TermPatience, Stale, Grace, MaxStalls} \subseteq Nat
    /\ Stale >= 2 /\ ShutdownTimeout > Stale

VARIABLES
    mode,       \* "server", "client" or "reject"
    runner,     \* the tool: step, seconds left in it, what it has found
    heartbeat,  \* the file: "none", "new" to the server, "seen" by it, or "shutdown"
    ready,      \* the ready file: "none", "good", "wrong" port, token or hash, "refused"
    server,     \* the packaged server, or the client's
    client,     \* the packaged client
    probe,      \* packaged_server_runtime_probe.gd
    due, stalls \* who still acts in this second; late callbacks so far

smokeVars == <<mode, runner, heartbeat, ready, server, client, probe, due, stalls>>

NoServer == [state |-> "none", age |-> 0, gap |-> 0, why |-> "none"]

\* state: none, up (no server yet), playing, closing, hung or exited.
NoClient == [state |-> "none", left |-> 0, spawned |-> FALSE, played |-> FALSE, report |-> "none"]

NoProbe == [state |-> "none", checks |-> FALSE, answered |-> FALSE]

SmokeInit ==
    /\ mode \in {"server", "client", "reject"}
    /\ runner = [step |-> IF mode = "server" THEN "ready" ELSE "run", ok |-> FALSE,
                 left |-> IF mode = "server" THEN StartupTimeout ELSE ProcessTimeout]
    /\ heartbeat = IF mode = "server" THEN "new" ELSE "none"
    /\ ready = "none"
    /\ server = IF mode = "server" THEN [NoServer EXCEPT !.state = "starting"] ELSE NoServer
    /\ client = IF mode = "server" THEN NoClient ELSE [NoClient EXCEPT !.state = "up"]
    /\ probe = NoProbe
    /\ due = {} /\ stalls = 0

----------------------------------------------------------------------------
(* The server and its monitor. *)

Running(process) == process.state \notin {"none", "exited"}

ServerEnds(why) == server' = [server EXCEPT !.state = "exited", !.why = why]

\* The monitor starts when the ready file is out, whatever is in it; a
\* server that has refused to start leaves with code 2.
ServerStarts ==
    /\ server.state = "starting"
    /\ \/ ready' \in {"good", "wrong"} /\ server' = [server EXCEPT !.state = "serving"]
       \/ ready' = "refused" /\ ServerEnds("failed")
    /\ UNCHANGED <<mode, runner, heartbeat, client, probe, due, stalls>>

ServerCrashes ==
    /\ Running(server)
    /\ ServerEnds("failed")
    /\ UNCHANGED <<mode, runner, heartbeat, ready, client, probe, due, stalls>>

\* One callback of the monitor's timer.
ServerMonitor ==
    LET age == IF heartbeat = "new" \/ server.gap > Grace THEN 0 ELSE server.age IN
    /\ server.state = "serving" /\ "server" \in due
    /\ due' = due \ {"server"}
    /\ CASE heartbeat = "shutdown" -> ServerEnds("heard") /\ heartbeat' = "none"
         [] heartbeat # "shutdown" /\ age > Stale -> ServerEnds("stale") /\ heartbeat' = "none"
         [] OTHER -> /\ server' = [server EXCEPT !.age = age, !.gap = 0]
                     /\ heartbeat' = IF heartbeat = "new" THEN "seen" ELSE heartbeat
    /\ UNCHANGED <<mode, runner, ready, client, probe, stalls>>

ServerStalls ==
    /\ server.state = "serving" /\ "server" \in due
    /\ stalls < MaxStalls
    /\ stalls' = stalls + 1
    /\ due' = due \ {"server"}
    /\ UNCHANGED <<mode, runner, heartbeat, ready, server, client, probe>>

----------------------------------------------------------------------------
(* The client: packaged_client_smoke.gd over its session. *)

ClientBecomes(c) == client' = c /\ UNCHANGED <<mode, runner, ready, probe, stalls>>

\* It refuses a boundary before it starts a server, or fails to start one.
ClientRefuses ==
    /\ client.state = "up"
    /\ ClientBecomes([client EXCEPT !.state = "exited", !.report = "bad"])
    /\ UNCHANGED <<heartbeat, server, due>>

ClientSpawns ==
    /\ client.state = "up"
    /\ heartbeat' = "new"
    /\ server' = [server EXCEPT !.state = "starting"]
    /\ ClientBecomes([client EXCEPT !.state = "playing", !.spawned = TRUE])
    /\ UNCHANGED due

ClientBeats ==
    /\ client.state = "playing" /\ "parent" \in due
    /\ due' = due \ {"parent"}
    /\ heartbeat' = "new"
    /\ ClientBecomes(client)
    /\ UNCHANGED server

\* Played or timed out, it asks the server to stop.
ClientCloses ==
    /\ client.state = "playing"
    /\ heartbeat' = "shutdown"
    /\ due' = due \ {"parent"}
    /\ \E played \in {FALSE} \cup {server.state = "serving" /\ ready = "good"} :
         ClientBecomes([client EXCEPT !.state = "closing", !.left = ClientPatience, !.played = played])
    /\ UNCHANGED server

\* It reports when its server is gone, and kills one that does not go.
ClientReports ==
    /\ client.state = "closing"
    /\ IF ~Running(server)
       THEN /\ ClientBecomes([client EXCEPT !.state = "exited",
                              !.report = IF client.played /\ heartbeat = "none" THEN "ok" ELSE "bad"])
            /\ UNCHANGED server
       ELSE /\ client.left = 0
            /\ ServerEnds("killed")
            /\ ClientBecomes([client EXCEPT !.state = "exited", !.report = "bad"])
    /\ UNCHANGED <<heartbeat, due>>

ClientFails ==
    /\ Running(client) /\ client.state # "hung"
    /\ \E state \in {"hung", "exited"} : ClientBecomes([client EXCEPT !.state = state])
    /\ due' = due \ {"parent"}
    /\ UNCHANGED <<heartbeat, server>>

----------------------------------------------------------------------------
(* The probe: it has been answered if the server was there. *)

ProbeReports ==
    /\ probe.state = "up"
    /\ \E answered \in {FALSE} \cup {server.state = "serving"}, checks \in BOOLEAN :
         /\ checks => answered
         /\ probe' = [state |-> "exited", checks |-> checks, answered |-> answered]
    /\ UNCHANGED <<mode, runner, heartbeat, ready, server, client, due, stalls>>

----------------------------------------------------------------------------
(* The tool. *)

Goes(step, seconds) == runner' = [runner EXCEPT !.step = step, !.left = seconds]

Beat(payload) == heartbeat' = payload

TheRest == <<mode, ready, stalls>>

\* _wait_for_ready_file, and what becomes of the answer.
RunnerReady ==
    /\ runner.step = "ready"
    /\ \/ /\ ready = "good"
          /\ Beat("new")
          /\ probe' = [NoProbe EXCEPT !.state = "up"]
          /\ Goes("probe", ProbeTimeout)
       \/ /\ ready # "good"
          /\ ready # "none" \/ ~Running(server) \/ runner.left = 0
          /\ Goes("cleanup", 0)
          /\ UNCHANGED <<heartbeat, probe>>
    /\ due' = due \ {"parent"}
    /\ UNCHANGED <<TheRest, server, client>>

\* Mutant of RunnerBeats: it waits without a beat.
RunnerBeatsSilent ==
    /\ runner.step = "probe" /\ "parent" \in due
    /\ probe.state = "up"
    /\ due' = due \ {"parent"}
    /\ UNCHANGED <<TheRest, runner, heartbeat, server, client, probe>>

\* _communicate_with_heartbeat: a beat for every second the probe takes.
RunnerBeats ==
    /\ runner.step = "probe" /\ "parent" \in due
    /\ probe.state = "up"
    /\ Beat("new")
    /\ due' = due \ {"parent"}
    /\ UNCHANGED <<TheRest, runner, server, client, probe>>

\* Mutant of RunnerProbed: the probe may take as long as it likes.
RunnerProbedForever ==
    /\ runner.step = "probe"
    /\ probe.state = "exited"
    /\ IF probe.checks THEN Beat("new") /\ Goes("stop", 0) ELSE Goes("cleanup", 0) /\ UNCHANGED heartbeat
    /\ due' = due \ {"parent"}
    /\ UNCHANGED <<TheRest, server, client, probe>>

\* The probe has ended, or has not in time and is killed.
RunnerProbed ==
    /\ runner.step = "probe"
    /\ probe.state = "exited" \/ runner.left = 0
    /\ probe' = [probe EXCEPT !.state = "exited"]
    /\ IF probe.state = "exited" /\ probe.checks
       THEN Beat("new") /\ Goes("stop", 0)
       ELSE Goes("cleanup", 0) /\ UNCHANGED heartbeat
    /\ due' = due \ {"parent"}
    /\ UNCHANGED <<TheRest, server, client>>

RunnerStops ==
    /\ runner.step = "stop"
    /\ IF Running(server)
       THEN Beat("shutdown") /\ Goes("shutdown", ShutdownTimeout)
       ELSE Goes("cleanup", 0) /\ UNCHANGED heartbeat
    /\ UNCHANGED <<TheRest, server, client, probe, due>>

\* Mutant of RunnerStopped: the server's exit code is not looked at.
RunnerStoppedAnyhow ==
    /\ runner.step = "shutdown"
    /\ ~Running(server) \/ runner.left = 0
    /\ runner' = [step |-> "cleanup", left |-> 0, ok |-> ~Running(server)]
    /\ UNCHANGED <<TheRest, heartbeat, server, client, probe, due>>

RunnerStopped ==
    /\ runner.step = "shutdown"
    /\ ~Running(server) \/ runner.left = 0
    /\ runner' = [step |-> "cleanup", left |-> 0,
                  ok |-> ~Running(server) /\ server.why \in {"heard", "stale"} /\ heartbeat = "none"]
    /\ UNCHANGED <<TheRest, heartbeat, server, client, probe, due>>

\* communicate: the output ends when nobody holds it any more, and a server
\* the client has started holds it too.
OutputEnds == ~Running(client) /\ ~Running(server)

RunnerRan ==
    /\ runner.step = "run"
    /\ \/ /\ OutputEnds
          /\ runner' = [step |-> "cleanup", left |-> 0,
                        ok |-> IF mode = "client" THEN client.report = "ok"
                               ELSE client.report = "bad" /\ ~client.spawned]
       \/ ~OutputEnds /\ runner.left = 0 /\ Goes("abort", 0)
    /\ UNCHANGED <<TheRest, heartbeat, server, client, probe, due>>

RunnerDrained ==
    /\ runner.step = "drain"
    /\ OutputEnds
    /\ Goes("cleanup", 0)
    /\ UNCHANGED <<TheRest, heartbeat, server, client, probe, due>>

----------------------------------------------------------------------------
(* _terminate_process_group, at the end and, for a client that is late,    *)
(* before its output is read.  A server the client has started is in a     *)
(* session of its own.                                                     *)

Leader == IF mode = "server" THEN server ELSE client

LeaderEnds ==
    IF mode = "server" THEN ServerEnds("killed") /\ UNCHANGED client
    ELSE client' = [client EXCEPT !.state = "exited"] /\ UNCHANGED server

After(step) == IF step \in {"abort", "abortTerm"} THEN "drain" ELSE "done"

RunnerTerminates ==
    /\ runner.step \in {"cleanup", "abort"}
    /\ IF Running(Leader)
       THEN Goes(IF runner.step = "abort" THEN "abortTerm" ELSE "term", TermPatience)
       ELSE Goes(After(runner.step), 0)
    /\ UNCHANGED <<TheRest, heartbeat, server, client, probe, due>>

\* The leader obeys SIGTERM, or is killed when its time is up.
LeaderTerminated ==
    /\ runner.step \in {"term", "abortTerm"} /\ Running(Leader)
    /\ LeaderEnds
    /\ due' = due \ {"parent"}
    /\ UNCHANGED <<TheRest, runner, heartbeat, probe>>

\* Mutant of RunnerKills: a leader that ignores SIGTERM is left.
RunnerGivesUp ==
    /\ runner.step \in {"term", "abortTerm"}
    /\ ~Running(Leader) \/ runner.left = 0
    /\ Goes(After(runner.step), 0)
    /\ UNCHANGED <<TheRest, heartbeat, server, client, probe, due>>

RunnerKills ==
    /\ runner.step \in {"term", "abortTerm"}
    /\ \/ ~Running(Leader) /\ UNCHANGED <<server, client, due>>
       \/ Running(Leader) /\ runner.left = 0 /\ LeaderEnds /\ due' = due \ {"parent"}
    /\ Goes(After(runner.step), 0)
    /\ UNCHANGED <<TheRest, heartbeat, probe>>

Waiting == runner.step \in {"ready", "probe", "shutdown", "run", "term", "abortTerm"}

RunnerIsKilled ==
    /\ runner.step \notin {"done", "dead"}
    /\ Goes("dead", 0)
    /\ due' = IF mode = "server" THEN due \ {"parent"} ELSE due
    /\ UNCHANGED <<TheRest, heartbeat, server, client, probe>>

----------------------------------------------------------------------------

ParentBeats == IF mode = "server" THEN runner.step = "probe" ELSE client.state = "playing"

OneLess(n) == IF n = 0 THEN 0 ELSE n - 1

Tick ==
    /\ "parent" \notin due
    /\ "server" \in due => server.state # "serving"
    /\ Waiting => runner.left > 0
    /\ runner.step \notin {"cleanup", "abort", "stop"}
    /\ runner.step = "ready" => ready = "none"
    /\ client.state = "closing" => client.left > 0
    /\ runner' = [runner EXCEPT !.left = OneLess(@)]
    /\ client' = [client EXCEPT !.left = OneLess(@)]
    /\ server' = IF server.state = "serving"
                 THEN [server EXCEPT !.age = IF @ > Stale THEN @ ELSE @ + 1, !.gap = IF @ > Grace THEN @ ELSE @ + 1]
                 ELSE server
    /\ due' = {p \in {"parent"} : ParentBeats} \cup {s \in {"server"} : server.state = "serving"}
    /\ UNCHANGED <<mode, heartbeat, ready, probe, stalls>>

SmokeNext ==
    \/ ServerStarts \/ ServerCrashes \/ ServerMonitor \/ ServerStalls
    \/ ClientRefuses \/ ClientSpawns \/ ClientBeats \/ ClientCloses \/ ClientReports \/ ClientFails
    \/ ProbeReports
    \/ RunnerReady \/ RunnerBeats \/ RunnerProbed \/ RunnerStops \/ RunnerStopped
    \/ RunnerRan \/ RunnerDrained \/ RunnerTerminates \/ LeaderTerminated \/ RunnerKills \/ RunnerIsKilled
    \/ Tick

\* Seconds pass, the tool goes on, a server that serves looks at its
\* heartbeat and a client that lives beats and reports.  Nothing else of what
\* is under test is taken for granted.
SmokeFairness ==
    /\ WF_smokeVars(Tick)
    /\ WF_smokeVars(RunnerReady \/ RunnerBeats \/ RunnerProbed \/ RunnerStops \/ RunnerStopped
                    \/ RunnerRan \/ RunnerDrained \/ RunnerTerminates \/ RunnerKills)
    /\ WF_smokeVars(ServerMonitor)
    /\ WF_smokeVars(ClientBeats)
    /\ WF_smokeVars(ClientReports)

SmokeSpec == SmokeInit /\ [][SmokeNext]_smokeVars /\ SmokeFairness

----------------------------------------------------------------------------
(***************************************************************************)
(* A smoke that says ok is about a server that played and was then told to *)
(* stop: it left because it read "shutdown", and not because it found its  *)
(* parent silent, which gives the same exit code and removes the file too. *)
(***************************************************************************)
OkMeansAnswered ==
    runner.ok /\ mode # "reject" =>
        server.why = "heard" /\ (IF mode = "server" THEN probe.answered ELSE client.played)

(***************************************************************************)
(* A server whose parent is there and beating is never given up as         *)
(* orphaned, however late single callbacks of its monitor are.             *)
(***************************************************************************)
LiveParentIsSeen ==
    server.why = "stale" => ~(IF mode = "server" THEN runner.step \in {"ready", "probe", "stop", "shutdown"}
                                                 ELSE client.state \in {"playing", "closing"})

(***************************************************************************)
(* Nothing is left behind: when the tool has ended, so have the client and *)
(* the probe; and a server that serves ends once its parent has, even when *)
(* the tool was killed or the client crashed.                              *)
(***************************************************************************)
ParentGone == IF mode = "server" THEN runner.step \in {"done", "dead"} ELSE client.state = "exited"

NothingLeftBehind ==
    /\ [](runner.step = "done" => ~Running(client) /\ ~Running(probe) /\ ~(mode = "server" /\ Running(server)))
    /\ (ParentGone /\ server.state = "serving") ~> ~Running(server)

(***************************************************************************)
(* The smoke ends, whatever hangs, unless the client's server hangs while  *)
(* it starts: it has no monitor yet, it holds the client's output, and the *)
(* tool waits for the end of that output without a limit.  A server that   *)
(* serves is taken to go on running its frames, and with them its monitor  *)
(* (the fairness of the specification): one that hangs later would hold    *)
(* the output in the same way.                                             *)
(***************************************************************************)
SmokeEnds ==
    \/ <>(runner.step \in {"done", "dead"})
    \/ mode # "server" /\ <>[](server.state = "starting")
=============================================================================
