---------------------------- MODULE ReleaseProofs ----------------------------
(***************************************************************************)
(* Theorems about the smoke of the packaged programs (RuntimeSmoke) and    *)
(* about the content and its gate (ContentBuild).                          *)
(*                                                                         *)
(* The smoke: SmokeInv relates the tool, the client, the server's monitor  *)
(* and the heartbeat file.  Its core is SeenLately, that the monitor's     *)
(* last look at a beating parent is never older than this second or the    *)
(* last, and ToldOrHeard, that "shutdown" leaves the file only when the    *)
(* server has read it.                                                     *)
(*                                                                         *)
(* The content: ContentInv says of every generator that has run in order   *)
(* since the last edit that its files are its ideal, a function of the     *)
(* facts, the allowlist, the tools and the assets alone; and of the gate   *)
(* that what it has passed still passes.                                   *)
(***************************************************************************)
EXTENDS RuntimeSmoke, ContentBuild, FiniteSetTheorems, TLAPS

---------------------------------------------------------------------------
(* The smoke. *)

Runners == [step : {"ready", "probe", "stop", "shutdown", "run", "abort", "abortTerm", "drain",
                    "cleanup", "term", "done", "dead"},
            ok : BOOLEAN, left : Nat]

Servers == [state : {"none", "starting", "serving", "exited"}, age : Nat, gap : Nat,
            why : {"none", "failed", "heard", "stale", "killed"}]

Clients == [state : {"none", "up", "playing", "closing", "hung", "exited"}, left : Nat,
            spawned : BOOLEAN, played : BOOLEAN, report : {"none", "bad", "ok"}]

Probes == [state : {"none", "up", "exited"}, checks : BOOLEAN, answered : BOOLEAN]

SmokeTypeOK ==
    /\ mode \in {"server", "client", "reject"}
    /\ runner \in Runners /\ server \in Servers /\ client \in Clients /\ probe \in Probes
    /\ heartbeat \in {"none", "new", "seen", "shutdown"}
    /\ ready \in {"none", "good", "wrong", "refused"}

\* Each mode has its own steps, and only the client of the other two runs.
OfItsMode ==
    /\ mode = "server" =>
         /\ runner.step \notin {"run", "abort", "abortTerm", "drain"}
         /\ client.state = "none"
    /\ mode # "server" => runner.step \notin {"ready", "probe", "stop", "shutdown"}

\* The parent beats, or has asked the server to stop.
Beating == IF mode = "server" THEN runner.step \in {"probe", "stop"} ELSE client.state = "playing"
Telling == IF mode = "server" THEN runner.step = "shutdown" ELSE client.state = "closing"

\* A server starts once, with a heartbeat to look at, and serves when it is ready.
StartsOnce ==
    /\ client.state = "up" => server.state = "none"
    /\ server.state = "none" => server.age = 0
    /\ server.state # "exited" => server.why = "none"
    /\ server.state \in {"starting", "serving"} => heartbeat # "none"
    /\ server.state = "serving" => ready \in {"good", "wrong"}

\* Until the tool has seen it ready nothing has aged: no second passes in between.
NothingAged == mode = "server" /\ runner.step = "ready" => server.age = 0

\* What the server has seen of a beating parent is of this second or of the last.
SeenLately == Beating /\ heartbeat = "seen" => server.age <= (IF "parent" \in due THEN 1 ELSE 0)

\* Asked to stop, a server that leaves its file behind has not heard it.
ToldOrHeard ==
    Telling => \/ heartbeat = "shutdown"
               \/ heartbeat = "none" /\ server.state = "exited" /\ server.why = "heard"

\* The tool goes on to stop the server when the probe's checks have passed.
ProbeAnswered ==
    /\ probe.checks => probe.answered
    /\ runner.step \in {"stop", "shutdown"} => probe.state = "exited" /\ probe.answered

ReportOk ==
    client.report = "ok" =>
        client.state = "exited" /\ client.played /\ server.state = "exited" /\ server.why = "heard"

RunnerOk ==
    runner.ok =>
        /\ runner.step \in {"cleanup", "term", "done", "dead"}
        /\ mode = "server" => /\ server.state = "exited" /\ server.why = "heard"
                              /\ probe.state = "exited" /\ probe.answered
        /\ mode = "client" => client.report = "ok"

SmokeInv ==
    /\ SmokeTypeOK /\ OfItsMode /\ StartsOnce /\ NothingAged /\ SeenLately
    /\ ToldOrHeard /\ ProbeAnswered /\ ReportOk /\ RunnerOk /\ LiveParentIsSeen

\* What Goes does to the tool.
LEMMA GoesFacts ==
    ASSUME runner \in Runners, NEW step, NEW seconds \in Nat, Goes(step, seconds),
           step \in {"ready", "probe", "stop", "shutdown", "run", "abort", "abortTerm", "drain",
                    "cleanup", "term", "done", "dead"}
    PROVE  runner' \in Runners /\ runner'.step = step /\ runner'.ok = runner.ok
  BY DEF Goes, Runners

LEMMA ServerStartsInv == ASSUME SmokeInv, ServerStarts PROVE SmokeInv'
<1>1. /\ server.state = "starting" /\ server' \in Servers /\ server'.age = server.age
      /\ \/ server'.state = "serving" /\ server'.why = server.why /\ ready' \in {"good", "wrong"}
         \/ server'.state = "exited" /\ server'.why = "failed" /\ ready' = "refused"
      /\ UNCHANGED <<mode, runner, heartbeat, client, probe, due>>
  BY SmokeAssumption DEF ServerStarts, SmokeInv, SmokeTypeOK, ServerEnds, Servers
<1>2. SmokeTypeOK'
  BY <1>1 DEF SmokeInv, SmokeTypeOK
<1>3. OfItsMode' /\ StartsOnce' /\ NothingAged'
  BY <1>1 DEF SmokeInv, OfItsMode, StartsOnce, NothingAged
<1>4. SeenLately'
  BY <1>1 DEF SmokeInv, OfItsMode, SeenLately, Beating
<1>5. ToldOrHeard'
  BY <1>1 DEF SmokeInv, OfItsMode, StartsOnce, ToldOrHeard, Telling
<1>6. ProbeAnswered' /\ ReportOk'
  BY <1>1 DEF SmokeInv, OfItsMode, StartsOnce, ProbeAnswered, ReportOk
<1>7. RunnerOk'
  BY <1>1 DEF SmokeInv, OfItsMode, StartsOnce, RunnerOk, ToldOrHeard, Telling, ProbeAnswered, ReportOk
<1>8. LiveParentIsSeen'
  BY <1>1 DEF SmokeInv, OfItsMode, StartsOnce, LiveParentIsSeen
<1>. QED  BY <1>2, <1>3, <1>4, <1>5, <1>6, <1>7, <1>8 DEF SmokeInv

LEMMA ServerCrashesInv == ASSUME SmokeInv, ServerCrashes PROVE SmokeInv'
<1>1. /\ server.state \notin {"none", "exited"} /\ server' \in Servers /\ server'.age = server.age
      /\ server'.state = "exited" /\ server'.why = "failed"
      /\ UNCHANGED <<mode, runner, heartbeat, ready, client, probe, due>>
  BY SmokeAssumption DEF ServerCrashes, SmokeInv, SmokeTypeOK, ServerEnds, Running, Servers
<1>2. SmokeTypeOK'
  BY <1>1 DEF SmokeInv, SmokeTypeOK
<1>3. OfItsMode' /\ StartsOnce' /\ NothingAged'
  BY <1>1 DEF SmokeInv, OfItsMode, StartsOnce, NothingAged
<1>4. SeenLately'
  BY <1>1 DEF SmokeInv, OfItsMode, SeenLately, Beating
<1>5. ToldOrHeard'
  BY <1>1 DEF SmokeInv, OfItsMode, StartsOnce, ToldOrHeard, Telling
<1>6. ProbeAnswered' /\ ReportOk'
  BY <1>1 DEF SmokeInv, OfItsMode, StartsOnce, ProbeAnswered, ReportOk
<1>7. RunnerOk'
  BY <1>1 DEF SmokeInv, OfItsMode, StartsOnce, RunnerOk, ToldOrHeard, Telling, ProbeAnswered, ReportOk
<1>8. LiveParentIsSeen'
  BY <1>1 DEF SmokeInv, OfItsMode, StartsOnce, LiveParentIsSeen
<1>. QED  BY <1>2, <1>3, <1>4, <1>5, <1>6, <1>7, <1>8 DEF SmokeInv

LEMMA ServerStallsInv == ASSUME SmokeInv, ServerStalls PROVE SmokeInv'
<1>1. /\ due' = due \ {"server"}
      /\ UNCHANGED <<mode, runner, heartbeat, ready, server, client, probe>>
  BY SmokeAssumption DEF ServerStalls, SmokeInv, SmokeTypeOK
<1>2. SmokeTypeOK'
  BY <1>1 DEF SmokeInv, SmokeTypeOK
<1>3. OfItsMode' /\ StartsOnce' /\ NothingAged'
  BY <1>1 DEF SmokeInv, OfItsMode, StartsOnce, NothingAged
<1>4. SeenLately'
  BY <1>1 DEF SmokeInv, OfItsMode, SeenLately, Beating
<1>5. ToldOrHeard'
  BY <1>1 DEF SmokeInv, OfItsMode, StartsOnce, ToldOrHeard, Telling
<1>6. ProbeAnswered' /\ ReportOk'
  BY <1>1 DEF SmokeInv, OfItsMode, StartsOnce, ProbeAnswered, ReportOk
<1>7. RunnerOk'
  BY <1>1 DEF SmokeInv, OfItsMode, StartsOnce, RunnerOk, ToldOrHeard, Telling, ProbeAnswered, ReportOk
<1>8. LiveParentIsSeen'
  BY <1>1 DEF SmokeInv, OfItsMode, StartsOnce, LiveParentIsSeen
<1>. QED  BY <1>2, <1>3, <1>4, <1>5, <1>6, <1>7, <1>8 DEF SmokeInv

LEMMA ClientRefusesInv == ASSUME SmokeInv, ClientRefuses PROVE SmokeInv'
<1>1. /\ client.state = "up" /\ client' \in Clients /\ client'.state = "exited" /\ client'.report = "bad"
      /\ UNCHANGED <<mode, runner, heartbeat, ready, server, probe, due>>
  BY SmokeAssumption DEF ClientRefuses, SmokeInv, SmokeTypeOK, ClientBecomes, Clients
<1>2. SmokeTypeOK'
  BY <1>1 DEF SmokeInv, SmokeTypeOK
<1>3. OfItsMode' /\ StartsOnce' /\ NothingAged'
  BY <1>1 DEF SmokeInv, OfItsMode, StartsOnce, NothingAged
<1>4. SeenLately'
  BY <1>1 DEF SmokeInv, OfItsMode, SeenLately, Beating
<1>5. ToldOrHeard'
  BY <1>1 DEF SmokeInv, OfItsMode, StartsOnce, ToldOrHeard, Telling
<1>6. ProbeAnswered' /\ ReportOk'
  BY <1>1 DEF SmokeInv, OfItsMode, StartsOnce, ProbeAnswered, ReportOk
<1>7. RunnerOk'
  BY <1>1 DEF SmokeInv, OfItsMode, StartsOnce, RunnerOk, ToldOrHeard, Telling, ProbeAnswered, ReportOk
<1>8. LiveParentIsSeen'
  BY <1>1 DEF SmokeInv, OfItsMode, StartsOnce, LiveParentIsSeen
<1>. QED  BY <1>2, <1>3, <1>4, <1>5, <1>6, <1>7, <1>8 DEF SmokeInv

LEMMA ClientSpawnsInv == ASSUME SmokeInv, ClientSpawns PROVE SmokeInv'
<1>1. /\ client.state = "up" /\ client' \in Clients /\ client'.state = "playing" /\ client'.report = client.report
      /\ server' \in Servers /\ server'.state = "starting" /\ server'.age = server.age /\ server'.why = server.why
      /\ heartbeat' = "new" /\ UNCHANGED <<mode, runner, ready, probe, due>>
  BY SmokeAssumption DEF ClientSpawns, SmokeInv, SmokeTypeOK, ClientBecomes, Clients, Servers
<1>2. SmokeTypeOK'
  BY <1>1 DEF SmokeInv, SmokeTypeOK
<1>3. OfItsMode' /\ StartsOnce' /\ NothingAged'
  BY <1>1 DEF SmokeInv, OfItsMode, StartsOnce, NothingAged
<1>4. SeenLately'
  BY <1>1 DEF SmokeInv, OfItsMode, SeenLately, Beating
<1>5. ToldOrHeard'
  BY <1>1 DEF SmokeInv, OfItsMode, StartsOnce, ToldOrHeard, Telling
<1>6. ProbeAnswered' /\ ReportOk'
  BY <1>1 DEF SmokeInv, OfItsMode, StartsOnce, ProbeAnswered, ReportOk
<1>7. RunnerOk'
  BY <1>1 DEF SmokeInv, OfItsMode, StartsOnce, RunnerOk, ToldOrHeard, Telling, ProbeAnswered, ReportOk
<1>8. LiveParentIsSeen'
  BY <1>1 DEF SmokeInv, OfItsMode, StartsOnce, LiveParentIsSeen
<1>. QED  BY <1>2, <1>3, <1>4, <1>5, <1>6, <1>7, <1>8 DEF SmokeInv

LEMMA ClientBeatsInv == ASSUME SmokeInv, ClientBeats PROVE SmokeInv'
<1>1. /\ client.state = "playing" /\ heartbeat' = "new" /\ due' = due \ {"parent"}
      /\ UNCHANGED <<mode, runner, ready, server, client, probe>>
  BY SmokeAssumption DEF ClientBeats, SmokeInv, SmokeTypeOK, ClientBecomes
<1>2. SmokeTypeOK'
  BY <1>1 DEF SmokeInv, SmokeTypeOK
<1>3. OfItsMode' /\ StartsOnce' /\ NothingAged'
  BY <1>1 DEF SmokeInv, OfItsMode, StartsOnce, NothingAged
<1>4. SeenLately'
  BY <1>1 DEF SmokeInv, OfItsMode, SeenLately, Beating
<1>5. ToldOrHeard'
  BY <1>1 DEF SmokeInv, OfItsMode, StartsOnce, ToldOrHeard, Telling
<1>6. ProbeAnswered' /\ ReportOk'
  BY <1>1 DEF SmokeInv, OfItsMode, StartsOnce, ProbeAnswered, ReportOk
<1>7. RunnerOk'
  BY <1>1 DEF SmokeInv, OfItsMode, StartsOnce, RunnerOk, ToldOrHeard, Telling, ProbeAnswered, ReportOk
<1>8. LiveParentIsSeen'
  BY <1>1 DEF SmokeInv, OfItsMode, StartsOnce, LiveParentIsSeen
<1>. QED  BY <1>2, <1>3, <1>4, <1>5, <1>6, <1>7, <1>8 DEF SmokeInv

LEMMA ClientClosesInv == ASSUME SmokeInv, ClientCloses PROVE SmokeInv'
<1>1. /\ client.state = "playing" /\ client' \in Clients /\ client'.state = "closing" /\ client'.report = client.report
      /\ heartbeat' = "shutdown" /\ UNCHANGED <<mode, runner, ready, server, probe>>
  BY SmokeAssumption DEF ClientCloses, SmokeInv, SmokeTypeOK, ClientBecomes, Clients
<1>2. SmokeTypeOK'
  BY <1>1 DEF SmokeInv, SmokeTypeOK
<1>3. OfItsMode' /\ StartsOnce' /\ NothingAged'
  BY <1>1 DEF SmokeInv, OfItsMode, StartsOnce, NothingAged
<1>4. SeenLately'
  BY <1>1 DEF SmokeInv, OfItsMode, SeenLately, Beating
<1>5. ToldOrHeard'
  BY <1>1 DEF SmokeInv, OfItsMode, StartsOnce, ToldOrHeard, Telling
<1>6. ProbeAnswered' /\ ReportOk'
  BY <1>1 DEF SmokeInv, OfItsMode, StartsOnce, ProbeAnswered, ReportOk
<1>7. RunnerOk'
  BY <1>1 DEF SmokeInv, OfItsMode, StartsOnce, RunnerOk, ToldOrHeard, Telling, ProbeAnswered, ReportOk
<1>8. LiveParentIsSeen'
  BY <1>1 DEF SmokeInv, OfItsMode, StartsOnce, LiveParentIsSeen
<1>. QED  BY <1>2, <1>3, <1>4, <1>5, <1>6, <1>7, <1>8 DEF SmokeInv

LEMMA ClientFailsInv == ASSUME SmokeInv, ClientFails PROVE SmokeInv'
<1>1. /\ client.state \notin {"none", "exited", "hung"} /\ client' \in Clients /\ client'.state \in {"hung", "exited"}
      /\ client'.report = client.report /\ UNCHANGED <<mode, runner, heartbeat, ready, server, probe>>
  BY SmokeAssumption DEF ClientFails, SmokeInv, SmokeTypeOK, ClientBecomes, Clients, Running
<1>2. SmokeTypeOK'
  BY <1>1 DEF SmokeInv, SmokeTypeOK
<1>3. OfItsMode' /\ StartsOnce' /\ NothingAged'
  BY <1>1 DEF SmokeInv, OfItsMode, StartsOnce, NothingAged
<1>4. SeenLately'
  BY <1>1 DEF SmokeInv, OfItsMode, SeenLately, Beating
<1>5. ToldOrHeard'
  BY <1>1 DEF SmokeInv, OfItsMode, StartsOnce, ToldOrHeard, Telling
<1>6. ProbeAnswered' /\ ReportOk'
  BY <1>1 DEF SmokeInv, OfItsMode, StartsOnce, ProbeAnswered, ReportOk
<1>7. RunnerOk'
  BY <1>1 DEF SmokeInv, OfItsMode, StartsOnce, RunnerOk, ToldOrHeard, Telling, ProbeAnswered, ReportOk
<1>8. LiveParentIsSeen'
  BY <1>1 DEF SmokeInv, OfItsMode, StartsOnce, LiveParentIsSeen
<1>. QED  BY <1>2, <1>3, <1>4, <1>5, <1>6, <1>7, <1>8 DEF SmokeInv

LEMMA ProbeReportsInv == ASSUME SmokeInv, ProbeReports PROVE SmokeInv'
<1>1. /\ probe.state = "up" /\ probe' \in Probes /\ probe'.state = "exited" /\ (probe'.checks => probe'.answered)
      /\ UNCHANGED <<mode, runner, heartbeat, ready, server, client, due>>
  <2>1. PICK answered \in {FALSE} \cup {server.state = "serving"}, checks \in BOOLEAN :
          /\ checks => answered
          /\ probe' = [state |-> "exited", checks |-> checks, answered |-> answered]
    BY DEF ProbeReports
  <2>2. answered \in BOOLEAN
    OBVIOUS
  <2>. QED  BY <2>1, <2>2 DEF ProbeReports, Probes
<1>2. SmokeTypeOK'
  BY <1>1 DEF SmokeInv, SmokeTypeOK
<1>3. OfItsMode' /\ StartsOnce' /\ NothingAged'
  BY <1>1 DEF SmokeInv, OfItsMode, StartsOnce, NothingAged
<1>4. SeenLately'
  BY <1>1 DEF SmokeInv, OfItsMode, SeenLately, Beating
<1>5. ToldOrHeard'
  BY <1>1 DEF SmokeInv, OfItsMode, StartsOnce, ToldOrHeard, Telling
<1>6. ProbeAnswered' /\ ReportOk'
  BY <1>1 DEF SmokeInv, OfItsMode, StartsOnce, ProbeAnswered, ReportOk
<1>7. RunnerOk'
  BY <1>1 DEF SmokeInv, OfItsMode, StartsOnce, RunnerOk, ToldOrHeard, Telling, ProbeAnswered, ReportOk
<1>8. LiveParentIsSeen'
  BY <1>1 DEF SmokeInv, OfItsMode, StartsOnce, LiveParentIsSeen
<1>. QED  BY <1>2, <1>3, <1>4, <1>5, <1>6, <1>7, <1>8 DEF SmokeInv

LEMMA RunnerReadyInv == ASSUME SmokeInv, RunnerReady PROVE SmokeInv'
<1>1. /\ runner.step = "ready" /\ runner' \in Runners /\ runner'.ok = runner.ok
      /\ \/ /\ runner'.step = "probe" /\ heartbeat' = "new" /\ probe' \in Probes
            /\ probe'.state = "up" /\ probe'.checks = FALSE
         \/ runner'.step = "cleanup" /\ UNCHANGED <<heartbeat, probe>>
      /\ UNCHANGED <<mode, ready, server, client>>
  <2>1. /\ runner.step = "ready" /\ UNCHANGED <<mode, ready, server, client>>
        /\ runner \in Runners /\ ProbeTimeout \in Nat
    BY SmokeAssumption DEF RunnerReady, TheRest, SmokeInv, SmokeTypeOK
  <2>2. CASE Beat("new") /\ probe' = [NoProbe EXCEPT !.state = "up"] /\ Goes("probe", ProbeTimeout)
    <3>1. probe' \in Probes /\ probe'.state = "up" /\ probe'.checks = FALSE /\ heartbeat' = "new"
      BY <2>2 DEF NoProbe, Probes, Beat
    <3>. QED  BY <2>1, <2>2, <3>1, GoesFacts
  <2>3. CASE Goes("cleanup", 0) /\ UNCHANGED <<heartbeat, probe>>
    BY <2>1, <2>3, GoesFacts
  <2>. QED  BY <2>2, <2>3 DEF RunnerReady
<1>2. SmokeTypeOK'
  BY <1>1 DEF SmokeInv, SmokeTypeOK
<1>3. OfItsMode' /\ StartsOnce' /\ NothingAged'
  BY <1>1 DEF SmokeInv, OfItsMode, StartsOnce, NothingAged
<1>4. SeenLately'
  BY <1>1 DEF SmokeInv, OfItsMode, SeenLately, Beating
<1>5. ToldOrHeard'
  BY <1>1 DEF SmokeInv, OfItsMode, StartsOnce, ToldOrHeard, Telling
<1>6. ProbeAnswered' /\ ReportOk'
  BY <1>1 DEF SmokeInv, OfItsMode, StartsOnce, ProbeAnswered, ReportOk
<1>7. RunnerOk'
  BY <1>1 DEF SmokeInv, OfItsMode, StartsOnce, RunnerOk, ToldOrHeard, Telling, ProbeAnswered, ReportOk
<1>8. LiveParentIsSeen'
  BY <1>1 DEF SmokeInv, OfItsMode, StartsOnce, LiveParentIsSeen
<1>. QED  BY <1>2, <1>3, <1>4, <1>5, <1>6, <1>7, <1>8 DEF SmokeInv

LEMMA RunnerBeatsInv == ASSUME SmokeInv, RunnerBeats PROVE SmokeInv'
<1>1. /\ runner.step = "probe" /\ heartbeat' = "new"
      /\ UNCHANGED <<mode, runner, ready, server, client, probe>>
  BY SmokeAssumption DEF RunnerBeats, SmokeInv, SmokeTypeOK, Beat, TheRest
<1>2. SmokeTypeOK'
  BY <1>1 DEF SmokeInv, SmokeTypeOK
<1>3. OfItsMode' /\ StartsOnce' /\ NothingAged'
  BY <1>1 DEF SmokeInv, OfItsMode, StartsOnce, NothingAged
<1>4. SeenLately'
  BY <1>1 DEF SmokeInv, OfItsMode, SeenLately, Beating
<1>5. ToldOrHeard'
  BY <1>1 DEF SmokeInv, OfItsMode, StartsOnce, ToldOrHeard, Telling
<1>6. ProbeAnswered' /\ ReportOk'
  BY <1>1 DEF SmokeInv, OfItsMode, StartsOnce, ProbeAnswered, ReportOk
<1>7. RunnerOk'
  BY <1>1 DEF SmokeInv, OfItsMode, StartsOnce, RunnerOk, ToldOrHeard, Telling, ProbeAnswered, ReportOk
<1>8. LiveParentIsSeen'
  BY <1>1 DEF SmokeInv, OfItsMode, StartsOnce, LiveParentIsSeen
<1>. QED  BY <1>2, <1>3, <1>4, <1>5, <1>6, <1>7, <1>8 DEF SmokeInv

LEMMA RunnerProbedInv == ASSUME SmokeInv, RunnerProbed PROVE SmokeInv'
<1>1. /\ runner.step = "probe" /\ runner' \in Runners /\ runner'.ok = runner.ok /\ probe' \in Probes
      /\ probe'.state = "exited" /\ probe'.checks = probe.checks /\ probe'.answered = probe.answered
      /\ \/ runner'.step = "stop" /\ heartbeat' = "new" /\ probe.checks
         \/ runner'.step = "cleanup" /\ UNCHANGED heartbeat
      /\ UNCHANGED <<mode, ready, server, client>>
  <2>1. /\ runner.step = "probe" /\ UNCHANGED <<mode, ready, server, client>>
        /\ runner \in Runners /\ probe \in Probes
        /\ probe' = [probe EXCEPT !.state = "exited"]
    BY DEF RunnerProbed, TheRest, SmokeInv, SmokeTypeOK
  <2>2. /\ probe' \in Probes /\ probe'.state = "exited"
        /\ probe'.checks = probe.checks /\ probe'.answered = probe.answered
    BY <2>1 DEF Probes
  <2>3. CASE probe.checks /\ Beat("new") /\ Goes("stop", 0)
    BY <2>1, <2>2, <2>3, GoesFacts DEF Beat
  <2>4. CASE Goes("cleanup", 0) /\ UNCHANGED heartbeat
    BY <2>1, <2>2, <2>4, GoesFacts
  <2>. QED  BY <2>3, <2>4 DEF RunnerProbed
<1>2. SmokeTypeOK'
  BY <1>1 DEF SmokeInv, SmokeTypeOK
<1>3. OfItsMode' /\ StartsOnce' /\ NothingAged'
  BY <1>1 DEF SmokeInv, OfItsMode, StartsOnce, NothingAged
<1>4. SeenLately'
  BY <1>1 DEF SmokeInv, OfItsMode, SeenLately, Beating
<1>5. ToldOrHeard'
  BY <1>1 DEF SmokeInv, OfItsMode, StartsOnce, ToldOrHeard, Telling
<1>6. ProbeAnswered' /\ ReportOk'
  BY <1>1 DEF SmokeInv, OfItsMode, StartsOnce, ProbeAnswered, ReportOk
<1>7. RunnerOk'
  BY <1>1 DEF SmokeInv, OfItsMode, StartsOnce, RunnerOk, ToldOrHeard, Telling, ProbeAnswered, ReportOk
<1>8. LiveParentIsSeen'
  BY <1>1 DEF SmokeInv, OfItsMode, StartsOnce, LiveParentIsSeen
<1>. QED  BY <1>2, <1>3, <1>4, <1>5, <1>6, <1>7, <1>8 DEF SmokeInv

LEMMA RunnerStopsInv == ASSUME SmokeInv, RunnerStops PROVE SmokeInv'
<1>1. /\ runner.step = "stop" /\ runner' \in Runners /\ runner'.ok = runner.ok
      /\ \/ runner'.step = "shutdown" /\ heartbeat' = "shutdown"
         \/ runner'.step = "cleanup" /\ UNCHANGED heartbeat
      /\ UNCHANGED <<mode, ready, server, client, probe, due>>
  <2>1. /\ runner.step = "stop" /\ UNCHANGED <<mode, ready, server, client, probe, due>>
        /\ runner \in Runners /\ ShutdownTimeout \in Nat
    BY SmokeAssumption DEF RunnerStops, TheRest, SmokeInv, SmokeTypeOK
  <2>2. CASE Beat("shutdown") /\ Goes("shutdown", ShutdownTimeout)
    BY <2>1, <2>2, GoesFacts DEF Beat
  <2>3. CASE Goes("cleanup", 0) /\ UNCHANGED heartbeat
    BY <2>1, <2>3, GoesFacts
  <2>. QED  BY <2>2, <2>3 DEF RunnerStops
<1>2. SmokeTypeOK'
  BY <1>1 DEF SmokeInv, SmokeTypeOK
<1>3. OfItsMode' /\ StartsOnce' /\ NothingAged'
  BY <1>1 DEF SmokeInv, OfItsMode, StartsOnce, NothingAged
<1>4. SeenLately'
  BY <1>1 DEF SmokeInv, OfItsMode, SeenLately, Beating
<1>5. ToldOrHeard'
  BY <1>1 DEF SmokeInv, OfItsMode, StartsOnce, ToldOrHeard, Telling
<1>6. ProbeAnswered' /\ ReportOk'
  BY <1>1 DEF SmokeInv, OfItsMode, StartsOnce, ProbeAnswered, ReportOk
<1>7. RunnerOk'
  BY <1>1 DEF SmokeInv, OfItsMode, StartsOnce, RunnerOk, ToldOrHeard, Telling, ProbeAnswered, ReportOk
<1>8. LiveParentIsSeen'
  BY <1>1 DEF SmokeInv, OfItsMode, StartsOnce, LiveParentIsSeen
<1>. QED  BY <1>2, <1>3, <1>4, <1>5, <1>6, <1>7, <1>8 DEF SmokeInv

LEMMA RunnerStoppedInv == ASSUME SmokeInv, RunnerStopped PROVE SmokeInv'
<1>1. /\ runner.step = "shutdown" /\ runner' \in Runners /\ runner'.step = "cleanup"
      /\ runner'.ok => server.state \in {"none", "exited"} /\ server.why \in {"heard", "stale"} /\ heartbeat = "none"
      /\ UNCHANGED <<mode, ready, heartbeat, server, client, probe, due>>
  BY SmokeAssumption DEF RunnerStopped, SmokeInv, SmokeTypeOK, TheRest, Running, Runners
<1>2. SmokeTypeOK'
  BY <1>1 DEF SmokeInv, SmokeTypeOK
<1>3. OfItsMode' /\ StartsOnce' /\ NothingAged'
  BY <1>1 DEF SmokeInv, OfItsMode, StartsOnce, NothingAged
<1>4. SeenLately'
  BY <1>1 DEF SmokeInv, OfItsMode, SeenLately, Beating
<1>5. ToldOrHeard'
  BY <1>1 DEF SmokeInv, OfItsMode, StartsOnce, ToldOrHeard, Telling
<1>6. ProbeAnswered' /\ ReportOk'
  BY <1>1 DEF SmokeInv, OfItsMode, StartsOnce, ProbeAnswered, ReportOk
<1>7. RunnerOk'
  BY <1>1 DEF SmokeInv, OfItsMode, StartsOnce, RunnerOk, ToldOrHeard, Telling, ProbeAnswered, ReportOk
<1>8. LiveParentIsSeen'
  BY <1>1 DEF SmokeInv, OfItsMode, StartsOnce, LiveParentIsSeen
<1>. QED  BY <1>2, <1>3, <1>4, <1>5, <1>6, <1>7, <1>8 DEF SmokeInv

LEMMA RunnerRanInv == ASSUME SmokeInv, RunnerRan PROVE SmokeInv'
<1>1. /\ runner.step = "run" /\ runner' \in Runners /\ runner'.step \in {"cleanup", "abort"}
      /\ runner'.step = "abort" => runner'.ok = runner.ok
      /\ runner'.step = "cleanup" /\ runner'.ok /\ mode = "client" => client.report = "ok"
      /\ UNCHANGED <<mode, ready, heartbeat, server, client, probe, due>>
  <2>1. /\ runner.step = "run" /\ UNCHANGED <<mode, ready, heartbeat, server, client, probe, due>>
        /\ runner \in Runners
    BY DEF RunnerRan, TheRest, SmokeInv, SmokeTypeOK
  <2>2. CASE Goes("abort", 0)
    BY <2>1, <2>2, GoesFacts
  <2>. DEFINE good == IF mode = "client" THEN client.report = "ok"
                      ELSE client.report = "bad" /\ ~client.spawned
  <2>3. CASE runner' = [step |-> "cleanup", left |-> 0, ok |-> good]
    <3>1. good \in BOOLEAN
      BY DEF SmokeInv, SmokeTypeOK, Clients
    <3>2. mode = "client" => good = (client.report = "ok")
      OBVIOUS
    <3>. HIDE DEF good
    <3>. QED  BY <2>1, <2>3, <3>1, <3>2 DEF Runners
  <2>. QED  BY <2>2, <2>3 DEF RunnerRan
<1>2. SmokeTypeOK'
  BY <1>1 DEF SmokeInv, SmokeTypeOK
<1>3. OfItsMode' /\ StartsOnce' /\ NothingAged'
  BY <1>1 DEF SmokeInv, OfItsMode, StartsOnce, NothingAged
<1>4. SeenLately'
  BY <1>1 DEF SmokeInv, OfItsMode, SeenLately, Beating
<1>5. ToldOrHeard'
  BY <1>1 DEF SmokeInv, OfItsMode, StartsOnce, ToldOrHeard, Telling
<1>6. ProbeAnswered' /\ ReportOk'
  BY <1>1 DEF SmokeInv, OfItsMode, StartsOnce, ProbeAnswered, ReportOk
<1>7. RunnerOk'
  BY <1>1 DEF SmokeInv, OfItsMode, StartsOnce, RunnerOk, ToldOrHeard, Telling, ProbeAnswered, ReportOk
<1>8. LiveParentIsSeen'
  BY <1>1 DEF SmokeInv, OfItsMode, StartsOnce, LiveParentIsSeen
<1>. QED  BY <1>2, <1>3, <1>4, <1>5, <1>6, <1>7, <1>8 DEF SmokeInv

LEMMA RunnerDrainedInv == ASSUME SmokeInv, RunnerDrained PROVE SmokeInv'
<1>1. /\ runner.step = "drain" /\ runner' \in Runners /\ runner'.step = "cleanup" /\ runner'.ok = runner.ok
      /\ UNCHANGED <<mode, ready, heartbeat, server, client, probe, due>>
  BY SmokeAssumption DEF RunnerDrained, SmokeInv, SmokeTypeOK, Goes, TheRest, Runners
<1>2. SmokeTypeOK'
  BY <1>1 DEF SmokeInv, SmokeTypeOK
<1>3. OfItsMode' /\ StartsOnce' /\ NothingAged'
  BY <1>1 DEF SmokeInv, OfItsMode, StartsOnce, NothingAged
<1>4. SeenLately'
  BY <1>1 DEF SmokeInv, OfItsMode, SeenLately, Beating
<1>5. ToldOrHeard'
  BY <1>1 DEF SmokeInv, OfItsMode, StartsOnce, ToldOrHeard, Telling
<1>6. ProbeAnswered' /\ ReportOk'
  BY <1>1 DEF SmokeInv, OfItsMode, StartsOnce, ProbeAnswered, ReportOk
<1>7. RunnerOk'
  BY <1>1 DEF SmokeInv, OfItsMode, StartsOnce, RunnerOk, ToldOrHeard, Telling, ProbeAnswered, ReportOk
<1>8. LiveParentIsSeen'
  BY <1>1 DEF SmokeInv, OfItsMode, StartsOnce, LiveParentIsSeen
<1>. QED  BY <1>2, <1>3, <1>4, <1>5, <1>6, <1>7, <1>8 DEF SmokeInv

LEMMA RunnerTerminatesInv == ASSUME SmokeInv, RunnerTerminates PROVE SmokeInv'
<1>1. /\ runner' \in Runners /\ runner'.ok = runner.ok
      /\ \/ runner.step = "cleanup" /\ runner'.step \in {"term", "done"}
         \/ runner.step = "abort" /\ runner'.step \in {"abortTerm", "drain"}
      /\ UNCHANGED <<mode, ready, heartbeat, server, client, probe, due>>
  <2>1. /\ runner.step \in {"cleanup", "abort"} /\ UNCHANGED <<mode, ready, heartbeat, server, client, probe, due>>
        /\ runner \in Runners /\ TermPatience \in Nat
    BY SmokeAssumption DEF RunnerTerminates, TheRest, SmokeInv, SmokeTypeOK
  <2>2. CASE runner.step = "cleanup"
    <3>1. Goes("term", TermPatience) \/ Goes("done", 0)
      BY <2>2 DEF RunnerTerminates, After
    <3>. QED  BY <2>1, <2>2, <3>1, GoesFacts
  <2>3. CASE runner.step = "abort"
    <3>1. Goes("abortTerm", TermPatience) \/ Goes("drain", 0)
      BY <2>3 DEF RunnerTerminates, After
    <3>. QED  BY <2>1, <2>3, <3>1, GoesFacts
  <2>. QED  BY <2>1, <2>2, <2>3
<1>2. SmokeTypeOK'
  BY <1>1 DEF SmokeInv, SmokeTypeOK
<1>3. OfItsMode' /\ StartsOnce' /\ NothingAged'
  BY <1>1 DEF SmokeInv, OfItsMode, StartsOnce, NothingAged
<1>4. SeenLately'
  BY <1>1 DEF SmokeInv, OfItsMode, SeenLately, Beating
<1>5. ToldOrHeard'
  BY <1>1 DEF SmokeInv, OfItsMode, StartsOnce, ToldOrHeard, Telling
<1>6. ProbeAnswered' /\ ReportOk'
  BY <1>1 DEF SmokeInv, OfItsMode, StartsOnce, ProbeAnswered, ReportOk
<1>7. RunnerOk'
  BY <1>1 DEF SmokeInv, OfItsMode, StartsOnce, RunnerOk, ToldOrHeard, Telling, ProbeAnswered, ReportOk
<1>8. LiveParentIsSeen'
  BY <1>1 DEF SmokeInv, OfItsMode, StartsOnce, LiveParentIsSeen
<1>. QED  BY <1>2, <1>3, <1>4, <1>5, <1>6, <1>7, <1>8 DEF SmokeInv

LEMMA LeaderTerminatedInv == ASSUME SmokeInv, LeaderTerminated PROVE SmokeInv'
<1>1. /\ runner.step \in {"term", "abortTerm"} /\ server' \in Servers /\ client' \in Clients
      /\ \/ /\ mode = "server" /\ server.state \notin {"none", "exited"} /\ UNCHANGED client
            /\ server'.state = "exited" /\ server'.age = server.age /\ server'.why = "killed"
         \/ /\ mode # "server" /\ client.state \notin {"none", "exited"} /\ UNCHANGED server
            /\ client'.state = "exited" /\ client'.report = client.report
      /\ UNCHANGED <<mode, runner, ready, heartbeat, probe>>
  BY SmokeAssumption DEF LeaderTerminated, SmokeInv, SmokeTypeOK, LeaderEnds, Leader, Running, ServerEnds, TheRest, Servers, Clients
<1>2. SmokeTypeOK'
  BY <1>1 DEF SmokeInv, SmokeTypeOK
<1>3. OfItsMode' /\ StartsOnce' /\ NothingAged'
  BY <1>1 DEF SmokeInv, OfItsMode, StartsOnce, NothingAged
<1>4. SeenLately'
  BY <1>1 DEF SmokeInv, OfItsMode, SeenLately, Beating
<1>5. ToldOrHeard'
  BY <1>1 DEF SmokeInv, OfItsMode, StartsOnce, ToldOrHeard, Telling
<1>6. ProbeAnswered' /\ ReportOk'
  BY <1>1 DEF SmokeInv, OfItsMode, StartsOnce, ProbeAnswered, ReportOk
<1>7. RunnerOk'
  BY <1>1 DEF SmokeInv, OfItsMode, StartsOnce, RunnerOk, ToldOrHeard, Telling, ProbeAnswered, ReportOk
<1>8. LiveParentIsSeen'
  BY <1>1 DEF SmokeInv, OfItsMode, StartsOnce, LiveParentIsSeen
<1>. QED  BY <1>2, <1>3, <1>4, <1>5, <1>6, <1>7, <1>8 DEF SmokeInv

LEMMA RunnerKillsInv == ASSUME SmokeInv, RunnerKills PROVE SmokeInv'
<1>1. /\ runner' \in Runners /\ runner'.ok = runner.ok /\ server' \in Servers /\ client' \in Clients
      /\ \/ runner.step = "term" /\ runner'.step = "done"
         \/ runner.step = "abortTerm" /\ runner'.step = "drain"
      /\ \/ UNCHANGED <<server, client, due>>
         \/ /\ mode = "server" /\ server.state \notin {"none", "exited"} /\ UNCHANGED client
            /\ server'.state = "exited" /\ server'.age = server.age /\ server'.why = "killed"
         \/ /\ mode # "server" /\ client.state \notin {"none", "exited"} /\ UNCHANGED server
            /\ client'.state = "exited" /\ client'.report = client.report
      /\ UNCHANGED <<mode, ready, heartbeat, probe>>
  BY SmokeAssumption DEF RunnerKills, SmokeInv, SmokeTypeOK, Goes, After, LeaderEnds, Leader, Running, ServerEnds, TheRest, Runners, Servers, Clients
<1>2. SmokeTypeOK'
  BY <1>1 DEF SmokeInv, SmokeTypeOK
<1>3. OfItsMode' /\ StartsOnce' /\ NothingAged'
  BY <1>1 DEF SmokeInv, OfItsMode, StartsOnce, NothingAged
<1>4. SeenLately'
  BY <1>1 DEF SmokeInv, OfItsMode, SeenLately, Beating
<1>5. ToldOrHeard'
  BY <1>1 DEF SmokeInv, OfItsMode, StartsOnce, ToldOrHeard, Telling
<1>6. ProbeAnswered' /\ ReportOk'
  BY <1>1 DEF SmokeInv, OfItsMode, StartsOnce, ProbeAnswered, ReportOk
<1>7. RunnerOk'
  BY <1>1 DEF SmokeInv, OfItsMode, StartsOnce, RunnerOk, ToldOrHeard, Telling, ProbeAnswered, ReportOk
<1>8. LiveParentIsSeen'
  BY <1>1 DEF SmokeInv, OfItsMode, StartsOnce, LiveParentIsSeen
<1>. QED  BY <1>2, <1>3, <1>4, <1>5, <1>6, <1>7, <1>8 DEF SmokeInv

LEMMA RunnerIsKilledInv == ASSUME SmokeInv, RunnerIsKilled PROVE SmokeInv'
<1>1. /\ runner' \in Runners /\ runner'.step = "dead" /\ runner'.ok = runner.ok
      /\ mode # "server" => UNCHANGED due
      /\ runner.ok => runner.step \in {"cleanup", "term", "done", "dead"}
      /\ UNCHANGED <<mode, ready, heartbeat, server, client, probe>>
  BY SmokeAssumption DEF RunnerIsKilled, SmokeInv, SmokeTypeOK, OfItsMode, RunnerOk, Goes, TheRest, Runners
<1>2. SmokeTypeOK'
  BY <1>1 DEF SmokeInv, SmokeTypeOK
<1>3. OfItsMode' /\ StartsOnce' /\ NothingAged'
  BY <1>1 DEF SmokeInv, OfItsMode, StartsOnce, NothingAged
<1>4. SeenLately'
  BY <1>1 DEF SmokeInv, OfItsMode, SeenLately, Beating
<1>5. ToldOrHeard'
  BY <1>1 DEF SmokeInv, OfItsMode, StartsOnce, ToldOrHeard, Telling
<1>6. ProbeAnswered' /\ ReportOk'
  BY <1>1 DEF SmokeInv, OfItsMode, StartsOnce, ProbeAnswered, ReportOk
<1>7. RunnerOk'
  BY <1>1 DEF SmokeInv, OfItsMode, StartsOnce, RunnerOk, ToldOrHeard, Telling, ProbeAnswered, ReportOk
<1>8. LiveParentIsSeen'
  BY <1>1 DEF SmokeInv, OfItsMode, StartsOnce, LiveParentIsSeen
<1>. QED  BY <1>2, <1>3, <1>4, <1>5, <1>6, <1>7, <1>8 DEF SmokeInv

\* What a callback of the monitor leaves alone.
LEMMA MonitorKeeps ==
    ASSUME SmokeInv, server.state = "serving", UNCHANGED <<mode, runner, ready, client, probe>>,
           server' \in Servers, server'.state \in {"serving", "exited"},
           server'.age \in {0, server.age}, server'.state = "serving" => server'.why = "none",
           heartbeat' \in {"none", "seen"}, server'.state = "serving" => heartbeat' = "seen",
           client.state # "up", client.report # "ok", runner.ok => mode = "reject",
           ready \in {"good", "wrong"}, SeenLately', ToldOrHeard', LiveParentIsSeen'
    PROVE  SmokeInv'
<1>1. SmokeTypeOK' /\ OfItsMode' /\ StartsOnce' /\ NothingAged'
  BY DEF SmokeInv, SmokeTypeOK, OfItsMode, StartsOnce, NothingAged
<1>2. ProbeAnswered' /\ ReportOk' /\ RunnerOk'
  BY DEF SmokeInv, ProbeAnswered, ReportOk, RunnerOk
<1>. QED  BY <1>1, <1>2 DEF SmokeInv

\* A monitor that gives its parent up looks at a file that nobody renews any more.
LEMMA ServerMonitorInv == ASSUME SmokeInv, ServerMonitor PROVE SmokeInv'
<1>. DEFINE age == IF heartbeat = "new" \/ server.gap > Grace THEN 0 ELSE server.age
<1>1. /\ server.state = "serving" /\ due' = due \ {"server"}
      /\ UNCHANGED <<mode, runner, ready, client, probe>>
      /\ CASE heartbeat = "shutdown" -> ServerEnds("heard") /\ heartbeat' = "none"
           [] heartbeat # "shutdown" /\ age > Stale -> ServerEnds("stale") /\ heartbeat' = "none"
           [] OTHER -> /\ server' = [server EXCEPT !.age = age, !.gap = 0]
                       /\ heartbeat' = IF heartbeat = "new" THEN "seen" ELSE heartbeat
  BY DEF ServerMonitor
<1>2. /\ server \in Servers /\ age \in Nat /\ Stale \in Nat /\ Stale >= 2
      /\ age = 0 \/ (heartbeat # "new" /\ age = server.age)
  BY SmokeAssumption DEF SmokeInv, SmokeTypeOK, Servers
<1>3. heartbeat \in {"new", "seen", "shutdown"} /\ server.why = "none" /\ ready \in {"good", "wrong"}
      /\ client.state # "up" /\ client.report # "ok" /\ (runner.ok => mode = "reject")
  BY <1>1 DEF SmokeInv, SmokeTypeOK, StartsOnce, ReportOk, RunnerOk
<1>. HIDE DEF age
<1>4. CASE heartbeat = "shutdown"
  <2>1. /\ server' \in Servers /\ server'.state = "exited" /\ server'.age = server.age
        /\ server'.why = "heard" /\ heartbeat' = "none"
    BY <1>1, <1>2, <1>4 DEF ServerEnds, Servers
  <2>. QED  BY <1>1, <1>3, <2>1, MonitorKeeps DEF LiveParentIsSeen, SeenLately, ToldOrHeard
<1>5. CASE heartbeat # "shutdown" /\ age > Stale
  <2>1. /\ server' \in Servers /\ server'.state = "exited" /\ server'.age = server.age
        /\ server'.why = "stale" /\ heartbeat' = "none"
    BY <1>1, <1>2, <1>5 DEF ServerEnds, Servers
  <2>2. heartbeat = "seen" /\ server.age > Stale
    BY <1>2, <1>3, <1>5
  <2>3. ~Beating /\ ~Telling /\ ~(mode = "server" /\ runner.step = "ready")
    BY <1>1, <1>2, <1>5, <2>2 DEF SmokeInv, SeenLately, ToldOrHeard, NothingAged, Servers
  <2>4. ~Beating' /\ ~Telling'
    BY <1>1, <2>3 DEF Beating, Telling
  <2>5. LiveParentIsSeen'
    BY <1>1, <2>3 DEF LiveParentIsSeen, Beating, Telling
  <2>. QED  BY <1>1, <1>3, <2>1, <2>4, <2>5, MonitorKeeps DEF SeenLately, ToldOrHeard
<1>6. CASE heartbeat # "shutdown" /\ ~(age > Stale)
  <2>1. /\ server' \in Servers /\ server'.state = "serving" /\ server'.age = age
        /\ server'.why = "none" /\ heartbeat' = "seen"
    <3>1. /\ server' = [server EXCEPT !.age = age, !.gap = 0]
          /\ heartbeat' = IF heartbeat = "new" THEN "seen" ELSE heartbeat
      BY <1>1, <1>6
    <3>. QED  BY <1>1, <1>2, <1>3, <1>6, <3>1 DEF Servers
  <2>2. Beating' = Beating /\ ~Telling /\ Telling' = Telling
    BY <1>1, <1>3, <1>6 DEF Beating, Telling, SmokeInv, ToldOrHeard
  <2>3. SeenLately'
    BY <1>1, <1>2, <2>1, <2>2 DEF SeenLately, SmokeInv
  <2>4. server'.age = 0 \/ server'.age = server.age
    BY <1>2, <2>1
  <2>. QED  BY <1>1, <1>3, <2>1, <2>2, <2>3, <2>4, MonitorKeeps DEF ToldOrHeard, LiveParentIsSeen
<1>. QED  BY <1>4, <1>5, <1>6

\* A client that says ok has closed, and its server has read that.
LEMMA ClientReportsInv == ASSUME SmokeInv, ClientReports PROVE SmokeInv'
<1>1. /\ client.state = "closing" /\ client \in Clients /\ server \in Servers
      /\ UNCHANGED <<mode, runner, ready, heartbeat, probe, due>>
      /\ mode # "server"
  BY DEF ClientReports, ClientBecomes, SmokeInv, SmokeTypeOK, OfItsMode
<1>2. client' \in Clients /\ client'.state = "exited" /\ client'.played = client.played
  BY <1>1 DEF ClientReports, ClientBecomes, Clients
<1>3. heartbeat = "none" => server.state = "exited" /\ server.why = "heard"
  BY <1>1 DEF SmokeInv, ToldOrHeard, Telling
<1>4. \/ server' = server /\ (client'.report = "ok" => client.played /\ heartbeat = "none")
      \/ /\ server' \in Servers /\ server'.state = "exited" /\ server'.why = "killed"
         /\ server'.age = server.age /\ client'.report = "bad" /\ server.state # "exited"
  <2>1. CASE ~Running(server)
    BY <1>1, <2>1 DEF ClientReports, ClientBecomes, Clients
  <2>2. CASE Running(server)
    BY <1>1, <2>2 DEF ClientReports, ClientBecomes, Clients, ServerEnds, Servers, Running
  <2>. QED  BY <2>1, <2>2
<1>5. SmokeTypeOK' /\ OfItsMode' /\ StartsOnce' /\ NothingAged'
  BY <1>1, <1>2, <1>4 DEF SmokeInv, SmokeTypeOK, OfItsMode, StartsOnce, NothingAged
<1>6. ~Beating' /\ ~Telling' /\ SeenLately' /\ ToldOrHeard'
  BY <1>1, <1>2 DEF Beating, Telling, SeenLately, ToldOrHeard
<1>7. ProbeAnswered' /\ ReportOk'
  BY <1>1, <1>2, <1>3, <1>4 DEF SmokeInv, ProbeAnswered, ReportOk
<1>8. RunnerOk'
  BY <1>1, <1>7 DEF SmokeInv, RunnerOk, ReportOk
<1>9. LiveParentIsSeen'
  BY <1>1, <1>2, <1>4 DEF SmokeInv, LiveParentIsSeen
<1>. QED  BY <1>5, <1>6, <1>7, <1>8, <1>9 DEF SmokeInv

\* A second passes: only a server that serves is a second older, and its parent owes a beat.
LEMMA TickInv == ASSUME SmokeInv, Tick PROVE SmokeInv'
<1>1. /\ "parent" \notin due /\ (runner.step = "ready" => ready = "none") /\ runner.step # "stop"
      /\ runner' = [runner EXCEPT !.left = OneLess(@)] /\ client' = [client EXCEPT !.left = OneLess(@)]
      /\ server' = IF server.state = "serving"
                   THEN [server EXCEPT !.age = IF @ > Stale THEN @ ELSE @ + 1,
                                       !.gap = IF @ > Grace THEN @ ELSE @ + 1]
                   ELSE server
      /\ "parent" \in due' <=> ParentBeats
      /\ UNCHANGED <<mode, heartbeat, ready, probe>>
  BY DEF Tick
<1>2. runner \in Runners /\ client \in Clients /\ server \in Servers
  BY DEF SmokeInv, SmokeTypeOK
<1>3. \A n \in Nat : OneLess(n) \in Nat
  BY DEF OneLess
<1>4. runner' \in Runners /\ runner'.step = runner.step /\ runner'.ok = runner.ok
  <2>1. OneLess(runner.left) \in Nat
    BY <1>2, <1>3 DEF Runners
  <2>. QED  BY <1>1, <1>2, <2>1 DEF Runners
<1>5. /\ client' \in Clients /\ client'.state = client.state
      /\ client'.played = client.played /\ client'.report = client.report
  <2>1. OneLess(client.left) \in Nat
    BY <1>2, <1>3 DEF Clients
  <2>. QED  BY <1>1, <1>2, <2>1 DEF Clients
<1>6. /\ server' \in Servers /\ server'.state = server.state /\ server'.why = server.why
      /\ server'.age <= server.age + 1 /\ (server.state # "serving" => server' = server)
  <2>1. CASE server.state # "serving"
    BY <1>1, <1>2, <2>1 DEF Servers
  <2>2. CASE server.state = "serving"
    <3>. DEFINE age == IF server.age > Stale THEN server.age ELSE server.age + 1
                gap == IF server.gap > Grace THEN server.gap ELSE server.gap + 1
    <3>1. age \in Nat /\ gap \in Nat /\ age <= server.age + 1
      BY <1>2, SmokeAssumption DEF Servers
    <3>2. server' = [server EXCEPT !.age = age, !.gap = gap]
      BY <1>1, <2>2
    <3>. HIDE DEF age, gap
    <3>. QED  BY <1>2, <2>2, <3>1, <3>2 DEF Servers
  <2>. QED  BY <2>1, <2>2
<1>7. SmokeTypeOK' /\ OfItsMode' /\ StartsOnce'
  BY <1>1, <1>4, <1>5, <1>6 DEF SmokeInv, SmokeTypeOK, OfItsMode, StartsOnce
<1>8. NothingAged'
  BY <1>1, <1>4, <1>6 DEF SmokeInv, NothingAged, StartsOnce
<1>9. SeenLately'
  <2>1. Beating' => ParentBeats /\ Beating
    BY <1>1, <1>4, <1>5 DEF Beating, ParentBeats
  <2>. QED  BY <1>1, <1>2, <1>6, <2>1 DEF SmokeInv, SeenLately, Servers
<1>10. ToldOrHeard'
  BY <1>1, <1>4, <1>5, <1>6 DEF SmokeInv, ToldOrHeard, Telling
<1>11. ProbeAnswered' /\ ReportOk' /\ RunnerOk' /\ LiveParentIsSeen'
  BY <1>1, <1>4, <1>5, <1>6 DEF SmokeInv, ProbeAnswered, ReportOk, RunnerOk, LiveParentIsSeen
<1>. QED  BY <1>7, <1>8, <1>9, <1>10, <1>11 DEF SmokeInv

LEMMA SmokeStarts == SmokeInit => SmokeInv
<1>. SUFFICES ASSUME SmokeInit PROVE SmokeInv
  OBVIOUS
<1>1. SmokeTypeOK
  BY SmokeAssumption DEF SmokeInit, SmokeTypeOK, NoServer, NoClient, NoProbe, Runners, Servers, Clients, Probes
<1>2. OfItsMode /\ StartsOnce /\ NothingAged
  BY DEF SmokeInit, OfItsMode, StartsOnce, NothingAged, NoServer, NoClient
<1>3. SeenLately /\ ToldOrHeard
  BY DEF SmokeInit, SeenLately, ToldOrHeard, Beating, Telling, NoServer, NoClient
<1>4. ProbeAnswered /\ ReportOk /\ RunnerOk /\ LiveParentIsSeen
  BY DEF SmokeInit, ProbeAnswered, ReportOk, RunnerOk, LiveParentIsSeen, NoServer, NoClient, NoProbe
<1>. QED  BY <1>1, <1>2, <1>3, <1>4 DEF SmokeInv

LEMMA SmokeSteps == SmokeInv /\ [SmokeNext]_smokeVars => SmokeInv'
<1>. SUFFICES ASSUME SmokeInv, [SmokeNext]_smokeVars PROVE SmokeInv'
  OBVIOUS
<1>1. CASE UNCHANGED smokeVars
  BY <1>1 DEF smokeVars, SmokeInv, SmokeTypeOK, OfItsMode, StartsOnce, NothingAged, SeenLately, ToldOrHeard,
              ProbeAnswered, ReportOk, RunnerOk, LiveParentIsSeen, Beating, Telling
<1>2. CASE ServerStarts \/ ServerCrashes \/ ServerMonitor \/ ServerStalls
  BY <1>2, ServerStartsInv, ServerCrashesInv, ServerMonitorInv, ServerStallsInv
<1>3. CASE ClientRefuses \/ ClientSpawns \/ ClientBeats \/ ClientCloses \/ ClientReports \/ ClientFails
  BY <1>3, ClientRefusesInv, ClientSpawnsInv, ClientBeatsInv, ClientClosesInv, ClientReportsInv, ClientFailsInv
<1>4. CASE ProbeReports
  BY <1>4, ProbeReportsInv
<1>5. CASE RunnerReady \/ RunnerBeats \/ RunnerProbed \/ RunnerStops \/ RunnerStopped
  BY <1>5, RunnerReadyInv, RunnerBeatsInv, RunnerProbedInv, RunnerStopsInv, RunnerStoppedInv
<1>6. CASE RunnerRan \/ RunnerDrained \/ RunnerTerminates \/ LeaderTerminated \/ RunnerKills \/ RunnerIsKilled
  BY <1>6, RunnerRanInv, RunnerDrainedInv, RunnerTerminatesInv, LeaderTerminatedInv, RunnerKillsInv, RunnerIsKilledInv
<1>7. CASE Tick
  BY <1>7, TickInv
<1>. QED  BY <1>1, <1>2, <1>3, <1>4, <1>5, <1>6, <1>7 DEF SmokeNext

(***************************************************************************)
(* What the tool, the client, the server and the heartbeat file know of    *)
(* one another stays true for all timeouts, of every mode.                 *)
(***************************************************************************)
THEOREM SmokeInvariance == SmokeSpec => []SmokeInv
<1>. QED  BY SmokeStarts, SmokeSteps, PTL DEF SmokeSpec

(***************************************************************************)
(* A smoke that says ok is about a server that played and then left        *)
(* because it read "shutdown" in its heartbeat file.                       *)
(***************************************************************************)
THEOREM OkIsAnswered == SmokeSpec => []OkMeansAnswered
<1>1. SmokeInv => OkMeansAnswered
  BY DEF SmokeInv, SmokeTypeOK, RunnerOk, ReportOk, OkMeansAnswered
<1>. QED  BY <1>1, SmokeInvariance, PTL

(***************************************************************************)
(* No monitor gives up a parent that is there and beats, for every number  *)
(* of late callbacks, when it waits for two seconds at least.              *)
(***************************************************************************)
THEOREM BeatingParentIsSeen == SmokeSpec => []LiveParentIsSeen
<1>1. SmokeInv => LiveParentIsSeen
  BY DEF SmokeInv
<1>. QED  BY <1>1, SmokeInvariance, PTL

----------------------------------------------------------------------------
(* The content and its gate. *)

IsDoc(d) == d = [tool |-> d.tool, hand |-> d.hand, version |-> d.version, from |-> d.from]

Gates == [step : Nat, state : {"idle", "runs", "refused", "passed"}, quiet : BOOLEAN, settled : BOOLEAN]

FilesOk ==
    /\ facts \in [rev : Nat, sound : BOOLEAN] /\ allow \in SUBSET Assets /\ tool \in [Gens -> Nat]
    /\ disk \in [Assets -> {"none", "edited", "retail"}]
    /\ doc = [file \in Files |-> doc[file]] /\ \A file \in Files : IsDoc(doc[file])

ContentTypeOK == FilesOk /\ gate \in Gates /\ settled \in SUBSET Gens

\* What a command that runs still has to do.
JobOk ==
    /\ job = [gen |-> job.gen, todo |-> job.todo, made |-> job.made, copied |-> job.copied, clean |-> job.clean]
    /\ job.gen \in Gens \cup {"none"} /\ job.clean \in BOOLEAN
    /\ job.gen = "none" => job = Idle
    /\ job.gen = "assets" => job.todo \in Seq(Assets) /\ job.copied \in SUBSET Assets
    /\ job.gen \in Gens \ {"assets"} =>
         /\ job.todo \in Seq(Range(Outputs[job.gen])) /\ job.todo # <<>>
         /\ Len(job.todo) <= Len(Outputs[job.gen])
         /\ IsDoc(job.made)

\* What each generator writes when everything before it is in step, with
\* these facts, allowlist, tools and assets, and what it takes for granted.
PathStates(d) == {d[p] : p \in {q \in {"path", "path2"} : d[q] # "none"}}

Doc(t, g, version, from) == [tool |-> t[g], hand |-> "no", version |-> version, from |-> from]

IdealOf(f, al, t, d, g) ==
    LET manifest == Doc(t, "assets", 1, [facts |-> f.rev, allow |-> al, assets |-> al]) IN
    CASE g = "assets"       -> manifest
      [] g = "presentation" -> Doc(t, g, 2, [manifest |-> manifest])
      [] g = "paths"        -> Doc(t, g, 1, [paths |-> PathStates(d)])
      [] g = "frames"       -> Doc(t, g, 11, [sheet |-> d["sheet"]])
      [] g = "levels"       -> Doc(t, g, 10, [levels |-> "retail"])
      [] g = "trial"        -> Doc(t, g, 1, [levels |-> "retail"])
      [] g = "bonus"        -> Doc(t, g, 1, [aliases |-> ModeThreeLevels(10)])
      [] g = "bosses"       -> Doc(t, g, 5, [bosses |-> BossLevels(10)])

GroundsOf(f, al, d, g) ==
    /\ g = "assets" => f.sound /\ \A a \in al : d[a] = "retail"
    /\ g = "presentation" => {"sheet", "sound"} \subseteq al
    /\ g = "paths" => Cardinality({q \in {"path", "path2"} : d[q] # "none"}) = 1
    /\ g = "frames" => f.sound /\ d["level"] = "retail" /\ d["sheet"] # "none"
    /\ g = "levels" => f.sound /\ d["level"] = "retail" /\ "sheet" \in al
    /\ g = "trial" => f.sound /\ d["level"] = "retail"
    /\ g = "bonus" => d["level"] = "retail"

Ideal(g) == IdealOf(facts, allow, tool, disk, g)

Grounded(g) == GroundsOf(facts, allow, disk, g)

\* A generator that is settled has written what it would write now.
SettledOk ==
    /\ \A g \in settled : Grounded(g) /\ \A file \in Range(Outputs[g]) : doc[file] = Ideal(g)
    /\ settled # {} => "assets" \in settled
    /\ "bonus" \in settled => "levels" \in settled
    /\ "bosses" \in settled => "levels" \in settled /\ ("frames" \in settled \/ doc["frames"].hand = "torn")

\* One that runs since everything before it was settled writes just that.
CleanOk ==
    job.clean =>
        /\ job.gen = "assets" =>
             Range(job.todo) \cup job.copied = allow /\ \A a \in job.copied : disk[a] = "retail"
        /\ job.gen \in Gens \ {"assets"} =>
             /\ Needs[job.gen] \subseteq settled /\ Grounded(job.gen) /\ job.made = Ideal(job.gen)
             /\ \A file \in Range(Outputs[job.gen]) : file \in Range(job.todo) \/ doc[file] = job.made

\* One that runs otherwise is read by nothing that is settled.
UncleanOk ==
    job.gen # "none" /\ ~job.clean => settled = {} \/ (job.gen \in {"bonus", "bosses"} /\ job.gen \notin settled)

\* The gate runs alone; as long as nothing changes, what has passed passes.
GateOk ==
    /\ gate.state # "idle" => job.gen = "none" /\ gate.step \in 1..9
    /\ gate.state # "idle" /\ gate.quiet =>
         /\ \A i \in 1..9 : i < gate.step \/ gate.state = "passed" => StepPasses(GateSteps[i])
         /\ gate.state = "refused" => ~StepPasses(GateSteps[gate.step])
         /\ gate.settled => settled = Gens

ContentInv == ContentTypeOK /\ JobOk /\ SettledOk /\ CleanOk /\ UncleanOk /\ GateOk

\* What each generator writes, and that no file has two of them.
LEMMA OutputFacts ==
    /\ Range(Outputs["assets"]) = {"manifest"}
    /\ Range(Outputs["presentation"]) = {"presentation", "presentation.md"}
    /\ Range(Outputs["trial"]) = {"trial", "trial.md"}
    /\ Range(Outputs["paths"]) = {"paths"}
    /\ Range(Outputs["frames"]) = {"frames"}
    /\ Range(Outputs["levels"]) = {"levels", "levels.md", "decoded"}
    /\ Range(Outputs["bonus"]) = {"bonus", "bonus.md"}
    /\ Range(Outputs["bosses"]) = {"bosses", "bosses.md"}
  BY DEF Outputs, Gens, Range

LEMMA OutputsAreFiles == \A g \in Gens : Range(Outputs[g]) \subseteq Files
  BY DEF Files

LEMMA OutputsAreSeqs == \A g \in Gens : Outputs[g] \in Seq(Range(Outputs[g])) /\ Outputs[g] # <<>>
<1>. SUFFICES ASSUME NEW g \in Gens PROVE Outputs[g] \in Seq(Range(Outputs[g])) /\ Outputs[g] # <<>>
  OBVIOUS
<1>1. CASE g = "assets"
  <2>1. Outputs[g] = <<"manifest">>
    BY <1>1 DEF Outputs, Gens
  <2>. QED  BY <1>1, <2>1, OutputFacts
<1>2. CASE g = "presentation"
  <2>1. Outputs[g] = <<"presentation", "presentation.md">>
    BY <1>2 DEF Outputs, Gens
  <2>. QED  BY <1>2, <2>1, OutputFacts
<1>3. CASE g = "trial"
  <2>1. Outputs[g] = <<"trial", "trial.md">>
    BY <1>3 DEF Outputs, Gens
  <2>. QED  BY <1>3, <2>1, OutputFacts
<1>4. CASE g = "paths"
  <2>1. Outputs[g] = <<"paths">>
    BY <1>4 DEF Outputs, Gens
  <2>. QED  BY <1>4, <2>1, OutputFacts
<1>5. CASE g = "frames"
  <2>1. Outputs[g] = <<"frames">>
    BY <1>5 DEF Outputs, Gens
  <2>. QED  BY <1>5, <2>1, OutputFacts
<1>6. CASE g = "levels"
  <2>1. Outputs[g] = <<"levels", "levels.md", "decoded">>
    BY <1>6 DEF Outputs, Gens
  <2>. QED  BY <1>6, <2>1, OutputFacts
<1>7. CASE g = "bonus"
  <2>1. Outputs[g] = <<"bonus", "bonus.md">>
    BY <1>7 DEF Outputs, Gens
  <2>. QED  BY <1>7, <2>1, OutputFacts
<1>8. CASE g = "bosses"
  <2>1. Outputs[g] = <<"bosses", "bosses.md">>
    BY <1>8 DEF Outputs, Gens
  <2>. QED  BY <1>8, <2>1, OutputFacts
<1>. QED  BY <1>1, <1>2, <1>3, <1>4, <1>5, <1>6, <1>7, <1>8 DEF Gens

LEMMA OwnersDiffer == \A g, h \in Gens : g # h => Range(Outputs[g]) \cap Range(Outputs[h]) = {}
  BY OutputFacts DEF Gens

LEMMA FilesAre ==
    Files = {"manifest", "presentation", "presentation.md", "trial", "trial.md", "paths", "frames",
             "levels", "levels.md", "decoded", "bonus", "bonus.md", "bosses", "bosses.md"}
<1>1. Gens = {"assets", "presentation", "trial", "paths", "frames", "levels", "bonus", "bosses"}
  BY DEF Gens
<1>2. Files = UNION {Range(Outputs[g]) : g \in Gens}
  BY DEF Files
<1>3. \A file : file \in Files <=> \E g \in Gens : file \in Range(Outputs[g])
  BY <1>2
<1>. QED  BY <1>1, <1>3, OutputFacts

LEMMA NeedsAre ==
    /\ Needs["assets"] = {} /\ Needs["bonus"] = {"levels"} /\ Needs["bosses"] = {"levels", "frames"}
    /\ \A g \in {"presentation", "trial", "paths", "frames", "levels"} : Needs[g] = {"assets"}
  BY DEF Needs, Gens

\* Every asset is somewhere in the list of what to copy.
LEMMA ListedAll == \A S \in SUBSET Assets : SetToSeq(S) \in Seq(S) /\ Range(SetToSeq(S)) = S
<1>. SUFFICES ASSUME NEW S \in SUBSET Assets PROVE SetToSeq(S) \in Seq(S) /\ Range(SetToSeq(S)) = S
  OBVIOUS
<1>1. IsFiniteSet(S)
  <2>1. IsFiniteSet({}) /\ IsFiniteSet(Assets)
    <3>1. IsFiniteSet({})
      BY FS_EmptySet
    <3>2. IsFiniteSet({"level"} \cup {"sheet"} \cup {"path"} \cup {"path2"} \cup {"sound"})
      BY FS_Singleton, FS_Union
    <3>3. Assets = {"level"} \cup {"sheet"} \cup {"path"} \cup {"path2"} \cup {"sound"}
      BY DEF Assets
    <3>. QED  BY <3>1, <3>2, <3>3
  <2>. QED  BY <2>1, FS_Subset
<1>2. Cardinality(S) \in Nat /\ ExistsBijection(1..Cardinality(S), S)
  BY <1>1, FS_CardinalityType
<1>. DEFINE n == Cardinality(S)
            s == SetToSeq(S)
<1>3. \E f \in [1..n -> S] : IsInjective(f)
  BY <1>2 DEF ExistsBijection, Bijection, Injection
<1>4. s \in [1..n -> S] /\ IsInjective(s)
  BY <1>3 DEF SetToSeq
<1>5. IsFiniteSet(1..n) /\ Cardinality(1..n) = n
  BY <1>2, FS_Interval
<1>6. s \in Surjection(1..n, S)
  BY <1>1, <1>4, <1>5, FS_Injection DEF Injection
<1>7. Range(s) = S
  BY <1>4, <1>6 DEF Range, Surjection
<1>. HIDE DEF s
<1>8. s \in Seq(S)
  BY <1>2, <1>4
<1>. QED  BY <1>7, <1>8 DEF s

\* The head of a list and what is left of it.
LEMMA HeadAndTail ==
    ASSUME NEW S, NEW s \in Seq(S), s # <<>>
    PROVE  /\ Head(s) \in S /\ Head(s) \in Range(s) /\ Tail(s) \in Seq(S) /\ Len(s) \in Nat /\ Len(s) >= 1
           /\ Range(s) = {Head(s)} \cup Range(Tail(s))
           /\ Len(s) > 1 => Tail(s) # <<>>
           /\ ~(Len(s) > 1) => Range(s) = {Head(s)}
<1>1. Len(s) \in Nat /\ Len(s) >= 1 /\ DOMAIN s = 1..Len(s) /\ Head(s) = s[1] /\ Head(s) \in S
  OBVIOUS
<1>2. Tail(s) \in Seq(S) /\ Len(Tail(s)) = Len(s) - 1 /\ \A i \in 1..(Len(s) - 1) : Tail(s)[i] = s[i + 1]
  OBVIOUS
<1>3. DOMAIN Tail(s) = 1..(Len(s) - 1)
  BY <1>2
<1>4. \A x \in Range(s) : x = Head(s) \/ x \in Range(Tail(s))
  <2>1. TAKE x \in Range(s)
  <2>2. PICK i \in 1..Len(s) : x = s[i]
    BY <1>1, <2>1 DEF Range
  <2>3. CASE i = 1
    BY <2>2, <2>3, <1>1
  <2>4. CASE i # 1
    <3>1. i - 1 \in DOMAIN Tail(s) /\ Tail(s)[i - 1] = x
      BY <1>1, <1>2, <1>3, <2>2, <2>4
    <3>. QED  BY <3>1 DEF Range
  <2>. QED  BY <2>3, <2>4
<1>5. \A x \in Range(Tail(s)) : x \in Range(s)
  <2>1. TAKE x \in Range(Tail(s))
  <2>2. PICK i \in 1..(Len(s) - 1) : x = Tail(s)[i]
    BY <1>3, <2>1 DEF Range
  <2>3. i + 1 \in DOMAIN s /\ s[i + 1] = x
    BY <1>1, <1>2, <2>2
  <2>. QED  BY <2>3 DEF Range
<1>6. Head(s) \in Range(s)
  BY <1>1 DEF Range
<1>7. Range(s) = {Head(s)} \cup Range(Tail(s))
  BY <1>4, <1>5, <1>6
<1>8. Len(s) > 1 => Tail(s) # <<>>
  BY <1>1, <1>2
<1>9. ~(Len(s) > 1) => Range(Tail(s)) = {}
  BY <1>1, <1>3 DEF Range
<1>. QED  BY <1>1, <1>2, <1>6, <1>7, <1>8, <1>9

\* What each generator would write, one by one.
LEMMA IdealIs ==
    ASSUME NEW f, NEW al, NEW t, NEW d
    PROVE  /\ IdealOf(f, al, t, d, "assets") = Doc(t, "assets", 1, [facts |-> f.rev, allow |-> al, assets |-> al])
           /\ IdealOf(f, al, t, d, "presentation") = Doc(t, "presentation", 2, [manifest |-> IdealOf(f, al, t, d, "assets")])
           /\ IdealOf(f, al, t, d, "paths") = Doc(t, "paths", 1, [paths |-> PathStates(d)])
           /\ IdealOf(f, al, t, d, "frames") = Doc(t, "frames", 11, [sheet |-> d["sheet"]])
           /\ IdealOf(f, al, t, d, "levels") = Doc(t, "levels", 10, [levels |-> "retail"])
           /\ IdealOf(f, al, t, d, "trial") = Doc(t, "trial", 1, [levels |-> "retail"])
           /\ IdealOf(f, al, t, d, "bonus") = Doc(t, "bonus", 1, [aliases |-> ModeThreeLevels(10)])
           /\ IdealOf(f, al, t, d, "bosses") = Doc(t, "bosses", 5, [bosses |-> BossLevels(10)])
  BY DEF IdealOf

LEMMA IdealMade ==
    /\ Ideal("assets") = Made("assets", 1, [facts |-> facts.rev, allow |-> allow, assets |-> allow])
    /\ Ideal("presentation") = Made("presentation", 2, [manifest |-> Ideal("assets")])
    /\ Ideal("paths") = Made("paths", 1, [paths |-> PathStates(disk)])
    /\ Ideal("frames") = Made("frames", 11, [sheet |-> disk["sheet"]])
    /\ Ideal("levels") = Made("levels", 10, [levels |-> "retail"])
    /\ Ideal("trial") = Made("trial", 1, [levels |-> "retail"])
    /\ Ideal("bonus") = Made("bonus", 1, [aliases |-> ModeThreeLevels(10)])
    /\ Ideal("bosses") = Made("bosses", 5, [bosses |-> BossLevels(10)])
  BY IdealIs DEF Ideal, Doc, Made

LEMMA IdealIsDoc ==
    ASSUME NEW g \in Gens
    PROVE  IsDoc(Ideal(g)) /\ Ideal(g).hand = "no"
<1>1. CASE g = "assets"
  BY <1>1, IdealMade DEF Made, IsDoc
<1>2. CASE g = "presentation"
  BY <1>2, IdealMade DEF Made, IsDoc
<1>3. CASE g = "paths"
  BY <1>3, IdealMade DEF Made, IsDoc
<1>4. CASE g = "frames"
  BY <1>4, IdealMade DEF Made, IsDoc
<1>5. CASE g = "levels"
  BY <1>5, IdealMade DEF Made, IsDoc
<1>6. CASE g = "trial"
  BY <1>6, IdealMade DEF Made, IsDoc
<1>7. CASE g = "bonus"
  BY <1>7, IdealMade DEF Made, IsDoc
<1>8. CASE g = "bosses"
  BY <1>8, IdealMade DEF Made, IsDoc
<1>. QED  BY <1>1, <1>2, <1>3, <1>4, <1>5, <1>6, <1>7, <1>8 DEF Gens

\* What it would write is no refusal.
LEMMA IdealIsWritten ==
    ASSUME ContentTypeOK, NEW g \in Gens
    PROVE  Ideal(g) # Refused
<1>. DEFINE States == {"none", "edited", "retail"}
            Documents(from) == [tool : Nat, hand : {"no"}, version : Nat, from : from]
            Manifests == Documents([facts : Nat, allow : SUBSET Assets, assets : SUBSET Assets])
<1>1. /\ Refused \notin Manifests
      /\ Refused \notin Documents([manifest : Manifests])
      /\ Refused \notin Documents([paths : SUBSET States])
      /\ Refused \notin Documents([sheet : States])
      /\ Refused \notin Documents([levels : {"retail"}])
      /\ Refused \notin Documents([aliases : {ModeThreeLevels(10)}])
      /\ Refused \notin Documents([bosses : {BossLevels(10)}])
  BY RefusalAssumption
<1>2. \A from : \A x \in from : \A version \in Nat, h \in Gens : Made(h, version, x) \in Documents(from)
  BY DEF ContentTypeOK, FilesOk, Made
<1>. HIDE DEF Documents, States
<1>3. [facts |-> facts.rev, allow |-> allow, assets |-> allow] \in [facts : Nat, allow : SUBSET Assets, assets : SUBSET Assets]
  BY DEF ContentTypeOK, FilesOk
<1>4. Ideal("assets") \in Manifests
  <2>. DEFINE From == [facts : Nat, allow : SUBSET Assets, assets : SUBSET Assets]
              source == [facts |-> facts.rev, allow |-> allow, assets |-> allow]
  <2>1. source \in From
    BY <1>3
  <2>. HIDE DEF From, source
  <2>2. Made("assets", 1, source) \in Documents(From)
    BY <1>2, <2>1 DEF Gens
  <2>. QED  BY <2>2, IdealMade DEF From, source
<1>. HIDE DEF Manifests
<1>5. PathStates(disk) \in SUBSET States /\ disk["sheet"] \in States
  BY DEF ContentTypeOK, FilesOk, PathStates, States, Assets
<1>6. /\ [manifest |-> Ideal("assets")] \in [manifest : Manifests] /\ [paths |-> PathStates(disk)] \in [paths : SUBSET States]
      /\ [sheet |-> disk["sheet"]] \in [sheet : States] /\ [levels |-> "retail"] \in [levels : {"retail"}]
      /\ [aliases |-> ModeThreeLevels(10)] \in [aliases : {ModeThreeLevels(10)}]
      /\ [bosses |-> BossLevels(10)] \in [bosses : {BossLevels(10)}]
  BY <1>4, <1>5
<1>7. CASE g = "assets"
  BY <1>1, <1>4, <1>7 DEF Manifests
<1>8. CASE g = "presentation"
  <2>1. Made("presentation", 2, [manifest |-> Ideal("assets")]) \in Documents([manifest : Manifests])
    BY <1>2, <1>6 DEF Gens
  <2>. QED  BY <1>1, <1>8, <2>1, IdealMade
<1>9. CASE g = "paths"
  <2>1. Made("paths", 1, [paths |-> PathStates(disk)]) \in Documents([paths : SUBSET States])
    BY <1>2, <1>6 DEF Gens
  <2>. QED  BY <1>1, <1>9, <2>1, IdealMade
<1>10. CASE g = "frames"
  <2>1. Made("frames", 11, [sheet |-> disk["sheet"]]) \in Documents([sheet : States])
    BY <1>2, <1>6 DEF Gens
  <2>. QED  BY <1>1, <1>10, <2>1, IdealMade
<1>11. CASE g = "levels"
  <2>1. Made("levels", 10, [levels |-> "retail"]) \in Documents([levels : {"retail"}])
    BY <1>2, <1>6 DEF Gens
  <2>. QED  BY <1>1, <1>11, <2>1, IdealMade
<1>12. CASE g = "trial"
  <2>1. Made("trial", 1, [levels |-> "retail"]) \in Documents([levels : {"retail"}])
    BY <1>2, <1>6 DEF Gens
  <2>. QED  BY <1>1, <1>12, <2>1, IdealMade
<1>13. CASE g = "bonus"
  <2>1. Made("bonus", 1, [aliases |-> ModeThreeLevels(10)]) \in Documents([aliases : {ModeThreeLevels(10)}])
    BY <1>2, <1>6 DEF Gens
  <2>. QED  BY <1>1, <1>13, <2>1, IdealMade
<1>14. CASE g = "bosses"
  <2>1. Made("bosses", 5, [bosses |-> BossLevels(10)]) \in Documents([bosses : {BossLevels(10)}])
    BY <1>2, <1>6 DEF Gens
  <2>. QED  BY <1>1, <1>14, <2>1, IdealMade
<1>. QED  BY <1>7, <1>8, <1>9, <1>10, <1>11, <1>12, <1>13, <1>14 DEF Gens

LEMMA BuiltIs ==
    /\ Built("assets") = ManifestOf(allow)
    /\ Built("presentation") = PresentationOf
    /\ Built("paths") = PathsOf
    /\ Built("frames") = FramesOf
    /\ Built("levels") = LevelsOf
    /\ Built("trial") = TrialOf
    /\ Built("bonus") = BonusOf
    /\ Built("bosses") = BossesOf
  BY DEF Built

\* What is on the disk and in the manifest once the assets are settled.
LEMMA ManifestIs ==
    ASSUME ContentTypeOK, SettledOk, "assets" \in settled
    PROVE  /\ facts.sound /\ \A a \in allow : disk[a] = "retail"
           /\ doc["manifest"] = Ideal("assets")
           /\ Readable("manifest") /\ doc["manifest"].hand = "no"
           /\ doc["manifest"].from = [facts |-> facts.rev, allow |-> allow, assets |-> allow]
           /\ \A a \in Assets : Pinned(a) <=> a \in allow
<1>1. facts.sound /\ (\A a \in allow : disk[a] = "retail") /\ doc["manifest"] = Ideal("assets")
  BY OutputFacts DEF SettledOk, Grounded, GroundsOf
<1>2. doc["manifest"].hand = "no" /\ doc["manifest"].from = [facts |-> facts.rev, allow |-> allow, assets |-> allow]
  BY <1>1, IdealMade DEF Made
<1>3. Readable("manifest")
  BY <1>2 DEF Readable
<1>. QED  BY <1>1, <1>2, <1>3 DEF Pinned

LEMMA LevelsAre ==
    ASSUME ContentTypeOK, SettledOk, "levels" \in settled
    PROVE  /\ doc["levels"].hand = "no" /\ doc["levels"].version = 10 /\ Readable("levels")
           /\ facts.sound /\ disk["level"] = "retail" /\ "sheet" \in allow
<1>1. doc["levels"] = Ideal("levels") /\ facts.sound /\ disk["level"] = "retail" /\ "sheet" \in allow
  BY OutputFacts DEF SettledOk, Grounded, GroundsOf
<1>. QED  BY <1>1, IdealMade DEF Made, Readable

LEMMA FramesAre ==
    ASSUME ContentTypeOK, SettledOk, "frames" \in settled
    PROVE  doc["frames"].hand = "no" /\ doc["frames"].version = 11 /\ Readable("frames")
<1>1. doc["frames"] = Ideal("frames")
  BY OutputFacts DEF SettledOk
<1>. QED  BY <1>1, IdealMade DEF Made, Readable

LEMMA PathsAre ==
    ASSUME ContentTypeOK
    PROVE  PathsOf = Unless(Cardinality({q \in {"path", "path2"} : disk[q] # "none"}) # 1,
                            Made("paths", 1, [paths |-> PathStates(disk)]))
<1>1. {"path", "path2"} \cap Present = {q \in {"path", "path2"} : disk[q] # "none"}
  BY DEF Present, Assets
<1>. QED  BY <1>1 DEF PathsOf, PathStates

\* A generator whose inputs are settled writes the ideal, or finds that what
\* it takes for granted is not so.
LEMMA BuiltIsIdeal ==
    ASSUME ContentTypeOK, SettledOk, NEW g \in Gens, Needs[g] \subseteq settled, Grounded(g),
           g = "levels" => Readable("levels")
    PROVE  Built(g) = Ideal(g)
<1>1. g # "assets" => "assets" \in settled
  BY NeedsAre DEF SettledOk, Gens
<1>2. CASE g = "assets"
  BY <1>1, <1>2, BuiltIs, IdealMade DEF Grounded, GroundsOf, Assets, Unless, ManifestOf
<1>3. CASE g = "presentation"
  BY <1>1, <1>3, ManifestIs, BuiltIs, IdealMade DEF Grounded, GroundsOf, Assets, Unless, PresentationOf
<1>4. CASE g = "paths"
  BY <1>1, <1>4, PathsAre, BuiltIs, IdealMade DEF Grounded, GroundsOf, Assets, Unless
<1>5. CASE g = "frames"
  BY <1>1, <1>5, BuiltIs, IdealMade DEF Grounded, GroundsOf, Assets, Unless, FramesOf, LevelFilesOk
<1>6. CASE g = "levels"
  BY <1>1, <1>6, ManifestIs, BuiltIs, IdealMade DEF Grounded, GroundsOf, Assets, Unless, LevelsOf, LevelFilesOk
<1>7. CASE g = "trial"
  BY <1>1, <1>7, BuiltIs, IdealMade DEF Grounded, GroundsOf, Assets, Unless, TrialOf, LevelFilesOk
<1>8. CASE g = "bonus"
  BY <1>1, <1>8, LevelsAre, NeedsAre, BuiltIs, IdealMade DEF Grounded, GroundsOf, Assets, Unless, BonusOf
<1>9. CASE g = "bosses"
  BY <1>1, <1>9, LevelsAre, FramesAre, NeedsAre, BuiltIs, IdealMade DEF Grounded, GroundsOf, Assets, Unless, BossesOf, BossVersion
<1>. QED  BY <1>2, <1>3, <1>4, <1>5, <1>6, <1>7, <1>8, <1>9 DEF Gens

LEMMA BuiltIsGrounded ==
    ASSUME ContentTypeOK, SettledOk, NEW g \in Gens \ {"assets"}, Needs[g] \subseteq settled, Built(g) # Refused
    PROVE  Grounded(g) /\ Built(g) = Ideal(g)
<1>1. g # "assets" => "assets" \in settled
  BY NeedsAre DEF SettledOk, Gens
<1>. SUFFICES Grounded(g) /\ (g = "levels" => Readable("levels"))
  BY BuiltIsIdeal
<1>2. CASE g = "presentation"
  BY <1>1, <1>2, ManifestIs, BuiltIs, IdealMade DEF Grounded, GroundsOf, Assets, Unless, PresentationOf
<1>3. CASE g = "paths"
  BY <1>1, <1>3, PathsAre, BuiltIs, IdealMade DEF Grounded, GroundsOf, Assets, Unless
<1>4. CASE g = "frames"
  BY <1>1, <1>4, BuiltIs, IdealMade DEF Grounded, GroundsOf, Assets, Unless, FramesOf, LevelFilesOk
<1>5. CASE g = "levels"
  BY <1>1, <1>5, ManifestIs, BuiltIs, IdealMade DEF Grounded, GroundsOf, Assets, Unless, LevelsOf, LevelFilesOk
<1>6. CASE g = "trial"
  BY <1>1, <1>6, BuiltIs, IdealMade DEF Grounded, GroundsOf, Assets, Unless, TrialOf, LevelFilesOk
<1>7. CASE g = "bonus"
  BY <1>1, <1>7, LevelsAre, NeedsAre, BuiltIs, IdealMade DEF Grounded, GroundsOf, Assets, Unless, BonusOf
<1>8. CASE g = "bosses"
  BY <1>1, <1>8, LevelsAre, FramesAre, NeedsAre, BuiltIs, IdealMade DEF Grounded, GroundsOf, Assets, Unless, BossesOf, BossVersion
<1>. QED  BY <1>2, <1>3, <1>4, <1>5, <1>6, <1>7, <1>8 DEF Gens

\* A boss file is not made from frames that are torn.
LEMMA BossesNeedFrames == Built("bosses") # Refused => Readable("frames") /\ Readable("levels")
  BY BuiltIs DEF BossesOf, Unless

LEMMA BuiltIsDoc == \A g \in Gens : Built(g) # Refused => IsDoc(Built(g))
<1>. SUFFICES ASSUME NEW g \in Gens, Built(g) # Refused PROVE IsDoc(Built(g))
  OBVIOUS
<1>1. CASE g = "assets"
  BY <1>1, BuiltIs DEF Unless, ManifestOf, Made, IsDoc
<1>2. CASE g = "presentation"
  BY <1>2, BuiltIs DEF Unless, PresentationOf, Made, IsDoc
<1>3. CASE g = "paths"
  BY <1>3, BuiltIs DEF Unless, PathsOf, Made, IsDoc
<1>4. CASE g = "frames"
  BY <1>4, BuiltIs DEF Unless, FramesOf, Made, IsDoc
<1>5. CASE g = "levels"
  BY <1>5, BuiltIs DEF Unless, LevelsOf, Made, IsDoc
<1>6. CASE g = "trial"
  BY <1>6, BuiltIs DEF Unless, TrialOf, Made, IsDoc
<1>7. CASE g = "bonus"
  BY <1>7, BuiltIs DEF Unless, BonusOf, Made, IsDoc
<1>8. CASE g = "bosses"
  BY <1>8, BuiltIs DEF Unless, BossesOf, Made, IsDoc
<1>. QED  BY <1>1, <1>2, <1>3, <1>4, <1>5, <1>6, <1>7, <1>8 DEF Gens

----------------------------------------------------------------------------
(* What its variables leave alone. *)

LEMMA IdealSame ==
    ASSUME UNCHANGED <<facts, allow, tool, disk>>
    PROVE  \A g : Ideal(g)' = Ideal(g) /\ (Grounded(g)' <=> Grounded(g))
  BY DEF Ideal, Grounded

\* The verdict of a check depends on the files, the facts, the list and the tools alone.
LEMMA VerdictSame ==
    ASSUME UNCHANGED <<facts, allow, tool, disk, doc>>
    PROVE  \A step : StepPasses(step)' <=> StepPasses(step)
<1>1. Present' = Present
  BY DEF Present
<1>2. \A file : Readable(file)' <=> Readable(file)
  BY DEF Readable
<1>3. \A a : Pinned(a)' <=> Pinned(a)
  BY <1>2 DEF Pinned
<1>4. \A g, version, from : Made(g, version, from)' = Made(g, version, from)
  BY DEF Made
<1>5. LevelFilesOk' <=> LevelFilesOk
  BY DEF LevelFilesOk
<1>6. \A copied : ManifestOf(copied)' = ManifestOf(copied)
  BY <1>4 DEF ManifestOf, Unless, Made
<1>7. PresentationOf' = PresentationOf
  BY <1>3, <1>4 DEF PresentationOf, Unless, Made
<1>8. PathsOf' = PathsOf
  <2>1. ({"path", "path2"} \cap Present)' = {"path", "path2"} \cap Present
    BY <1>1
  <2>2. ({disk[p] : p \in {"path", "path2"} \cap Present})' = {disk[p] : p \in {"path", "path2"} \cap Present}
    BY <2>1
  <2>. QED  BY <1>1, <2>1, <2>2 DEF PathsOf, Unless, Made
<1>9. FramesOf' = FramesOf
  BY <1>5 DEF FramesOf, Unless, Made
<1>10. LevelsOf' = LevelsOf
  BY <1>2, <1>3, <1>5 DEF LevelsOf, Unless, Made
<1>11. TrialOf' = TrialOf
  BY <1>5 DEF TrialOf, Unless, Made
<1>12. BonusOf' = BonusOf
  BY <1>2 DEF BonusOf, Unless, Made
<1>13. BossesOf' = BossesOf
  BY <1>2 DEF BossesOf, Unless, Made
<1>14. \A g : Built(g)' = Built(g)
  BY <1>6, <1>7, <1>8, <1>9, <1>10, <1>11, <1>12, <1>13 DEF Built
<1>15. \A g : Current(g)' <=> Current(g)
  BY <1>14 DEF Current
<1>16. AssetsCurrent' <=> AssetsCurrent
  BY <1>15 DEF AssetsCurrent
<1>17. ManifestHolds' <=> ManifestHolds
  BY <1>1, <1>2, <1>3 DEF ManifestHolds
<1>18. ContentValid' <=> ContentValid
  BY <1>8, <1>9, <1>12, <1>13, <1>17 DEF ContentValid
<1>. QED  BY <1>15, <1>16, <1>18 DEF StepPasses

----------------------------------------------------------------------------
(* Edits. *)

LEMMA EditInv == ASSUME ContentInv, Edit, FilesOk' PROVE ContentInv'
<1>1. /\ settled' = {} /\ job' = [job EXCEPT !.clean = FALSE] /\ gate \in Gates
      /\ gate' = IF gate.state = "runs" THEN [gate EXCEPT !.quiet = FALSE] ELSE NoGate
  BY DEF Edit, Disturb, ContentInv, ContentTypeOK
<1>2. ContentTypeOK'
  BY <1>1 DEF ContentTypeOK, Gates, NoGate
<1>3. job.gen = job'.gen /\ job'.todo = job.todo /\ job'.copied = job.copied /\ job'.made = job.made /\ job'.clean = FALSE
  BY <1>1 DEF ContentInv, JobOk
<1>4. JobOk'
  <2>1. job' = [gen |-> job'.gen, todo |-> job'.todo, made |-> job'.made, copied |-> job'.copied, clean |-> job'.clean]
    BY <1>1 DEF ContentInv, JobOk
  <2>2. job'.gen = "none" => job' = Idle
    <3>1. job.gen = "none" => job.todo = <<>> /\ job.made = Refused /\ job.copied = {}
      BY DEF ContentInv, JobOk, Idle
    <3>. QED  BY <1>3, <2>1, <3>1 DEF Idle
  <2>. QED  BY <1>3, <2>1, <2>2 DEF ContentInv, JobOk
<1>5. SettledOk' /\ CleanOk' /\ UncleanOk'
  BY <1>1, <1>3 DEF SettledOk, CleanOk, UncleanOk
<1>6. GateOk'
  <2>1. gate'.state # "idle" => gate.state = "runs" /\ gate'.step = gate.step /\ gate'.quiet = FALSE
    BY <1>1 DEF Gates, NoGate
  <2>. QED  BY <1>3, <2>1 DEF ContentInv, GateOk
<1>. QED  BY <1>2, <1>4, <1>5, <1>6 DEF ContentInv

LEMMA HandKeepsDoc ==
    ASSUME FilesOk, NEW file, NEW hand, doc' = [doc EXCEPT ![file].hand = hand]
    PROVE  /\ doc' = [f \in Files |-> doc'[f]] /\ \A f \in Files : IsDoc(doc'[f])
           /\ \A f \in Files \ {file} : doc'[f] = doc[f]
           /\ file \in Files => doc'[file].hand = hand
<1>1. doc = [f \in Files |-> doc[f]] /\ \A f \in Files : IsDoc(doc[f])
  BY DEF FilesOk
<1>2. DOMAIN doc = Files
  BY <1>1
<1>3. doc' = [f \in Files |-> IF f = file THEN [doc[f] EXCEPT !.hand = hand] ELSE doc[f]]
  BY <1>2
<1>4. \A f \in Files : IsDoc([doc[f] EXCEPT !.hand = hand]) /\ [doc[f] EXCEPT !.hand = hand].hand = hand
  <2>1. TAKE f \in Files
  <2>2. IsDoc(doc[f])
    BY <1>1
  <2>. QED  BY <2>2 DEF IsDoc
<1>. QED  BY <1>1, <1>3, <1>4

LEMMA EditsInv ==
    ASSUME ContentInv, EditFacts \/ EditAllowlist \/ ReviseTool \/ EditAsset \/ EditFile \/ CheckOutOlder
    PROVE  ContentInv'
<1>. USE DEF ContentInv, ContentTypeOK
<1>1. Edit
  BY DEF EditFacts, EditAllowlist, ReviseTool, EditAsset, EditFile, CheckOutOlder
<1>2. CASE EditFacts
  <2>1. PICK sound \in BOOLEAN : facts' = [rev |-> facts.rev + 1, sound |-> sound]
    BY <1>2 DEF EditFacts
  <2>2. facts' \in [rev : Nat, sound : BOOLEAN]
    BY <2>1 DEF FilesOk
  <2>3. UNCHANGED <<allow, tool, disk, doc>>
    BY <1>2 DEF EditFacts
  <2>4. FilesOk'
    BY <2>2, <2>3 DEF FilesOk
  <2>. QED  BY <1>1, <2>4, EditInv
<1>3. CASE EditAllowlist
  <2>1. FilesOk'
    BY <1>3 DEF EditAllowlist, FilesOk
  <2>. QED  BY <1>1, <2>1, EditInv
<1>4. CASE ReviseTool
  <2>1. tool' \in [Gens -> Nat] /\ UNCHANGED <<facts, allow, disk, doc>>
    <3>1. PICK g : tool' = [tool EXCEPT ![g] = @ + 1]
      BY <1>4 DEF ReviseTool
    <3>2. tool \in [Gens -> Nat] /\ UNCHANGED <<facts, allow, disk, doc>>
      BY <1>4 DEF ReviseTool, FilesOk
    <3>3. tool' = [h \in Gens |-> IF h = g THEN tool[h] + 1 ELSE tool[h]]
      BY <3>1, <3>2
    <3>4. \A h \in Gens : tool[h] \in Nat /\ tool[h] + 1 \in Nat
      BY <3>2
    <3>. QED  BY <3>2, <3>3, <3>4
  <2>2. FilesOk'
    BY <2>1 DEF FilesOk
  <2>. QED  BY <1>1, <2>2, EditInv
<1>5. CASE EditAsset
  <2>1. disk' \in [Assets -> {"none", "edited", "retail"}] /\ UNCHANGED <<facts, allow, tool, doc>>
    BY <1>5 DEF EditAsset, FilesOk
  <2>2. FilesOk'
    BY <2>1 DEF FilesOk
  <2>. QED  BY <1>1, <2>2, EditInv
<1>6. CASE EditFile
  <2>1. PICK file, hand : doc' = [doc EXCEPT ![file].hand = hand]
    BY <1>6 DEF EditFile
  <2>2. UNCHANGED <<facts, allow, tool, disk>>
    BY <1>6 DEF EditFile
  <2>3. FilesOk'
    BY <2>1, <2>2, HandKeepsDoc DEF FilesOk
  <2>. QED  BY <1>1, <2>3, EditInv
<1>7. CASE CheckOutOlder
  <2>. DEFINE Version(file) == CASE file = "levels" -> OldVersion
                                 [] file = "frames" -> OldCompanions.frames
                                 [] file = "bosses" -> OldCompanions.bosses
              Old(file) == [tool |-> -1, hand |-> "no", from |-> doc[file].from, version |-> Version(file)]
  <2>1. PICK files : doc' = [file \in Files |-> IF file \notin files THEN doc[file] ELSE Old(file)]
    BY <1>7 DEF CheckOutOlder
  <2>2. UNCHANGED <<facts, allow, tool, disk>>
    BY <1>7 DEF CheckOutOlder
  <2>. HIDE DEF Version
  <2>3. \A file : IsDoc(Old(file))
    BY DEF IsDoc
  <2>. HIDE DEF Old
  <2>4. FilesOk'
    BY <2>1, <2>2, <2>3 DEF FilesOk
  <2>. QED  BY <1>1, <2>4, EditInv
<1>. QED  BY <1>2, <1>3, <1>4, <1>5, <1>6, <1>7

----------------------------------------------------------------------------
(* Generators. *)

LEMMA IdleOrBusy ==
    ASSUME ContentInv, Free
    PROVE  job.gen = "none" /\ gate.state # "runs"
  BY DEF Free, Idle

\* A command that starts: nothing is written yet, and the last verdict is gone.
LEMMA StartInv ==
    ASSUME ContentInv, gate' = NoGate, UNCHANGED <<facts, allow, tool, disk, doc, settled>>,
           JobOk', CleanOk', UncleanOk'
    PROVE  ContentInv'
<1>1. ContentTypeOK'
  BY DEF ContentInv, ContentTypeOK, FilesOk, Gates, NoGate
<1>2. SettledOk'
  BY IdealSame DEF ContentInv, SettledOk
<1>3. GateOk'
  BY DEF GateOk, NoGate
<1>. QED  BY <1>1, <1>2, <1>3 DEF ContentInv

LEMMA StartAssetsInv == ASSUME ContentInv, StartAssets PROVE ContentInv'
<1>1. /\ job' = [gen |-> "assets", todo |-> SetToSeq(allow), made |-> Refused, copied |-> {}, clean |-> TRUE]
      /\ gate' = NoGate /\ UNCHANGED <<facts, allow, tool, disk, doc, settled>>
      /\ allow \in SUBSET Assets
  BY DEF StartAssets, ContentInv, ContentTypeOK, FilesOk
<1>. DEFINE todo == SetToSeq(allow)
<1>2. todo \in Seq(Assets) /\ Range(todo) = allow
  <2>1. todo \in Seq(allow) /\ Range(todo) = allow
    BY <1>1, ListedAll
  <2>2. Seq(allow) \subseteq Seq(Assets)
    BY <1>1
  <2>. QED  BY <2>1, <2>2
<1>. HIDE DEF todo
<1>3. /\ job'.gen = "assets" /\ job'.todo = todo /\ job'.copied = {} /\ job'.clean = TRUE
      /\ job' = [gen |-> job'.gen, todo |-> job'.todo, made |-> job'.made, copied |-> job'.copied, clean |-> job'.clean]
  BY <1>1 DEF todo
<1>4. JobOk'
  BY <1>2, <1>3 DEF JobOk, Gens
<1>5. CleanOk' /\ UncleanOk'
  BY <1>1, <1>2, <1>3 DEF CleanOk, UncleanOk
<1>. QED  BY <1>1, <1>4, <1>5, StartInv

LEMMA StartGeneratorInv == ASSUME ContentInv, StartGenerator PROVE ContentInv'
<1>1. PICK g \in Gens \ {"assets"} :
        /\ Built(g) # Refused
        /\ job' = [gen |-> g, todo |-> Outputs[g], made |-> Built(g), copied |-> {}, clean |-> Ready(g)]
  BY DEF StartGenerator
<1>2. /\ gate' = NoGate /\ UNCHANGED <<facts, allow, tool, disk, doc, settled>>
      /\ ContentTypeOK /\ SettledOk
  BY DEF StartGenerator, ContentInv
<1>3. /\ job'.gen = g /\ job'.todo = Outputs[g] /\ job'.made = Built(g) /\ job'.clean = Ready(g)
      /\ job' = [gen |-> job'.gen, todo |-> job'.todo, made |-> job'.made, copied |-> job'.copied, clean |-> job'.clean]
  BY <1>1
<1>4. Ready(g) <=> Needs[g] \subseteq settled
  BY DEF Ready
<1>5. JobOk'
  <2>1. Outputs[g] \in Seq(Range(Outputs[g])) /\ Outputs[g] # <<>> /\ Len(Outputs[g]) <= Len(Outputs[g])
    BY OutputsAreSeqs
  <2>2. IsDoc(Built(g)) /\ Ready(g) \in BOOLEAN /\ g # "none"
    BY <1>1, BuiltIsDoc DEF Ready, Gens
  <2>. QED  BY <1>3, <2>1, <2>2 DEF JobOk
<1>6. CleanOk'
  <2>. SUFFICES ASSUME Ready(g) PROVE CleanOk'
    BY <1>3 DEF CleanOk
  <2>1. Grounded(g) /\ Built(g) = Ideal(g) /\ Needs[g] \subseteq settled
    BY <1>1, <1>2, <1>4, BuiltIsGrounded
  <2>. QED  BY <1>2, <1>3, <2>1, IdealSame DEF CleanOk
<1>7. UncleanOk'
  <2>. SUFFICES ASSUME ~(Needs[g] \subseteq settled), settled # {}
                PROVE  g \in {"bonus", "bosses"} /\ g \notin settled
    BY <1>2, <1>3, <1>4 DEF UncleanOk
  <2>1. "assets" \in settled
    BY <1>2 DEF SettledOk
  <2>2. g \in {"bonus", "bosses"}
    BY <2>1, NeedsAre DEF Gens
  <2>3. g = "bonus" => g \notin settled
    BY <1>2, NeedsAre DEF SettledOk
  <2>4. ASSUME g = "bosses", g \in settled PROVE FALSE
    <3>1. doc["frames"].hand = "torn"
      BY <1>2, <2>4, NeedsAre DEF SettledOk
    <3>. QED  BY <1>1, <2>4, <3>1, BossesNeedFrames DEF Readable
  <2>. QED  BY <2>2, <2>3, <2>4
<1>. QED  BY <1>2, <1>5, <1>6, <1>7, StartInv

\* Nothing but a generator is at work: the gate is idle and stays so.
LEMMA BusyGate ==
    ASSUME ContentInv, job.gen # "none", UNCHANGED gate
    PROVE  GateOk' /\ gate' \in Gates
  BY DEF ContentInv, GateOk, ContentTypeOK

LEMMA CopyAssetInv == ASSUME ContentInv, CopyAsset PROVE ContentInv'
<1>. DEFINE a == Head(job.todo)
<1>1. /\ job.gen = "assets" /\ job.todo # <<>> /\ job.todo \in Seq(Assets) /\ job.copied \in SUBSET Assets
      /\ disk' = [disk EXCEPT ![a] = "retail"] /\ disk \in [Assets -> {"none", "edited", "retail"}]
      /\ job' = [job EXCEPT !.todo = Tail(@), !.copied = @ \cup {a}]
      /\ UNCHANGED <<facts, allow, tool, doc, gate, settled>>
  BY DEF CopyAsset, ContentInv, JobOk, ContentTypeOK, FilesOk
<1>2. /\ a \in Assets /\ Tail(job.todo) \in Seq(Assets) /\ Range(job.todo) = {a} \cup Range(Tail(job.todo))
  BY <1>1, HeadAndTail
<1>. HIDE DEF a
<1>3. /\ job'.gen = "assets" /\ job'.todo = Tail(job.todo) /\ job'.copied = job.copied \cup {a} /\ job'.clean = job.clean
      /\ job' = [gen |-> job'.gen, todo |-> job'.todo, made |-> job'.made, copied |-> job'.copied, clean |-> job'.clean]
  BY <1>1 DEF ContentInv, JobOk
<1>4. JobOk'
  BY <1>1, <1>2, <1>3 DEF ContentInv, JobOk, Gens
<1>5. disk'[a] = "retail" /\ (\A b \in Assets : b # a => disk'[b] = disk[b])
      /\ disk' \in [Assets -> {"none", "edited", "retail"}]
  BY <1>1, <1>2
<1>6. ContentTypeOK'
  BY <1>1, <1>5, BusyGate DEF ContentInv, ContentTypeOK, FilesOk
<1>7. CleanOk'
  BY <1>1, <1>2, <1>3, <1>5 DEF ContentInv, CleanOk
<1>8. UncleanOk'
  BY <1>1, <1>3 DEF ContentInv, UncleanOk
<1>9. SettledOk'
  <2>1. CASE settled = {}
    BY <1>1, <2>1 DEF SettledOk
  <2>2. CASE settled # {}
    <3>1. job.clean /\ "assets" \in settled
      BY <1>1, <2>2 DEF ContentInv, UncleanOk, JobOk, SettledOk
    <3>2. a \in allow
      BY <1>1, <1>2, <3>1 DEF ContentInv, CleanOk
    <3>3. disk[a] = "retail"
      BY <3>1, <3>2, ManifestIs DEF ContentInv
    <3>4. disk' = disk
      BY <1>1, <1>2, <3>3
    <3>. QED  BY <1>1, <3>4, IdealSame DEF ContentInv, SettledOk
  <2>. QED  BY <2>1, <2>2
<1>10. GateOk'
  BY <1>1, BusyGate
<1>. QED  BY <1>4, <1>6, <1>7, <1>8, <1>9, <1>10 DEF ContentInv

\* A file that is written belongs to one generator only.
LEMMA OthersKeep ==
    ASSUME SettledOk, NEW g \in Gens, NEW file \in Range(Outputs[g]), NEW h \in settled \ {g}, settled \subseteq Gens,
           \A f \in Files \ {file} : doc'[f] = doc[f], UNCHANGED <<facts, allow, tool, disk>>
    PROVE  Grounded(h)' /\ \A f \in Range(Outputs[h]) : doc'[f] = Ideal(h)'
<1>1. \A f \in Range(Outputs[h]) : f \in Files \ {file}
  BY OwnersDiffer, OutputsAreFiles
<1>. QED  BY <1>1, IdealSame DEF SettledOk

LEMMA WriteKeepsDoc ==
    ASSUME FilesOk, NEW file \in Files, NEW d, IsDoc(d), doc' = [doc EXCEPT ![file] = d], UNCHANGED <<facts, allow, tool, disk>>
    PROVE  FilesOk' /\ doc'[file] = d /\ \A f \in Files \ {file} : doc'[f] = doc[f]
<1>1. doc = [f \in Files |-> doc[f]] /\ \A f \in Files : IsDoc(doc[f])
  BY DEF FilesOk
<1>2. DOMAIN doc = Files
  BY <1>1
<1>3. doc' = [f \in Files |-> IF f = file THEN d ELSE doc[f]]
  BY <1>2
<1>4. doc' = [f \in Files |-> doc'[f]] /\ \A f \in Files : IsDoc(doc'[f])
  BY <1>1, <1>3
<1>. QED  BY <1>3, <1>4 DEF FilesOk

\* A command that ends leaves no promise behind but what is settled.
LEMMA EndInv ==
    ASSUME ContentInv, job.gen # "none", job' = Idle, UNCHANGED gate,
           FilesOk', settled' \in SUBSET Gens, SettledOk'
    PROVE  ContentInv'
<1>1. job'.gen = "none" /\ job'.clean = FALSE
  BY DEF Idle
<1>2. JobOk'
  <2>1. job' = [gen |-> job'.gen, todo |-> job'.todo, made |-> job'.made, copied |-> job'.copied, clean |-> job'.clean]
    BY DEF Idle
  <2>2. "none" \notin Gens
    BY DEF Gens
  <2>. QED  BY <1>1, <2>1, <2>2 DEF JobOk
<1>3. CleanOk' /\ UncleanOk'
  BY <1>1 DEF CleanOk, UncleanOk
<1>4. GateOk' /\ gate' \in Gates
  BY BusyGate
<1>. QED  BY <1>2, <1>3, <1>4 DEF ContentInv, ContentTypeOK

LEMMA WriteManifestInv == ASSUME ContentInv, WriteManifest PROVE ContentInv'
<1>. DEFINE m == ManifestOf(job.copied)
<1>1. /\ job.gen = "assets" /\ job.todo = <<>> /\ job' = Idle
      /\ UNCHANGED <<facts, allow, tool, disk, gate>> /\ settled \in SUBSET Gens
      /\ ContentTypeOK /\ FilesOk /\ SettledOk
  BY DEF WriteManifest, ContentInv, ContentTypeOK
<1>2. CASE m = Refused
  <2>1. UNCHANGED <<doc, settled>>
    BY <1>2 DEF WriteManifest
  <2>2. FilesOk'
    BY <1>1, <2>1 DEF FilesOk
  <2>3. SettledOk'
    BY <1>1, <2>1, IdealSame DEF SettledOk
  <2>. QED  BY <1>1, <2>1, <2>2, <2>3, EndInv
<1>3. CASE m # Refused
  <2>1. /\ doc' = [doc EXCEPT !["manifest"] = m]
        /\ settled' = IF job.clean THEN settled \cup {"assets"} ELSE settled
    BY <1>3 DEF WriteManifest
  <2>2. facts.sound /\ m = Made("assets", 1, [facts |-> facts.rev, allow |-> allow, assets |-> job.copied])
    BY <1>3 DEF ManifestOf, Unless
  <2>3. IsDoc(m)
    BY <2>2 DEF Made, IsDoc
  <2>. HIDE DEF m
  <2>4. FilesOk' /\ doc'["manifest"] = m /\ \A f \in Files \ {"manifest"} : doc'[f] = doc[f]
    BY <1>1, <2>1, <2>3, WriteKeepsDoc, FilesAre
  <2>5. SettledOk'
    <3>1. CASE ~job.clean
      <4>1. settled' = {}
        BY <1>1, <2>1, <3>1 DEF ContentInv, UncleanOk
      <4>. QED  BY <4>1 DEF SettledOk
    <3>2. CASE job.clean
      <4>1. job.copied = allow /\ \A a \in allow : disk[a] = "retail"
        <5>1. Range(job.todo) = {}
          BY <1>1 DEF Range
        <5>. QED  BY <1>1, <3>2, <5>1 DEF ContentInv, CleanOk
      <4>2. m = Ideal("assets") /\ Grounded("assets")
        BY <2>2, <4>1, IdealMade DEF Grounded, GroundsOf
      <4>3. \A h \in settled \ {"assets"} : Grounded(h)' /\ \A f \in Range(Outputs[h]) : doc'[f] = Ideal(h)'
        <5>1. "assets" \in Gens /\ "manifest" \in Range(Outputs["assets"]) /\ settled \subseteq Gens
          BY <1>1, OutputFacts DEF Gens
        <5>. QED  BY <1>1, <2>4, <5>1, OthersKeep
      <4>4. Grounded("assets")' /\ \A f \in Range(Outputs["assets"]) : doc'[f] = Ideal("assets")'
        BY <1>1, <2>4, <4>2, IdealSame, OutputFacts
      <4>5. doc'["frames"] = doc["frames"]
        BY <2>4, FilesAre
      <4>6. settled' = settled \cup {"assets"}
        BY <2>1, <3>2
      <4>. QED  BY <1>1, <4>3, <4>4, <4>5, <4>6 DEF SettledOk
    <3>. QED  BY <3>1, <3>2
  <2>6. settled' \in SUBSET Gens
    BY <1>1, <2>1 DEF Gens
  <2>. QED  BY <1>1, <2>4, <2>5, <2>6, EndInv
<1>. QED  BY <1>2, <1>3

LEMMA WriteOutputInv == ASSUME ContentInv, WriteOutput PROVE ContentInv'
<1>. DEFINE file == Head(job.todo)
<1>0. PICK g \in Gens \ {"assets"} : g = job.gen
  BY DEF WriteOutput, ContentInv, JobOk
<1>1. /\ g = job.gen /\ g \in Gens \ {"assets"} /\ job.todo \in Seq(Range(Outputs[g])) /\ job.todo # <<>> /\ IsDoc(job.made)
      /\ doc' = [doc EXCEPT ![file] = job.made]
      /\ IF Len(job.todo) > 1 THEN job' = [job EXCEPT !.todo = Tail(@)] /\ UNCHANGED settled
         ELSE job' = Idle /\ settled' = (IF job.clean THEN settled \cup {g} ELSE settled)
      /\ UNCHANGED <<facts, allow, tool, disk, gate>> /\ settled \in SUBSET Gens
      /\ ContentTypeOK /\ FilesOk /\ SettledOk
      /\ Len(job.todo) <= Len(Outputs[g])
  BY <1>0 DEF WriteOutput, ContentInv, ContentTypeOK, JobOk
<1>2. /\ file \in Range(Outputs[g]) /\ Tail(job.todo) \in Seq(Range(Outputs[g]))
      /\ Range(job.todo) = {file} \cup Range(Tail(job.todo)) /\ Len(job.todo) \in Nat
      /\ Len(job.todo) > 1 => Tail(job.todo) # <<>>
      /\ ~(Len(job.todo) > 1) => Range(job.todo) = {file}
  BY <1>1, HeadAndTail
<1>. HIDE DEF file
<1>3. FilesOk' /\ doc'[file] = job.made /\ \A f \in Files \ {file} : doc'[f] = doc[f]
  BY <1>1, <1>2, OutputsAreFiles, WriteKeepsDoc
<1>4. \A h \in settled \ {g} : Grounded(h)' /\ \A f \in Range(Outputs[h]) : doc'[f] = Ideal(h)'
  BY <1>1, <1>2, <1>3, OthersKeep
<1>5. job.clean =>
        /\ Needs[g] \subseteq settled /\ Grounded(g)' /\ job.made = Ideal(g)'
        /\ \A f \in Range(Outputs[g]) : f \in Range(job.todo) \/ doc[f] = job.made
  BY <1>1, IdealSame DEF ContentInv, CleanOk
<1>6. ~job.clean => settled = {} \/ (g \in {"bonus", "bosses"} /\ g \notin settled)
  BY <1>1 DEF ContentInv, UncleanOk, Gens
\* What is settled stays so: the one that runs writes again what is there.
<1>7. \A h \in settled : Grounded(h)' /\ \A f \in Range(Outputs[h]) : doc'[f] = Ideal(h)'
  <2>1. ASSUME g \in settled PROVE Grounded(g)' /\ \A f \in Range(Outputs[g]) : doc'[f] = Ideal(g)'
    <3>1. job.clean
      BY <1>6, <2>1
    <3>2. \A f \in Range(Outputs[g]) : doc[f] = Ideal(g)'
      BY <1>1, <2>1, IdealSame DEF SettledOk
    <3>. QED  BY <1>1, <1>3, <1>5, <3>1, <3>2, OutputsAreFiles
  <2>. QED  BY <1>4, <2>1
<1>8. "bosses" \in settled => "frames" \in settled \/ doc'["frames"].hand = "torn" \/ (g = "frames" /\ job.clean)
  <2>. SUFFICES ASSUME "bosses" \in settled, "frames" \notin settled, ~(g = "frames" /\ job.clean)
                PROVE  doc'["frames"].hand = "torn"
    OBVIOUS
  <2>1. doc["frames"].hand = "torn"
    BY <1>1 DEF SettledOk
  <2>2. g # "frames"
    BY <1>6
  <2>3. file # "frames" /\ "frames" \in Files
    BY <1>1, <1>2, <2>2, OutputFacts, OwnersDiffer, FilesAre DEF Gens
  <2>. QED  BY <1>3, <2>1, <2>3
<1>9. CASE Len(job.todo) > 1
  <2>1. job' = [job EXCEPT !.todo = Tail(@)] /\ settled' = settled
    BY <1>1, <1>9
  <2>2. /\ job'.gen = g /\ job'.todo = Tail(job.todo) /\ job'.made = job.made /\ job'.clean = job.clean
        /\ job' = [gen |-> job'.gen, todo |-> job'.todo, made |-> job'.made, copied |-> job'.copied, clean |-> job'.clean]
    <3>1. job = [gen |-> job.gen, todo |-> job.todo, made |-> job.made, copied |-> job.copied, clean |-> job.clean]
      BY DEF ContentInv, JobOk
    <3>. QED  BY <1>1, <2>1, <3>1
  <2>3. JobOk'
    <3>1. Len(Tail(job.todo)) <= Len(Outputs[g])
      <4>1. Len(Outputs[g]) \in Nat /\ Len(Tail(job.todo)) = Len(job.todo) - 1
        BY <1>1, OutputsAreSeqs
      <4>. QED  BY <1>1, <1>2, <4>1
    <3>2. job.clean \in BOOLEAN /\ g # "none"
      BY DEF ContentInv, JobOk, Gens
    <3>. QED  BY <1>1, <1>2, <1>9, <2>2, <3>1, <3>2 DEF JobOk
  <2>4. g # "frames"
    <3>1. Len(Outputs["frames"]) = 1
      BY DEF Outputs, Gens
    <3>2. ASSUME g = "frames" PROVE FALSE
      <4>1. Len(job.todo) <= 1
        BY <1>1, <3>1, <3>2
      <4>. QED  BY <1>2, <1>9, <4>1
    <3>. QED  BY <3>2
  <2>5. SettledOk'
    BY <1>1, <1>7, <1>8, <2>1, <2>4 DEF SettledOk
  <2>6. CleanOk'
    <3>. SUFFICES ASSUME job.clean PROVE CleanOk'
      BY <2>2 DEF CleanOk
    <3>1. \A f \in Range(Outputs[g]) : f \in Range(Tail(job.todo)) \/ doc'[f] = job.made
      BY <1>1, <1>2, <1>3, <1>5, OutputsAreFiles
    <3>. QED  BY <1>1, <1>5, <2>1, <2>2, <3>1 DEF CleanOk
  <2>7. UncleanOk'
    BY <1>6, <2>1, <2>2 DEF UncleanOk
  <2>8. GateOk' /\ gate' \in Gates
    BY <1>1, BusyGate DEF Gens
  <2>. QED  BY <1>1, <1>3, <2>1, <2>3, <2>5, <2>6, <2>7, <2>8 DEF ContentInv, ContentTypeOK
<1>10. CASE ~(Len(job.todo) > 1)
  <2>1. job' = Idle /\ settled' = (IF job.clean THEN settled \cup {g} ELSE settled)
    BY <1>1, <1>10
  <2>2. job.clean => Grounded(g)' /\ \A f \in Range(Outputs[g]) : doc'[f] = Ideal(g)'
    BY <1>1, <1>2, <1>3, <1>5, <1>10, OutputsAreFiles
  <2>3. \A h \in settled' : Grounded(h)' /\ \A f \in Range(Outputs[h]) : doc'[f] = Ideal(h)'
    BY <1>7, <2>1, <2>2
  <2>4. SettledOk'
    <3>1. "bosses" \in settled' => "frames" \in settled' \/ doc'["frames"].hand = "torn"
      BY <1>1, <1>5, <1>8, <2>1, NeedsAre
    <3>2. settled' # {} => "assets" \in settled'
      BY <1>1, <1>5, <2>1, NeedsAre DEF SettledOk, Gens
    <3>3. /\ "bonus" \in settled' => "levels" \in settled'
          /\ "bosses" \in settled' => "levels" \in settled'
      BY <1>1, <1>5, <2>1, NeedsAre DEF SettledOk
    <3>. QED  BY <2>3, <3>1, <3>2, <3>3 DEF SettledOk
  <2>5. settled' \in SUBSET Gens /\ g # "none"
    BY <1>1, <2>1 DEF Gens
  <2>. QED  BY <1>1, <1>3, <2>1, <2>4, <2>5, EndInv
<1>. QED  BY <1>9, <1>10

LEMMA InterruptInv == ASSUME ContentInv, Interrupt PROVE ContentInv'
<1>1. /\ job.gen # "none" /\ job' = Idle /\ UNCHANGED <<facts, allow, tool, disk, gate>>
      /\ settled \in SUBSET Gens /\ ContentTypeOK /\ FilesOk /\ SettledOk
  BY DEF Interrupt, ContentInv, ContentTypeOK, JobOk
<1>2. CASE UNCHANGED <<doc, settled>>
  <2>1. FilesOk'
    BY <1>1, <1>2 DEF FilesOk
  <2>2. SettledOk'
    BY <1>1, <1>2, IdealSame DEF SettledOk
  <2>. QED  BY <1>1, <1>2, <2>1, <2>2, EndInv
<1>3. CASE /\ job.gen \in PlainWriters
           /\ doc' = [doc EXCEPT ![Head(job.todo)].hand = "torn"]
           /\ settled' = settled \ {job.gen}
  <2>1. PICK g \in PlainWriters : g = job.gen
    BY <1>3
  <2>2. g \in Gens \ {"assets", "levels"}
    BY DEF PlainWriters, Gens
  <2>3. PICK file \in Range(Outputs[g]) : file = Head(job.todo)
    <3>1. job.todo \in Seq(Range(Outputs[g])) /\ job.todo # <<>>
      BY <2>1, <2>2 DEF ContentInv, JobOk
    <3>. QED  BY <3>1, HeadAndTail
  <2>4. file \in Files
    BY <2>2, OutputsAreFiles
  <2>5. doc' = [doc EXCEPT ![file].hand = "torn"]
    BY <1>3, <2>3
  <2>6. /\ doc' = [f \in Files |-> doc'[f]] /\ \A f \in Files : IsDoc(doc'[f])
        /\ \A f \in Files \ {file} : doc'[f] = doc[f]
        /\ doc'[file].hand = "torn"
    BY <1>1, <2>4, <2>5, HandKeepsDoc
  <2>7. FilesOk'
    BY <1>1, <2>6 DEF FilesOk
  <2>8. \A h \in settled' : Grounded(h)' /\ \A f \in Range(Outputs[h]) : doc'[f] = Ideal(h)'
    BY <1>1, <1>3, <2>1, <2>2, <2>6, OthersKeep
  <2>9. "frames" \in settled \/ doc["frames"].hand = "torn" => "frames" \in settled' \/ doc'["frames"].hand = "torn"
    <3>1. CASE g = "frames"
      BY <2>6, <3>1, OutputFacts
    <3>2. CASE g # "frames"
      <4>1. file # "frames"
        BY <2>2, <3>2, OutputFacts, OwnersDiffer DEF Gens
      <4>. QED  BY <1>3, <2>1, <2>6, <3>2, <4>1, FilesAre
    <3>. QED  BY <3>1, <3>2
  <2>10. SettledOk'
    <3>1. \A h \in {"assets", "levels"} : h \in settled => h \in settled'
      BY <1>3, <2>1, <2>2
    <3>2. settled' \subseteq settled
      BY <1>3
    <3>. QED  BY <1>1, <2>8, <2>9, <3>1, <3>2 DEF SettledOk
  <2>11. settled' \in SUBSET Gens
    BY <1>1, <1>3
  <2>. QED  BY <1>1, <2>7, <2>10, <2>11, EndInv
<1>. QED  BY <1>2, <1>3 DEF Interrupt

----------------------------------------------------------------------------
(* The gate. *)

\* The gate reads and changes nothing but its own state.
LEMMA GateKeeps ==
    ASSUME ContentInv, UNCHANGED <<facts, allow, tool, disk, doc, job, settled>>, gate' \in Gates, GateOk'
    PROVE  ContentInv'
<1>1. ContentTypeOK' /\ JobOk'
  BY DEF ContentInv, ContentTypeOK, FilesOk, JobOk
<1>2. SettledOk'
  BY IdealSame DEF ContentInv, SettledOk
<1>3. CleanOk'
  <2>. SUFFICES ASSUME job.clean PROVE CleanOk'
    BY DEF CleanOk
  <2>1. job.gen = "assets" =>
             Range(job.todo) \cup job.copied = allow /\ \A a \in job.copied : disk[a] = "retail"
    BY DEF ContentInv, CleanOk
  <2>2. PICK g : g = job.gen
    OBVIOUS
  <2>3. g \in Gens \ {"assets"} =>
             /\ Needs[g] \subseteq settled /\ Grounded(g)' /\ job.made = Ideal(g)'
             /\ \A file \in Range(Outputs[g]) : file \in Range(job.todo) \/ doc[file] = job.made
    BY <2>2, IdealSame DEF ContentInv, CleanOk
  <2>4. job'.gen = g
    BY <2>2
  <2>. QED  BY <2>1, <2>2, <2>3, <2>4 DEF CleanOk
<1>4. UncleanOk'
  BY DEF ContentInv, UncleanOk
<1>. QED  BY <1>1, <1>2, <1>3, <1>4 DEF ContentInv

LEMMA GateStartInv == ASSUME ContentInv, GateStart PROVE ContentInv'
<1>1. /\ gate' = [step |-> 1, state |-> "runs", quiet |-> TRUE, settled |-> settled = Gens]
      /\ UNCHANGED <<facts, allow, tool, disk, doc, job, settled>> /\ job.gen = "none"
  BY IdleOrBusy DEF GateStart
<1>2. gate'.step = 1 /\ gate'.state = "runs" /\ (gate'.settled => settled = Gens)
  BY <1>1
<1>3. gate' \in Gates
  BY <1>1 DEF Gates
<1>4. GateOk'
  BY <1>1, <1>2 DEF GateOk
<1>. QED  BY <1>1, <1>3, <1>4, GateKeeps

LEMMA GateStepInv == ASSUME ContentInv, GateStep PROVE ContentInv'
<1>1. /\ gate.state = "runs" /\ gate \in Gates /\ gate.step \in 1..9 /\ job.gen = "none"
      /\ UNCHANGED <<facts, allow, tool, disk, doc, job, settled>>
      /\ gate.quiet => /\ \A i \in 1..9 : i < gate.step => StepPasses(GateSteps[i])
                       /\ gate.settled => settled = Gens
  BY DEF GateStep, ContentInv, ContentTypeOK, GateOk
<1>2. Len(GateSteps) = 9
  BY DEF GateSteps
<1>3. CASE ~StepPasses(GateSteps[gate.step])
  <2>1. gate' = [gate EXCEPT !.state = "refused"]
    BY <1>3 DEF GateStep
  <2>2. /\ gate' \in Gates /\ gate'.state = "refused" /\ gate'.step = gate.step
        /\ gate'.quiet = gate.quiet /\ gate'.settled = gate.settled
    BY <1>1, <2>1 DEF Gates
  <2>3. GateOk'
    BY <1>1, <1>3, <2>2, VerdictSame DEF GateOk
  <2>. QED  BY <1>1, <2>2, <2>3, GateKeeps
<1>4. CASE StepPasses(GateSteps[gate.step]) /\ gate.step = 9
  <2>1. gate' = [gate EXCEPT !.state = "passed"]
    BY <1>2, <1>4 DEF GateStep
  <2>2. /\ gate' \in Gates /\ gate'.state = "passed" /\ gate'.step = 9
        /\ gate'.quiet = gate.quiet /\ gate'.settled = gate.settled
    BY <1>1, <1>4, <2>1 DEF Gates
  <2>3. gate.quiet => \A i \in 1..9 : StepPasses(GateSteps[i])
    BY <1>1, <1>4
  <2>4. GateOk'
    BY <1>1, <2>2, <2>3, VerdictSame DEF GateOk
  <2>. QED  BY <1>1, <2>2, <2>4, GateKeeps
<1>5. CASE StepPasses(GateSteps[gate.step]) /\ gate.step # 9
  <2>1. gate' = [gate EXCEPT !.step = @ + 1]
    BY <1>2, <1>5 DEF GateStep
  <2>2. /\ gate' \in Gates /\ gate'.state = "runs" /\ gate'.step = gate.step + 1 /\ gate'.step \in 1..9
        /\ gate'.quiet = gate.quiet /\ gate'.settled = gate.settled
    BY <1>1, <1>5, <2>1 DEF Gates
  <2>3. gate.quiet => \A i \in 1..9 : i < gate.step + 1 => StepPasses(GateSteps[i])
    BY <1>1, <1>5
  <2>4. GateOk'
    BY <1>1, <2>2, <2>3, VerdictSame DEF GateOk
  <2>. QED  BY <1>1, <2>2, <2>4, GateKeeps
<1>. QED  BY <1>3, <1>4, <1>5

----------------------------------------------------------------------------

LEMMA ContentStarts == ContentInit => ContentInv
<1>. SUFFICES ASSUME ContentInit PROVE ContentInv
  OBVIOUS
<1>. DEFINE made == [g \in Gens |->
                       CASE g = "assets"       -> Made("assets", 1, [facts |-> 0, allow |-> allow, assets |-> allow])
                         [] g = "presentation" -> Made(g, 2, [manifest |-> Made("assets", 1, [facts |-> 0, allow |-> allow, assets |-> allow])])
                         [] g = "paths"        -> Made(g, 1, [paths |-> {"retail"}])
                         [] g = "frames"       -> Made(g, 11, [sheet |-> "retail"])
                         [] g = "levels"       -> Made(g, 10, [levels |-> "retail"])
                         [] g = "trial"        -> Made(g, 1, [levels |-> "retail"])
                         [] g = "bonus"        -> Made(g, 1, [aliases |-> ModeThreeLevels(10)])
                         [] g = "bosses"       -> Made(g, 5, [bosses |-> BossLevels(10)])]
            owner(file) == CHOOSE g \in Gens : file \in Range(Outputs[g])
<1>1. /\ facts = [rev |-> 0, sound |-> TRUE] /\ allow = Assets \ {"path2"} /\ tool = [g \in Gens |-> 0]
      /\ disk = [a \in Assets |-> IF a \in allow THEN "retail" ELSE "none"]
      /\ doc = [file \in Files |-> made[owner(file)]]
      /\ job = Idle /\ gate = NoGate /\ settled = Gens
  BY DEF ContentInit
<1>2. /\ disk \in [Assets -> {"none", "edited", "retail"}] /\ \A a \in allow : disk[a] = "retail"
      /\ disk["path2"] = "none" /\ disk["path"] = "retail" /\ disk["level"] = "retail" /\ disk["sheet"] = "retail"
      /\ {"sheet", "sound"} \subseteq allow
  BY <1>1 DEF Assets
<1>3. facts.rev = 0 /\ facts.sound = TRUE
  BY <1>1
<1>4. {q \in {"path", "path2"} : disk[q] # "none"} = {"path"} /\ PathStates(disk) = {"retail"}
  BY <1>2 DEF PathStates
<1>5. \A g \in Gens : made[g] = Ideal(g)
  BY <1>2, <1>3, <1>4, IdealMade DEF Gens
<1>6. \A g \in Gens : Grounded(g)
  <2>1. Cardinality({"path"}) = 1
    BY FS_Singleton
  <2>. QED  BY <1>2, <1>3, <1>4, <2>1 DEF Grounded, GroundsOf
<1>. HIDE DEF made
<1>7. \A file \in Files : owner(file) \in Gens /\ file \in Range(Outputs[owner(file)])
  BY DEF Files
<1>8. \A g \in Gens : \A file \in Range(Outputs[g]) : owner(file) = g
  <2>1. TAKE g \in Gens
  <2>2. TAKE file \in Range(Outputs[g])
  <2>3. owner(file) \in Gens /\ file \in Range(Outputs[owner(file)])
    BY <1>7, OutputsAreFiles
  <2>. HIDE DEF owner
  <2>. QED  BY <2>3, OwnersDiffer
<1>. HIDE DEF owner
<1>9. \A g \in Gens : \A file \in Range(Outputs[g]) : doc[file] = Ideal(g)
  BY <1>1, <1>5, <1>8, OutputsAreFiles
<1>10. ContentTypeOK
  <2>1. doc = [file \in Files |-> doc[file]]
    BY <1>1
  <2>2. \A file \in Files : IsDoc(doc[file])
    BY <1>1, <1>5, <1>7, IdealIsDoc
  <2>3. gate \in Gates
    BY <1>1 DEF Gates, NoGate
  <2>4. facts \in [rev : Nat, sound : BOOLEAN] /\ tool \in [Gens -> Nat] /\ allow \in SUBSET Assets
    BY <1>1
  <2>. QED  BY <1>1, <1>2, <2>1, <2>2, <2>3, <2>4 DEF ContentTypeOK, FilesOk
<1>11. SettledOk
  BY <1>1, <1>6, <1>9 DEF SettledOk, Gens
<1>12. job.gen = "none" /\ job.clean = FALSE
  BY <1>1 DEF Idle
<1>13. JobOk
  BY <1>1, <1>12 DEF JobOk, Idle, Gens
<1>14. CleanOk /\ UncleanOk
  BY <1>12 DEF CleanOk, UncleanOk
<1>15. GateOk
  BY <1>1 DEF GateOk, NoGate
<1>. QED  BY <1>10, <1>11, <1>13, <1>14, <1>15 DEF ContentInv

LEMMA ContentSteps == ContentInv /\ [ContentNext]_contentVars => ContentInv'
<1>. SUFFICES ASSUME ContentInv, [ContentNext]_contentVars PROVE ContentInv'
  OBVIOUS
<1>1. CASE UNCHANGED contentVars
  <2>1. UNCHANGED <<facts, allow, tool, disk, doc, job, settled, gate>>
    BY <1>1 DEF contentVars
  <2>2. gate' \in Gates
    BY <2>1 DEF ContentInv, ContentTypeOK
  <2>3. GateOk'
    BY <2>1, VerdictSame DEF ContentInv, GateOk
  <2>. QED  BY <2>1, <2>2, <2>3, GateKeeps
<1>2. CASE EditFacts \/ EditAllowlist \/ ReviseTool \/ EditAsset \/ EditFile \/ CheckOutOlder
  BY <1>2, EditsInv
<1>3. CASE StartAssets \/ CopyAsset \/ WriteManifest
  BY <1>3, StartAssetsInv, CopyAssetInv, WriteManifestInv
<1>4. CASE StartGenerator \/ WriteOutput \/ Interrupt
  BY <1>4, StartGeneratorInv, WriteOutputInv, InterruptInv
<1>5. CASE GateStart \/ GateStep
  BY <1>5, GateStartInv, GateStepInv
<1>. QED  BY <1>1, <1>2, <1>3, <1>4, <1>5 DEF ContentNext

(***************************************************************************)
(* Whatever is edited, revised or interrupted: a generator that has run to *)
(* the end after those it reads has written what it would write now, and   *)
(* what make verify has found stays true until something changes.          *)
(***************************************************************************)
THEOREM ContentInvariance == ContentSpec => []ContentInv
<1>. QED  BY ContentStarts, ContentSteps, PTL DEF ContentSpec

(***************************************************************************)
(* What make verify lets through is what the generators would write now,   *)
(* and no asset is on the disk that is not on the allowlist.               *)
(***************************************************************************)
THEOREM VerifiedIsFresh == ContentSpec => []VerifyMeansFresh
<1>1. ContentInv => VerifyMeansFresh
  <2>. SUFFICES ASSUME ContentInv, gate.state = "passed", gate.quiet
                PROVE  (\A g \in Gens : Current(g)) /\ Present = allow /\ \A a \in allow : disk[a] = "retail"
    BY DEF VerifyMeansFresh
  <2>1. \A i \in 1..9 : StepPasses(GateSteps[i])
    BY DEF ContentInv, GateOk
  <2>2. \A step \in {"assets", "presentation", "content", "trial", "paths", "frames", "bonus", "bosses", "levels"} :
          \E i \in 1..9 : GateSteps[i] = step
    <3>1. /\ GateSteps[1] = "assets" /\ GateSteps[2] = "presentation" /\ GateSteps[3] = "content"
          /\ GateSteps[4] = "trial" /\ GateSteps[5] = "paths" /\ GateSteps[6] = "frames"
          /\ GateSteps[7] = "bonus" /\ GateSteps[8] = "bosses" /\ GateSteps[9] = "levels"
      BY DEF GateSteps
    <3>. QED  BY <3>1
  <2>3. AssetsCurrent /\ ContentValid
    BY <2>1, <2>2 DEF StepPasses
  <2>4. \A g \in Gens : Current(g)
    <3>1. \A g \in Gens \ {"assets"} : StepPasses(g) /\ g # "content"
      BY <2>1, <2>2 DEF Gens
    <3>. QED  BY <2>3, <3>1 DEF StepPasses, AssetsCurrent
  <2>5. doc["manifest"] = ManifestOf(allow) /\ ManifestOf(allow) # Refused
    BY <2>3, OutputFacts, BuiltIs DEF AssetsCurrent, Current
  <2>6. doc["manifest"].from.assets = allow
    BY <2>5 DEF ManifestOf, Unless, Made
  <2>7. Present = allow
    BY <2>3, <2>6 DEF ContentValid, ManifestHolds
  <2>. QED  BY <2>3, <2>4, <2>7 DEF AssetsCurrent
<1>. QED  BY <1>1, ContentInvariance, PTL

\* Every check passes when every generator is settled and no other asset is there.
LEMMA SettledPasses ==
    ASSUME ContentTypeOK, SettledOk, settled = Gens, Present \subseteq allow, NEW i \in 1..9
    PROVE  StepPasses(GateSteps[i])
<1>1. \A g \in Gens : Built(g) = Ideal(g) /\ Grounded(g) /\ Ideal(g) # Refused
  <2>1. \A g \in Gens : Needs[g] \subseteq Gens
    BY NeedsAre DEF Gens
  <2>2. Readable("levels")
    BY LevelsAre DEF Gens
  <2>. QED  BY <2>1, <2>2, BuiltIsIdeal, IdealIsWritten DEF SettledOk
<1>2. \A g \in Gens : Current(g)
  BY <1>1 DEF Current, SettledOk
<1>3. AssetsCurrent
  BY <1>2, ManifestIs DEF AssetsCurrent, Gens
<1>4. ManifestHolds
  <2>1. Present = allow
    BY ManifestIs DEF Present, ContentTypeOK, FilesOk, Gens
  <2>. QED  BY <2>1, ManifestIs DEF ManifestHolds, ContentTypeOK, FilesOk, Gens
<1>5. ContentValid
  <2>1. \A g \in Gens : \A file \in Range(Outputs[g]) : doc[file] = Ideal(g) /\ doc[file].hand = "no"
    BY IdealIsDoc DEF SettledOk
  <2>2. \A file \in {"levels", "frames", "bosses", "trial", "paths", "bonus"} : doc[file].hand \notin {"rule", "torn"}
    BY <2>1, OutputFacts DEF Gens
  <2>3. FramesOf # Refused /\ doc["paths"] = PathsOf /\ doc["bonus"] = BonusOf
    BY <1>1, <2>1, OutputFacts, BuiltIs DEF Gens
  <2>4. doc["levels"].version = 10 /\ doc["frames"].version = 11 /\ facts.sound
    BY LevelsAre, FramesAre DEF Gens
  <2>5. doc["bosses"].version = 5 /\ BossesOf # Refused /\ BossesOf.version = 5
    BY <1>1, <2>1, OutputFacts, BuiltIs, IdealMade DEF Gens, Made
  <2>6. VersionsPass(10, 11, 5, 1, 11, 5)
    <3>1. Companions[10] = [bosses |-> 5, ordnance |-> 1, frames |-> 11]
      BY DEF Companions
    <3>. QED  BY <3>1 DEF VersionsPass, VersionsAgree
  <2>. QED  BY <1>4, <2>2, <2>3, <2>4, <2>5, <2>6 DEF ContentValid
<1>6. GateSteps[i] \in {"assets", "content"} \cup Gens
  BY DEF GateSteps, Gens
<1>. QED  BY <1>2, <1>3, <1>5, <1>6 DEF StepPasses

(***************************************************************************)
(* Run to the end in order, the generators satisfy make verify, except for *)
(* an asset that is no longer on the allowlist.                            *)
(***************************************************************************)
THEOREM RegeneratedPasses == ContentSpec => []RegenerateConverges
<1>1. ContentInv => RegenerateConverges
  <2>. SUFFICES ASSUME ContentInv, gate.state = "refused", gate.quiet, gate.settled, Present \subseteq allow
                PROVE  FALSE
    BY DEF RegenerateConverges
  <2>1. settled = Gens /\ gate.step \in 1..9 /\ ~StepPasses(GateSteps[gate.step])
    BY DEF ContentInv, GateOk
  <2>. QED  BY <2>1, SettledPasses DEF ContentInv
<1>. QED  BY <1>1, ContentInvariance, PTL
=============================================================================
