---------------------------- MODULE EngineDaemon ----------------------------
(***************************************************************************)
(* The engine daemon of a repository: src/sot_graph/engine_daemon.py.      *)
(* Clients look for a daemon behind daemon.sock, start one when there is   *)
(* none, send one request per connection and give up to the cold spawn on  *)
(* any failure.  A daemon owns one engine session over a pipe and answers  *)
(* one connection after the other.  Daemons unlink each other's files,     *)
(* engines die, clients lose patience.                                     *)
(***************************************************************************)
EXTENDS Naturals, Sequences

CONSTANTS
    Clients,     \* processes that call daemon_tool_call
    Daemons,     \* processes that can be spawned; bound: no more than these
    NoDaemon,    \* no such file, no such process
    MaxCalls,    \* bound: calls of one client
    MaxFaults    \* bound: crashes, hangs, failed starts, reused pids, lines of noise

ASSUME DaemonsAssumption == NoDaemon \notin Daemons
ASSUME BoundsAssumption == MaxCalls \in Nat /\ MaxFaults \in Nat

VARIABLES
    sock,      \* the daemon that bound daemon.sock last, unless it was unlinked
    pidfile,   \* the daemon daemon.pid names
    dpc,       \* dpc[d]: where daemon d is
    backlog,   \* backlog[d]: connections d has not accepted
    serving,   \* serving[d]: the request d works on, and whether it is the retry
    session,   \* session[d]: d's engine and the pipe to it
    cpc,       \* cpc[c]: where client c is
    calls,     \* calls[c]: how many calls c has made
    attempt,   \* attempt[c]: of the current call, 0 or 1
    child,     \* child[c]: the daemon c spawned in this call
    inbox,     \* inbox[c]: what came back on c's connection
    executed,  \* executed[c]: how often daemons' engines ran the current call
    faults

files  == <<sock, pidfile>>
daemon == <<dpc, backlog, serving, session>>
client == <<cpc, calls, attempt, child, inbox>>
vars == <<files, daemon, client, executed, faults>>

\* A connection: of a client's call and attempt. (A probe connects, sends nothing
\* and gets an error nobody reads; it leaves no trace here.)
Requests == [of : Clients, call : 0..MaxCalls, attempt : {0, 1}]

Nothing == [nothing |-> TRUE]
Noise == [noise |-> TRUE]
Failed == [failed |-> TRUE]

\* A request on its way to an engine and the answer to it carry the same id.
ToolCalls == [id : Nat, answers : Requests]
Lines == ToolCalls \cup {Noise}

DaemonPoints == {"off", "boot", "bind", "start", "serve", "handle", "restart", "wait",
                 "unlinksock", "unlinkpid", "gone"}
ClientPoints == {"idle", "connect", "reply", "probe", "pid", "write", "await"}

\* engine: whether the child runs; jammed: whether it hangs in the middle of a line
\* or with its stdin full; todo: what it was sent; out: the pipe; held: lines the
\* reader took off the pipe and has not looked at.
Sessions ==
    [engine : BOOLEAN, jammed : BOOLEAN, id : Nat,
     todo : Seq(ToolCalls), out : Seq(Lines), held : Seq(Lines)]

NoEngine ==
    [engine |-> FALSE, jammed |-> FALSE, id |-> 0, todo |-> <<>>, out |-> <<>>, held |-> <<>>]

\* The type invariant of the module.
TypeOK ==
    /\ sock \in Daemons \cup {NoDaemon} /\ pidfile \in Daemons \cup {NoDaemon}
    /\ dpc \in [Daemons -> DaemonPoints]
    /\ backlog \in [Daemons -> Seq(Requests)]
    /\ serving \in [Daemons -> [request : Requests \cup {Nothing}, retried : BOOLEAN]]
    /\ session \in [Daemons -> Sessions]
    /\ cpc \in [Clients -> ClientPoints]
    /\ calls \in [Clients -> 0..MaxCalls] /\ attempt \in [Clients -> {0, 1}]
    /\ child \in [Clients -> Daemons \cup {NoDaemon}]
    /\ inbox \in [Clients -> Requests \cup {Nothing, Failed}]
    /\ executed \in [Clients -> Nat] /\ faults \in 0..MaxFaults

Init ==
    /\ sock = NoDaemon /\ pidfile = NoDaemon
    /\ dpc = [d \in Daemons |-> "off"]
    /\ backlog = [d \in Daemons |-> <<>>]
    /\ serving = [d \in Daemons |-> [request |-> Nothing, retried |-> FALSE]]
    /\ session = [d \in Daemons |-> NoEngine]
    /\ cpc = [c \in Clients |-> "idle"]
    /\ calls = [c \in Clients |-> 0] /\ attempt = [c \in Clients |-> 0]
    /\ child = [c \in Clients |-> NoDaemon]
    /\ inbox = [c \in Clients |-> Nothing]
    /\ executed = [c \in Clients |-> 0]
    /\ faults = 0

-----------------------------------------------------------------------------
(* Parts of steps *)

Fault == faults < MaxFaults /\ faults' = faults + 1

Alive(d) == dpc[d] \notin {"off", "gone"}

\* A connect() to daemon.sock succeeds.
Reachable == sock # NoDaemon /\ dpc[sock] \notin {"off", "boot", "bind", "gone"}

\* d writes to its engine or reads a line from it, handshakes included, and the
\* engine hangs: neither _send nor readline() has a deadline.
Blocked(d) == session[d].jammed /\ dpc[d] \in {"start", "handle", "restart", "wait"}

ClientTo(c, where) == cpc' = [cpc EXCEPT ![c] = where]

DaemonTo(d, where) == dpc' = [dpc EXCEPT ![d] = where]

Request(c) == [of |-> c, call |-> calls[c], attempt |-> attempt[c]]

\* daemon_tool_call returns: the answer, or None for the cold spawn.
Return(c) ==
    /\ ClientTo(c, "idle")
    /\ inbox' = [inbox EXCEPT ![c] = Nothing]
    /\ child' = [child EXCEPT ![c] = NoDaemon]
    /\ attempt' = [attempt EXCEPT ![c] = 0]
    /\ executed' = [executed EXCEPT ![c] = 0]
    /\ UNCHANGED calls

\* Mutant: the second attempt does not use itself up.
MutantRetryForever(c) ==
    /\ ClientTo(c, "probe")
    /\ UNCHANGED <<calls, attempt, child, inbox, executed>>

\* An exchange failed: the first time the daemon is ensured, then None.
Retry(c) ==
    \/ /\ attempt[c] = 0
       /\ ClientTo(c, "probe")
       /\ UNCHANGED <<calls, attempt, child, inbox, executed>>
    \/ /\ attempt[c] = 1
       /\ Return(c)

\* _ensure_daemon returned True.
Ensured(c) ==
    /\ attempt' = [attempt EXCEPT ![c] = 1]
    /\ child' = [child EXCEPT ![c] = NoDaemon]
    /\ ClientTo(c, "connect")
    /\ UNCHANGED <<calls, inbox, executed>>

-----------------------------------------------------------------------------
(* daemon_tool_call *)

Call(c) ==
    /\ cpc[c] = "idle"
    /\ calls[c] < MaxCalls
    /\ calls' = [calls EXCEPT ![c] = @ + 1]
    /\ ClientTo(c, "connect")
    /\ UNCHANGED <<files, daemon, attempt, child, inbox, executed, faults>>

Connect(c) ==
    /\ cpc[c] = "connect"
    /\ Reachable
    /\ backlog' = [backlog EXCEPT ![sock] = Append(@, Request(c))]
    /\ ClientTo(c, "reply")
    /\ UNCHANGED <<files, dpc, serving, session, calls, attempt, child, inbox, executed, faults>>

ConnectFails(c) ==
    /\ cpc[c] = "connect"
    /\ ~Reachable
    /\ Retry(c)
    /\ UNCHANGED <<files, daemon, faults>>

\* One line arrived, ok or not.
Answered(c) ==
    /\ cpc[c] = "reply"
    /\ inbox[c] # Nothing
    /\ Return(c)
    /\ UNCHANGED <<files, daemon, faults>>

\* The connection is somewhere: queued, or being served.
Pending(c) ==
    \E d \in Daemons :
        /\ Alive(d)
        /\ \/ serving[d].request = Request(c)
           \/ \E n \in DOMAIN backlog[d] : backlog[d][n] = Request(c)

\* The daemon went away: an orderly close returns at once, a reset is retried.
HangUp(c) ==
    /\ cpc[c] = "reply"
    /\ inbox[c] = Nothing
    /\ ~Pending(c)
    /\ Return(c) \/ Retry(c)
    /\ UNCHANGED <<files, daemon, faults>>

\* max(timeout_s, 30) is over; the daemon does not learn of it.
LosePatience(c) ==
    /\ cpc[c] = "reply"
    /\ inbox[c] = Nothing
    /\ Retry(c)
    /\ UNCHANGED <<files, daemon, faults>>

\* _ensure_daemon: is there a socket that answers?
ProbeSocket(c) ==
    /\ cpc[c] = "probe"
    /\ IF Reachable THEN Ensured(c)
       ELSE ClientTo(c, "pid") /\ UNCHANGED <<calls, attempt, child, inbox, executed>>
    /\ UNCHANGED <<files, daemon, faults>>

\* _daemon_alive: the pid in the file is some process's, maybe a stranger's.
TrustPid(c) ==
    /\ cpc[c] = "pid"
    /\ pidfile # NoDaemon
    /\ \/ Alive(pidfile) /\ UNCHANGED faults
       \/ ~Alive(pidfile) /\ Fault
    /\ Ensured(c)
    /\ UNCHANGED <<files, daemon>>

\* No process has it: start a daemon.
Spawn(c) ==
    /\ cpc[c] = "pid"
    /\ pidfile \notin {d \in Daemons : Alive(d)}
    /\ \/ \E d \in Daemons :
             /\ dpc[d] = "off"
             /\ DaemonTo(d, "boot")
             /\ child' = [child EXCEPT ![c] = d]
             /\ ClientTo(c, "write")
             /\ UNCHANGED <<calls, attempt, inbox, executed>>
       \/ /\ \A d \in Daemons : dpc[d] # "off"
          /\ Return(c)
          /\ UNCHANGED dpc
    /\ UNCHANGED <<files, backlog, serving, session, faults>>

WritePid(c) ==
    /\ cpc[c] = "write"
    /\ pidfile' = child[c]
    /\ ClientTo(c, "await")
    /\ UNCHANGED <<sock, daemon, calls, attempt, child, inbox, executed, faults>>

\* Whoever answers behind the socket is good enough.
SocketAppears(c) ==
    /\ cpc[c] = "await"
    /\ Reachable
    /\ Ensured(c)
    /\ UNCHANGED <<files, daemon, faults>>

\* The child exited, or the 12 seconds are over.
StartFails(c) ==
    /\ cpc[c] = "await"
    /\ Return(c)
    /\ UNCHANGED <<files, daemon, faults>>

-----------------------------------------------------------------------------
(* run_daemon *)

\* No engine command resolves: the finally clause runs, though nothing was bound.
NoCommand(d) ==
    /\ dpc[d] = "boot"
    /\ Fault
    /\ DaemonTo(d, "unlinksock")
    /\ UNCHANGED <<files, backlog, serving, session, client, executed>>

UnlinkStale(d) ==
    /\ dpc[d] = "boot"
    /\ sock' = NoDaemon
    /\ DaemonTo(d, "bind")
    /\ UNCHANGED <<pidfile, backlog, serving, session, client, executed, faults>>

Bind(d) ==
    /\ dpc[d] = "bind"
    /\ \/ sock = NoDaemon /\ sock' = d /\ DaemonTo(d, "start")
       \/ sock # NoDaemon /\ DaemonTo(d, "unlinksock") /\ UNCHANGED sock
    /\ UNCHANGED <<pidfile, backlog, serving, session, client, executed, faults>>

\* A fresh engine process: id 1 went into the handshake.
Fresh == [NoEngine EXCEPT !.engine = TRUE, !.id = 1]

StartEngine(d) ==
    /\ dpc[d] = "start"
    /\ ~Blocked(d)
    /\ \/ /\ session' = [session EXCEPT ![d] = Fresh]
          /\ DaemonTo(d, "serve")
          /\ UNCHANGED faults
       \/ /\ Fault
          /\ DaemonTo(d, "unlinksock")
          /\ UNCHANGED session
    /\ UNCHANGED <<files, backlog, serving, client, executed>>

\* The next connection.
Accept(d) ==
    /\ dpc[d] = "serve"
    /\ backlog[d] # <<>>
    /\ backlog' = [backlog EXCEPT ![d] = Tail(@)]
    /\ serving' = [serving EXCEPT ![d] = [request |-> Head(backlog[d]), retried |-> FALSE]]
    /\ DaemonTo(d, "handle")
    /\ UNCHANGED <<files, session, client, executed, faults>>

\* The line to the client; nobody reads it when the client has left.
Respond(d, payload) ==
    LET r == serving[d].request IN
    /\ inbox' = IF cpc[r.of] = "reply" /\ Request(r.of) = r
                THEN [inbox EXCEPT ![r.of] = payload] ELSE inbox
    /\ serving' = [serving EXCEPT ![d] = [request |-> Nothing, retried |-> FALSE]]
    /\ DaemonTo(d, "serve")

\* Mutant: the call is tried again until it succeeds.
MutantFailsOnlyToRetry(d) ==
    /\ serving' = [serving EXCEPT ![d].retried = TRUE]
    /\ DaemonTo(d, "restart")
    /\ UNCHANGED inbox

\* The call raised: one restart, then an error.
CallFails(d) ==
    \/ /\ ~serving[d].retried
       /\ serving' = [serving EXCEPT ![d].retried = TRUE]
       /\ DaemonTo(d, "restart")
       /\ UNCHANGED inbox
    \/ /\ serving[d].retried
       /\ Respond(d, Failed)

\* engine e with the request written to it, under the next id.
Sent(d, e) ==
    [e EXCEPT !.id = @ + 1,
              !.todo = Append(@, [id |-> e.id + 1, answers |-> serving[d].request])]

\* `if not engine.alive(): engine.restart()`, then the call. A handshake that fails
\* leaves the new child as it is, dead or alive.
CallEngine(d) ==
    /\ dpc[d] = "handle"
    /\ ~Blocked(d)
    /\ \/ /\ session' = [session EXCEPT ![d] = Sent(d, IF @.engine THEN @ ELSE Fresh)]
          /\ DaemonTo(d, "wait")
          /\ UNCHANGED <<serving, inbox, faults>>
       \/ /\ ~session[d].engine
          /\ Fault
          /\ \E e \in {NoEngine, Fresh} : session' = [session EXCEPT ![d] = e]
          /\ CallFails(d)
    /\ UNCHANGED <<files, backlog, cpc, calls, attempt, child, executed>>

\* The restart after a failure kills the engine, whatever it was doing.
RestartEngine(d) ==
    /\ dpc[d] = "restart"
    /\ ~Blocked(d)
    /\ \/ /\ session' = [session EXCEPT ![d] = Sent(d, Fresh)]
          /\ DaemonTo(d, "wait")
          /\ UNCHANGED <<serving, inbox, faults>>
       \/ /\ Fault
          /\ \E e \in {NoEngine, Fresh} : session' = [session EXCEPT ![d] = e]
          /\ CallFails(d)
    /\ UNCHANGED <<files, backlog, cpc, calls, attempt, child, executed>>

\* Mutant: any line with an id is taken for the answer.
MutantReadAnyAnswer(d) ==
    /\ dpc[d] = "wait"
    /\ session[d].engine
    /\ session[d].out # <<>>
    /\ LET lines == session[d].held \o session[d].out
           line == Head(lines) IN
       /\ session' = [session EXCEPT ![d].held = Tail(lines), ![d].out = <<>>]
       /\ IF line # Noise
          THEN Respond(d, line.answers)
          ELSE UNCHANGED <<serving, dpc, inbox>>
    /\ UNCHANGED <<files, backlog, cpc, calls, attempt, child, executed, faults>>

\* Mutant: the message is answered as it came, not its result.
MutantReadEnvelope(d) ==
    /\ dpc[d] = "wait"
    /\ session[d].engine
    /\ session[d].out # <<>>
    /\ LET lines == session[d].held \o session[d].out
           line == Head(lines) IN
       /\ session' = [session EXCEPT ![d].held = Tail(lines), ![d].out = <<>>]
       /\ IF line # Noise /\ line.id = session[d].id
          THEN Respond(d, line)
          ELSE UNCHANGED <<serving, dpc, inbox>>
    /\ UNCHANGED <<files, backlog, cpc, calls, attempt, child, executed, faults>>

\* select() sees the pipe only; readline() takes all of it and returns one line.
ReadLine(d) ==
    /\ dpc[d] = "wait"
    /\ ~Blocked(d)
    /\ session[d].engine
    /\ session[d].out # <<>>
    /\ LET lines == session[d].held \o session[d].out
           line == Head(lines) IN
       /\ session' = [session EXCEPT ![d].held = Tail(lines), ![d].out = <<>>]
       /\ IF line # Noise /\ line.id = session[d].id
          THEN Respond(d, line.answers)
          ELSE UNCHANGED <<serving, dpc, inbox>>
    /\ UNCHANGED <<files, backlog, cpc, calls, attempt, child, executed, faults>>

\* The engine is dead, or 600 seconds are over and select() has found nothing.
CallEnds(d) ==
    /\ dpc[d] = "wait"
    /\ ~Blocked(d)
    /\ CallFails(d)
    /\ UNCHANGED <<files, backlog, session, cpc, calls, attempt, child, executed, faults>>

\* Mutant: only the daemon whose socket is still there watches the clock.
MutantIdleExitOfOwner(d) ==
    /\ dpc[d] = "serve"
    /\ sock = d
    /\ session' = [session EXCEPT ![d] = NoEngine]
    /\ DaemonTo(d, "unlinksock")
    /\ UNCHANGED <<files, backlog, serving, client, executed, faults>>

\* 900 seconds since the last request was accepted, however long it took.
IdleExit(d) ==
    /\ dpc[d] = "serve"
    /\ session' = [session EXCEPT ![d] = NoEngine]
    /\ DaemonTo(d, "unlinksock")
    /\ UNCHANGED <<files, backlog, serving, client, executed, faults>>

\* The finally clause: whoever's files they are.
UnlinkSock(d) ==
    /\ dpc[d] = "unlinksock"
    /\ sock' = NoDaemon
    /\ DaemonTo(d, "unlinkpid")
    /\ UNCHANGED <<pidfile, backlog, serving, session, client, executed, faults>>

UnlinkPid(d) ==
    /\ dpc[d] = "unlinkpid"
    /\ pidfile' = NoDaemon
    /\ DaemonTo(d, "gone")
    /\ backlog' = [backlog EXCEPT ![d] = <<>>]
    /\ UNCHANGED <<sock, serving, session, client, executed, faults>>

-----------------------------------------------------------------------------
(* The engine, and what goes wrong *)

Execute(d) ==
    /\ session[d].engine /\ ~session[d].jammed
    /\ session[d].todo # <<>>
    /\ LET line == Head(session[d].todo)
           r == line.answers IN
       /\ session' = [session EXCEPT ![d].todo = Tail(@), ![d].out = Append(@, line)]
       /\ executed' = IF cpc[r.of] # "idle" /\ calls[r.of] = r.call
                      THEN [executed EXCEPT ![r.of] = @ + 1] ELSE executed
    /\ UNCHANGED <<files, dpc, backlog, serving, client, faults>>

\* A line on stdout that is no answer.
Chatter(d) ==
    /\ session[d].engine
    /\ Fault
    /\ session' = [session EXCEPT ![d].out = Append(@, Noise)]
    /\ UNCHANGED <<files, dpc, backlog, serving, client, executed>>

EngineDies(d) ==
    /\ session[d].engine
    /\ ~Blocked(d)
    /\ Fault
    /\ session' = [session EXCEPT ![d] = NoEngine]
    /\ UNCHANGED <<files, dpc, backlog, serving, client, executed>>

\* The engine its daemon talks to hangs: the one that runs, or the one being started.
\* (One that hangs before is this one later; one that is merely silent is timed out.)
EngineJams(d) ==
    /\ dpc[d] \in {"start", "handle", "restart", "wait"}
    /\ dpc[d] = "wait" => session[d].engine
    /\ Fault
    /\ LET e == IF session[d].engine /\ dpc[d] # "restart" THEN session[d] ELSE Fresh IN
       session' = [session EXCEPT ![d] = [e EXCEPT !.jammed = TRUE]]
    /\ UNCHANGED <<files, dpc, backlog, serving, client, executed>>

\* It gets on after all.
EngineUnjams(d) ==
    /\ session[d].jammed
    /\ session' = [session EXCEPT ![d].jammed = FALSE]
    /\ UNCHANGED <<files, dpc, backlog, serving, client, executed, faults>>

\* Or somebody kills it, and the write, the readline or the handshake raises.
JammedDies(d) ==
    /\ Blocked(d)
    /\ session' = [session EXCEPT ![d] = NoEngine]
    /\ \/ /\ dpc[d] = "start"
          /\ DaemonTo(d, "unlinksock")
          /\ UNCHANGED <<serving, inbox>>
       \/ /\ dpc[d] # "start"
          /\ CallFails(d)
    /\ UNCHANGED <<files, backlog, cpc, calls, attempt, child, executed, faults>>

\* A killed daemon leaves both files behind.
DaemonDies(d) ==
    /\ Alive(d)
    /\ Fault
    /\ DaemonTo(d, "gone")
    /\ session' = [session EXCEPT ![d] = NoEngine]
    /\ backlog' = [backlog EXCEPT ![d] = <<>>]
    /\ serving' = [serving EXCEPT ![d] = [request |-> Nothing, retried |-> FALSE]]
    /\ UNCHANGED <<files, client, executed>>

ClientStep(c) ==
    \/ Connect(c) \/ ConnectFails(c) \/ Answered(c) \/ HangUp(c) \/ LosePatience(c)
    \/ ProbeSocket(c) \/ TrustPid(c) \/ Spawn(c) \/ WritePid(c)
    \/ SocketAppears(c) \/ StartFails(c)

DaemonStep(d) ==
    \/ NoCommand(d) \/ UnlinkStale(d) \/ Bind(d) \/ StartEngine(d) \/ Accept(d) \/ CallEngine(d)
    \/ RestartEngine(d) \/ ReadLine(d) \/ CallEnds(d) \/ IdleExit(d)
    \/ UnlinkSock(d) \/ UnlinkPid(d)

Next ==
    \/ \E c \in Clients : Call(c) \/ ClientStep(c)
    \/ \E d \in Daemons :
          \/ DaemonStep(d) \/ Execute(d) \/ Chatter(d) \/ EngineDies(d) \/ DaemonDies(d)
          \/ EngineJams(d) \/ EngineUnjams(d) \/ JammedDies(d)

\* Processes that run go on. Every wait of a client has a deadline; a daemon's have
\* one too, except behind an engine that hangs: a Blocked daemon has no step here.
Fairness ==
    /\ \A c \in Clients : WF_vars(ClientStep(c))
    /\ \A d \in Daemons : WF_vars(DaemonStep(d))

Spec == Init /\ [][Next]_vars /\ Fairness

-----------------------------------------------------------------------------
(* Properties *)

\* What comes back on a connection answers the request sent on it: not a retried
\* or timed-out call's, not another client's, not the one before a restart.
AnswersAreOwn ==
    \A c \in Clients :
        cpc[c] = "reply" /\ inbox[c] \notin {Nothing, Failed} => inbox[c] = Request(c)

\* However timeouts, resends and engine restarts combine, a call is run by the
\* daemons' engines at most four times: two attempts, two tries each.
ReplaysAreBounded == \A c \in Clients : executed[c] <= 4

\* daemon_tool_call is an optimization only: it always comes back.
CallsReturn == \A c \in Clients : cpc[c] # "idle" ~> cpc[c] = "idle"

\* Nothing lingers: when the calls are over every daemon exits, also one whose
\* socket another daemon took, and after any restarts, lost clients and deaths of
\* engines. The one exception: an engine that hangs for ever with the daemon's
\* write or readline() under way keeps it.
DaemonsLeave == <>[](\A d \in Daemons : Alive(d) => Blocked(d))

\* _read_response, "non-JSON noise on stdout" is skipped.  False: the answer
\* behind it is in the reader's buffer, where select() does not look.
NoiseIsSkipped ==
    \A d \in Daemons : dpc[d] = "wait" /\ session[d].out = <<>> =>
        \A n \in DOMAIN session[d].held :
            session[d].held[n] = Noise \/ session[d].held[n].id # session[d].id
=============================================================================
