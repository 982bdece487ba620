------------------------- MODULE EngineDaemonProofs --------------------------
(***************************************************************************)
(* Proofs about EngineDaemon, for any number of clients, daemons, calls    *)
(* and faults: TypeOK, AnswersAreOwn and ReplaysAreBounded.                *)
(***************************************************************************)
EXTENDS EngineDaemon, SequenceTheorems, TLAPS

Busy == {"handle", "restart", "wait"}

\* A client spawns at most once per call, and what it was sent stays on the
\* connection it waits at.
ClientInv ==
    \A c \in Clients :
        /\ cpc[c] \in {"probe", "pid", "write", "await"} => attempt[c] = 0
        /\ cpc[c] # "reply" => inbox[c] = Nothing
        /\ cpc[c] = "idle" => executed[c] = 0

\* A daemon at work has a request; only its second try goes through a restart.
DaemonInv ==
    \A d \in Daemons :
        /\ dpc[d] \in Busy => serving[d].request \in Requests
        /\ dpc[d] = "handle" => ~serving[d].retried
        /\ dpc[d] = "restart" => serving[d].retried

\* Ids grow within a session: no line has a later one than the last request sent,
\* and a line with that one belongs to the request being served.
Pipe(e) == Range(e.todo) \cup Range(e.out) \cup Range(e.held)

IdsGrow(d) ==
    \A line \in Pipe(session[d]) : line # Noise =>
        /\ line.id <= session[d].id
        /\ dpc[d] = "wait" /\ line.id = session[d].id => line.answers = serving[d].request

SessionInv == \A d \in Daemons : IdsGrow(d)

-----------------------------------------------------------------------------
(* Where a request is *)

Queued(d, r) == r \in Range(backlog[d])
Served(d, r) == dpc[d] \in Busy /\ serving[d].request = r
Submitted(d, r) == \E line \in Range(session[d].todo) : line.answers = r

Held(d, r) == Queued(d, r) \/ Served(d, r) \/ Submitted(d, r)

\* r's client has written it to some connection.
Made(r) ==
    \/ r.call < calls[r.of]
    \/ /\ r.call = calls[r.of]
       /\ \/ cpc[r.of] = "idle"
          \/ r.attempt < attempt[r.of]
          \/ r.attempt = attempt[r.of] /\ cpc[r.of] # "connect"

\* A request was made before anybody has it, one daemon has it, and there it is
\* queued, or being served, and only after that in the pipe to the engine.
PlaceInv ==
    \A d \in Daemons : \A r \in Requests :
        /\ Held(d, r) => Made(r)
        /\ \A e \in Daemons : Held(d, r) /\ Held(e, r) => d = e
        /\ Queued(d, r) => ~Served(d, r) /\ ~Submitted(d, r)
        /\ Served(d, r) /\ dpc[d] = "handle" => ~Submitted(d, r)

\* And it is there once.
Distinct(s) == \A m, n \in DOMAIN s : s[m] = s[n] => m = n
Apart(s) == \A m, n \in DOMAIN s : s[m].answers = s[n].answers => m = n

OnceInv == \A d \in Daemons : Distinct(backlog[d]) /\ Apart(session[d].todo)

-----------------------------------------------------------------------------
(* How often a request may still be run *)

\* The tries d has left for r, and the one in the pipe.
Untried(d, r) == Queued(d, r) \/ (Served(d, r) /\ dpc[d] = "handle")
TriedOnce(d, r) == Served(d, r) /\ (dpc[d] = "restart" \/ ~serving[d].retried)

Tries(d, r) == IF Untried(d, r) THEN 2 ELSE IF TriedOnce(d, r) THEN 1 ELSE 0

Piped(d, r) == IF Submitted(d, r) THEN 1 ELSE 0

Load(d, r) == Tries(d, r) + Piped(d, r)

\* Two for every attempt that c has not made yet.
Unmade(c) ==
    (IF attempt[c] = 0 THEN 2 ELSE 0) + (IF cpc[c] = "connect" THEN 2 ELSE 0)

Current(c, a) == [of |-> c, call |-> calls[c], attempt |-> a]

\* What was run, what may still be run and what may still be asked: four in all.
BudgetInv ==
    \A c \in Clients : cpc[c] # "idle" =>
        \A q, r \in Requests : q = Current(c, 0) /\ r = Current(c, 1) =>
            \A d, e \in Daemons : executed[c] + Load(d, q) + Load(e, r) + Unmade(c) <= 4

IInv ==
    TypeOK /\ ClientInv /\ DaemonInv /\ SessionInv /\ PlaceInv /\ OnceInv /\ BudgetInv
    /\ AnswersAreOwn /\ ReplaysAreBounded

-----------------------------------------------------------------------------
USE DaemonsAssumption, BoundsAssumption

(* Sequences *)

\* What an append does to the elements of a sequence.
LEMMA Appended ==
    ASSUME NEW S, NEW s \in Seq(S), NEW x \in S
    PROVE  /\ Append(s, x) \in Seq(S)
           /\ DOMAIN s = 1..Len(s) /\ Len(s) \in Nat
           /\ DOMAIN Append(s, x) = 1..(Len(s) + 1)
           /\ \A n \in DOMAIN s : Append(s, x)[n] = s[n]
           /\ Append(s, x)[Len(s) + 1] = x
           /\ Range(Append(s, x)) = Range(s) \cup {x}
<1>1. /\ Append(s, x) \in Seq(S) /\ Len(s) \in Nat
      /\ DOMAIN s = 1..Len(s) /\ DOMAIN Append(s, x) = 1..(Len(s) + 1)
      /\ \A n \in DOMAIN s : Append(s, x)[n] = s[n]
      /\ Append(s, x)[Len(s) + 1] = x
  OBVIOUS
<1>2. Range(Append(s, x)) \subseteq Range(s) \cup {x}
  BY <1>1 DEF Range
<1>3. Range(s) \subseteq Range(Append(s, x))
  BY <1>1 DEF Range
<1>4. x \in Range(Append(s, x))
  <2>1. Len(s) + 1 \in DOMAIN Append(s, x)
    BY <1>1
  <2> QED BY <2>1, <1>1 DEF Range
<1> QED BY <1>1, <1>2, <1>3, <1>4

\* What taking the head does.
LEMMA HeadTaken ==
    ASSUME NEW S, NEW s \in Seq(S), s # <<>>
    PROVE  /\ Head(s) \in S /\ Tail(s) \in Seq(S)
           /\ Range(s) = {Head(s)} \cup Range(Tail(s))
           /\ 1 \in DOMAIN s /\ s[1] = Head(s)
           /\ \A n \in DOMAIN Tail(s) : n + 1 \in DOMAIN s /\ n + 1 # 1 /\ Tail(s)[n] = s[n + 1]
<1>1. /\ Head(s) \in S /\ Tail(s) \in Seq(S) /\ Len(Tail(s)) = Len(s) - 1
      /\ \A i \in 1..Len(Tail(s)) : Tail(s)[i] = s[i + 1]
  BY HeadTailProperties
<1>2. /\ Len(s) \in Nat \ {0} /\ DOMAIN s = 1..Len(s) /\ s[1] = Head(s)
      /\ DOMAIN Tail(s) = 1..(Len(s) - 1)
  BY <1>1
<1>3. /\ 1 \in DOMAIN s
      /\ \A n \in DOMAIN Tail(s) : n + 1 \in DOMAIN s /\ n + 1 # 1 /\ Tail(s)[n] = s[n + 1]
  BY <1>1, <1>2
<1>4. \A n \in DOMAIN s : n = 1 \/ (n - 1 \in DOMAIN Tail(s) /\ Tail(s)[n - 1] = s[n])
  BY <1>1, <1>2
<1>5. Range(s) \subseteq {Head(s)} \cup Range(Tail(s))
  BY <1>2, <1>4 DEF Range
<1>6. {Head(s)} \cup Range(Tail(s)) \subseteq Range(s)
  BY <1>2, <1>3 DEF Range
<1> QED BY <1>1, <1>2, <1>3, <1>5, <1>6

\* A sequence without repetitions loses its head for good.
LEMMA HeadIsGone ==
    ASSUME NEW S, NEW s \in Seq(S), s # <<>>
    PROVE  /\ Distinct(s) => Distinct(Tail(s)) /\ Head(s) \notin Range(Tail(s))
           /\ Apart(s) => /\ Apart(Tail(s))
                          /\ \A x \in Range(Tail(s)) : x.answers # Head(s).answers
<1>1. /\ 1 \in DOMAIN s /\ s[1] = Head(s)
      /\ \A n \in DOMAIN Tail(s) : n + 1 \in DOMAIN s /\ n + 1 # 1 /\ Tail(s)[n] = s[n + 1]
  BY HeadTaken
<1>2. \A n \in DOMAIN Tail(s) : n \in Int
  BY HeadTaken
<1>3. ASSUME Distinct(s) PROVE Distinct(Tail(s)) /\ Head(s) \notin Range(Tail(s))
  BY <1>1, <1>2, <1>3 DEF Distinct, Range
<1>4. ASSUME Apart(s)
      PROVE  Apart(Tail(s)) /\ \A x \in Range(Tail(s)) : x.answers # Head(s).answers
  BY <1>1, <1>2, <1>4 DEF Apart, Range
<1> QED BY <1>3, <1>4

\* And one that lacks a value stays so when it is appended.
LEMMA AppendedOnce ==
    ASSUME NEW S, NEW s \in Seq(S), NEW x \in S
    PROVE  /\ Distinct(s) /\ x \notin Range(s) => Distinct(Append(s, x))
           /\ Apart(s) /\ (\A y \in Range(s) : y.answers # x.answers) => Apart(Append(s, x))
<1> DEFINE t == Append(s, x)
<1>1. /\ DOMAIN s = 1..Len(s) /\ Len(s) \in Nat /\ DOMAIN t = 1..(Len(s) + 1)
      /\ \A n \in DOMAIN s : t[n] = s[n]
      /\ t[Len(s) + 1] = x
  BY Appended
<1>2. \A n \in DOMAIN t : n \in DOMAIN s \/ n = Len(s) + 1
  BY <1>1
<1>3. \A n \in DOMAIN s : t[n] \in Range(s)
  BY <1>1 DEF Range
<1> HIDE DEF t
<1>4. ASSUME Distinct(s), x \notin Range(s) PROVE Distinct(t)
  BY <1>1, <1>2, <1>3, <1>4 DEF Distinct
<1>5. ASSUME Apart(s), \A y \in Range(s) : y.answers # x.answers PROVE Apart(t)
  BY <1>1, <1>2, <1>3, <1>5 DEF Apart
<1> QED BY <1>4, <1>5 DEF t

-----------------------------------------------------------------------------
(* Types *)

LEMMA Values ==
    /\ Nothing \notin Requests /\ Failed \notin Requests /\ Noise \notin ToolCalls
    /\ NoEngine \in Sessions /\ Fresh \in Sessions
    /\ NoEngine.todo = <<>> /\ Fresh.todo = <<>> /\ Fresh.engine /\ Fresh.id = 1
    /\ Pipe(NoEngine) = {} /\ Pipe(Fresh) = {}
<1>1. Nothing \notin Requests
  <2>1. \A r \in Requests : "of" \in DOMAIN r
    BY DEF Requests
  <2>2. "of" \notin DOMAIN Nothing
    BY DEF Nothing
  <2> QED BY <2>1, <2>2
<1>2. Failed \notin Requests
  <2>1. \A r \in Requests : "of" \in DOMAIN r
    BY DEF Requests
  <2>2. "of" \notin DOMAIN Failed
    BY DEF Failed
  <2> QED BY <2>1, <2>2
<1>3. Noise \notin ToolCalls
  <2>1. \A r \in ToolCalls : "id" \in DOMAIN r
    BY DEF ToolCalls
  <2>2. "id" \notin DOMAIN Noise
    BY DEF Noise
  <2> QED BY <2>1, <2>2
<1>4. NoEngine \in Sessions /\ Fresh \in Sessions
  <2>1. <<>> \in Seq(ToolCalls) /\ <<>> \in Seq(Lines)
    BY EmptySeq
  <2>2. NoEngine \in Sessions
    BY <2>1 DEF NoEngine, Sessions
  <2>3. Fresh \in Sessions
    BY <2>2 DEF Fresh, Sessions
  <2> QED BY <2>2, <2>3
<1>5. /\ NoEngine.todo = <<>> /\ NoEngine.out = <<>> /\ NoEngine.held = <<>>
      /\ Fresh.todo = <<>> /\ Fresh.out = <<>> /\ Fresh.held = <<>>
      /\ Fresh.engine /\ Fresh.id = 1
  <2>1. NoEngine.todo = <<>> /\ NoEngine.out = <<>> /\ NoEngine.held = <<>>
    BY DEF NoEngine
  <2>2. /\ Fresh.todo = NoEngine.todo /\ Fresh.out = NoEngine.out /\ Fresh.held = NoEngine.held
        /\ Fresh.engine /\ Fresh.id = 1
    BY <1>4 DEF Fresh, Sessions
  <2> QED BY <2>1, <2>2
<1>6. Range(<<>>) = {}
  BY DEF Range
<1> QED BY <1>1, <1>2, <1>3, <1>4, <1>5, <1>6 DEF Pipe

ClientTyped ==
    /\ cpc \in [Clients -> ClientPoints]
    /\ calls \in [Clients -> 0..MaxCalls] /\ attempt \in [Clients -> {0, 1}]
    /\ child \in [Clients -> Daemons \cup {NoDaemon}]
    /\ inbox \in [Clients -> Requests \cup {Nothing, Failed}]
    /\ executed \in [Clients -> Nat]

DaemonTyped ==
    /\ dpc \in [Daemons -> DaemonPoints]
    /\ backlog \in [Daemons -> Seq(Requests)]
    /\ serving \in [Daemons -> [request : Requests \cup {Nothing}, retried : BOOLEAN]]
    /\ session \in [Daemons -> Sessions]

FilesTyped == sock \in Daemons \cup {NoDaemon} /\ pidfile \in Daemons \cup {NoDaemon}

LEMMA PartsAreTyped ==
    /\ TypeOK <=> FilesTyped /\ DaemonTyped /\ ClientTyped /\ faults \in 0..MaxFaults
    /\ (TypeOK <=> FilesTyped /\ DaemonTyped /\ ClientTyped /\ faults \in 0..MaxFaults)'
  BY DEF TypeOK, FilesTyped, DaemonTyped, ClientTyped

LEMMA RequestTyped ==
    ASSUME ClientTyped, NEW c \in Clients
    PROVE  /\ Request(c) \in Requests
           /\ Request(c).of = c /\ Request(c).call = calls[c] /\ Request(c).attempt = attempt[c]
  BY DEF ClientTyped, Request, Requests

\* A counted failure stays within the bound.
LEMMA FaultTyped == ASSUME faults \in 0..MaxFaults, Fault PROVE faults' \in 0..MaxFaults
  BY DEF Fault

LEMMA ClientStepTyped ==
    ASSUME TypeOK, NEW c \in Clients, Call(c) \/ ClientStep(c)
    PROVE  FilesTyped' /\ ClientTyped' /\ faults' \in 0..MaxFaults
<1> USE PartsAreTyped
<1>1. ASSUME Return(c) PROVE ClientTyped'
  BY <1>1 DEF Return, ClientTo, ClientTyped, ClientPoints
<1>2. ASSUME Retry(c) PROVE ClientTyped'
  BY <1>1, <1>2 DEF Retry, ClientTo, ClientTyped, ClientPoints
<1>3. ASSUME Ensured(c) PROVE ClientTyped'
  BY <1>3 DEF Ensured, ClientTo, ClientTyped, ClientPoints
<1>4. CASE Call(c)
  BY <1>4 DEF Call, ClientTo, ClientTyped, ClientPoints, FilesTyped, files
<1>5. CASE Connect(c)
  BY <1>5 DEF Connect, ClientTo, ClientTyped, ClientPoints, FilesTyped, files
<1>6. CASE ConnectFails(c) \/ Answered(c) \/ HangUp(c) \/ LosePatience(c)
  BY <1>6, <1>1, <1>2 DEF ConnectFails, Answered, HangUp, LosePatience, FilesTyped, files
<1>7. CASE ProbeSocket(c)
  BY <1>7, <1>3 DEF ProbeSocket, ClientTo, ClientTyped, ClientPoints, FilesTyped, files
<1>8. CASE TrustPid(c)
  BY <1>8, <1>3, FaultTyped DEF TrustPid, FilesTyped, files
<1>9. CASE Spawn(c)
  BY <1>9, <1>1 DEF Spawn, ClientTo, ClientTyped, ClientPoints, FilesTyped, files
<1>10. CASE WritePid(c)
  BY <1>10 DEF WritePid, ClientTo, ClientTyped, ClientPoints, FilesTyped
<1>11. CASE SocketAppears(c) \/ StartFails(c)
  BY <1>11, <1>1, <1>3 DEF SocketAppears, StartFails, FilesTyped, files
<1> QED BY <1>4, <1>5, <1>6, <1>7, <1>8, <1>9, <1>10, <1>11 DEF ClientStep

\* The request as it is written to engine e.
Written(d, e) == [id |-> e.id + 1, answers |-> serving[d].request]

LEMMA Sending ==
    ASSUME NEW d, NEW e \in Sessions, serving[d].request \in Requests
    PROVE  /\ Written(d, e) \in ToolCalls
           /\ Written(d, e).id = e.id + 1 /\ Written(d, e).answers = serving[d].request
           /\ Sent(d, e) \in Sessions
           /\ Sent(d, e).id = e.id + 1 /\ Sent(d, e).engine = e.engine
           /\ Sent(d, e).todo = Append(e.todo, Written(d, e))
           /\ Range(Sent(d, e).todo) = Range(e.todo) \cup {Written(d, e)}
           /\ Pipe(Sent(d, e)) = Pipe(e) \cup {Written(d, e)}
<1> DEFINE w == Written(d, e)
<1>1. e.id \in Nat /\ e.todo \in Seq(ToolCalls)
  BY DEF Sessions
<1>2. w \in ToolCalls /\ w.id = e.id + 1 /\ w.answers = serving[d].request
  BY <1>1 DEF ToolCalls, Written
<1>3. /\ Append(e.todo, w) \in Seq(ToolCalls)
      /\ Range(Append(e.todo, w)) = Range(e.todo) \cup {w}
  BY <1>1, <1>2, Appended
<1>4. Sent(d, e) = [e EXCEPT !.id = e.id + 1, !.todo = Append(e.todo, w)]
  BY DEF Sent, Written
<1> HIDE DEF w
<1>5. /\ Sent(d, e) \in Sessions
      /\ Sent(d, e).id = e.id + 1 /\ Sent(d, e).engine = e.engine
      /\ Sent(d, e).todo = Append(e.todo, w)
      /\ Sent(d, e).out = e.out /\ Sent(d, e).held = e.held
  <2> DEFINE k == e.id + 1
             t == Append(e.todo, w)
  <2>1. k \in Nat /\ t \in Seq(ToolCalls) /\ Sent(d, e) = [e EXCEPT !.id = k, !.todo = t]
    BY <1>1, <1>3, <1>4
  <2> HIDE DEF k, t
  <2>2. /\ Sent(d, e) \in Sessions
        /\ Sent(d, e).id = k /\ Sent(d, e).engine = e.engine /\ Sent(d, e).todo = t
        /\ Sent(d, e).out = e.out /\ Sent(d, e).held = e.held
    BY <2>1 DEF Sessions
  <2> QED BY <2>2 DEF k, t
<1>6. Pipe(Sent(d, e)) = Pipe(e) \cup {w}
  BY <1>3, <1>5 DEF Pipe
<1> QED BY <1>2, <1>3, <1>5, <1>6 DEF w

\* The engine CallEngine writes to.
Engine(d) == IF session[d].engine THEN session[d] ELSE Fresh

LEMMA RespondTyped ==
    ASSUME DaemonTyped, ClientTyped, NEW d \in Daemons, NEW payload \in Requests \cup {Failed},
           Respond(d, payload)
    PROVE  /\ dpc' \in [Daemons -> DaemonPoints]
           /\ serving' \in [Daemons -> [request : Requests \cup {Nothing}, retried : BOOLEAN]]
           /\ inbox' \in [Clients -> Requests \cup {Nothing, Failed}]
<1>1. [request |-> Nothing, retried |-> FALSE] \in [request : Requests \cup {Nothing}, retried : BOOLEAN]
  OBVIOUS
<1> QED BY <1>1 DEF Respond, DaemonTo, DaemonTyped, ClientTyped, DaemonPoints

LEMMA CallFailsTyped ==
    ASSUME DaemonTyped, ClientTyped, NEW d \in Daemons, CallFails(d)
    PROVE  /\ dpc' \in [Daemons -> DaemonPoints]
           /\ serving' \in [Daemons -> [request : Requests \cup {Nothing}, retried : BOOLEAN]]
           /\ inbox' \in [Clients -> Requests \cup {Nothing, Failed}]
<1>1. CASE Respond(d, Failed)
  BY <1>1, RespondTyped
<1>2. CASE /\ serving' = [serving EXCEPT ![d].retried = TRUE]
           /\ DaemonTo(d, "restart")
           /\ UNCHANGED inbox
  BY <1>2 DEF DaemonTo, DaemonTyped, ClientTyped, DaemonPoints
<1> QED BY <1>1, <1>2 DEF CallFails

\* A daemon with a request at hand.
LEMMA AtWork ==
    ASSUME DaemonTyped, DaemonInv, NEW d \in Daemons, dpc[d] \in Busy
    PROVE  /\ serving[d].request \in Requests
           /\ session[d] \in Sessions /\ Engine(d) \in Sessions
           /\ Engine(d) = (IF session[d].engine THEN session[d] ELSE Fresh)
  BY Values DEF DaemonTyped, DaemonInv, Engine

\* What the reader takes off the pipe.
Taken(d) == session[d].held \o session[d].out

LEMMA Reading ==
    ASSUME DaemonTyped, NEW d \in Daemons, session[d].out # <<>>
    PROVE  /\ Head(Taken(d)) \in Lines /\ Tail(Taken(d)) \in Seq(Lines)
           /\ Range(Taken(d)) = {Head(Taken(d))} \cup Range(Tail(Taken(d)))
           /\ Range(Taken(d)) = Range(session[d].held) \cup Range(session[d].out)
<1> DEFINE h == session[d].held
           o == session[d].out
<1>1. h \in Seq(Lines) /\ o \in Seq(Lines)
  BY DEF DaemonTyped, Sessions
<1> HIDE DEF h, o
<1>2. /\ h \o o \in Seq(Lines) /\ Len(h \o o) = Len(h) + Len(o)
      /\ Len(h) \in Nat /\ Len(o) \in Nat
      /\ DOMAIN h = 1..Len(h) /\ DOMAIN o = 1..Len(o) /\ DOMAIN (h \o o) = 1..(Len(h) + Len(o))
      /\ \A i \in 1..(Len(h) + Len(o)) : (h \o o)[i] = IF i <= Len(h) THEN h[i] ELSE o[i - Len(h)]
  BY <1>1, ConcatProperties
<1>3. h \o o # <<>>
  BY <1>1, ConcatSimplifications DEF o
<1>4. Range(h \o o) \subseteq Range(h) \cup Range(o)
  BY <1>2 DEF Range
<1>5. Range(h) \subseteq Range(h \o o)
  BY <1>2 DEF Range
<1>6. ASSUME NEW n \in DOMAIN o PROVE o[n] \in Range(h \o o)
  <2>1. n + Len(h) \in DOMAIN (h \o o) /\ (h \o o)[n + Len(h)] = o[n]
    BY <1>2
  <2> QED BY <2>1 DEF Range
<1>7. Range(h \o o) = Range(h) \cup Range(o)
  BY <1>4, <1>5, <1>6 DEF Range
<1> QED BY <1>2, <1>3, <1>7, HeadTaken DEF h, o, Taken

\* The steps of a daemon, and of its engine.
DaemonMove(d) == DaemonStep(d) \/ JammedDies(d)

EngineMove(d) ==
    \/ Execute(d) \/ Chatter(d) \/ EngineDies(d) \/ DaemonDies(d)
    \/ EngineJams(d) \/ EngineUnjams(d)

\* The engine that hangs.
Jammed(d) ==
    [(IF session[d].engine /\ dpc[d] # "restart" THEN session[d] ELSE Fresh)
        EXCEPT !.jammed = TRUE]

LEMMA Jamming ==
    ASSUME DaemonTyped, NEW d \in Daemons
    PROVE  /\ Jammed(d) \in Sessions
           /\ \/ /\ Jammed(d).todo = session[d].todo /\ Jammed(d).id = session[d].id
                 /\ Pipe(Jammed(d)) = Pipe(session[d])
              \/ Jammed(d).todo = <<>> /\ Pipe(Jammed(d)) = {}
<1>1. ASSUME NEW e \in Sessions
      PROVE  /\ [e EXCEPT !.jammed = TRUE] \in Sessions
             /\ [e EXCEPT !.jammed = TRUE].todo = e.todo /\ [e EXCEPT !.jammed = TRUE].id = e.id
             /\ Pipe([e EXCEPT !.jammed = TRUE]) = Pipe(e)
  BY DEF Sessions, Pipe
<1>2. session[d] \in Sessions /\ Fresh \in Sessions /\ Fresh.todo = <<>> /\ Pipe(Fresh) = {}
  BY Values DEF DaemonTyped
<1>3. CASE session[d].engine /\ dpc[d] # "restart"
  BY <1>1, <1>2, <1>3 DEF Jammed
<1>4. CASE ~(session[d].engine /\ dpc[d] # "restart")
  BY <1>1, <1>2, <1>4 DEF Jammed
<1> QED BY <1>3, <1>4

LEMMA DaemonStepTyped ==
    ASSUME TypeOK, DaemonInv, NEW d \in Daemons, DaemonMove(d)
    PROVE  TypeOK'
<1> USE PartsAreTyped
<1>1. CASE NoCommand(d) \/ UnlinkStale(d) \/ Bind(d) \/ UnlinkSock(d)
  BY <1>1, FaultTyped DEF NoCommand, UnlinkStale, Bind, UnlinkSock, DaemonTo, files, client,
     FilesTyped, DaemonTyped, ClientTyped, DaemonPoints
<1>2. CASE StartEngine(d)
  <2>1. faults' \in 0..MaxFaults
    BY <1>2, FaultTyped DEF StartEngine
  <2>2. session' \in [Daemons -> Sessions]
    BY <1>2, Values DEF StartEngine, DaemonTyped
  <2>3. dpc' \in [Daemons -> DaemonPoints]
    BY <1>2 DEF StartEngine, DaemonTo, DaemonTyped, DaemonPoints
  <2> QED
    BY <1>2, <2>1, <2>2, <2>3 DEF StartEngine, files, client, FilesTyped, DaemonTyped, ClientTyped
<1>3. CASE Accept(d)
  <2>1. backlog[d] \in Seq(Requests) /\ backlog[d] # <<>>
    BY <1>3 DEF Accept, DaemonTyped
  <2>2. Head(backlog[d]) \in Requests /\ Tail(backlog[d]) \in Seq(Requests)
    BY <2>1, HeadTaken
  <2>3. backlog' \in [Daemons -> Seq(Requests)]
    BY <1>3, <2>2 DEF Accept, DaemonTyped
  <2>4. serving' \in [Daemons -> [request : Requests \cup {Nothing}, retried : BOOLEAN]]
    BY <1>3, <2>2 DEF Accept, DaemonTyped
  <2> QED
    BY <1>3, <2>3, <2>4 DEF Accept, DaemonTo, files, client,
       FilesTyped, DaemonTyped, ClientTyped, DaemonPoints
<1>4. CASE CallEngine(d)
  <2>1. serving[d].request \in Requests /\ Engine(d) \in Sessions
    BY <1>4, AtWork DEF CallEngine, Busy
  <2>2. Sent(d, Engine(d)) \in Sessions
    BY <2>1, Sending
  <2>3. CASE /\ session' = [session EXCEPT ![d] = Sent(d, Engine(d))]
             /\ DaemonTo(d, "wait")
             /\ UNCHANGED <<serving, inbox, faults>>
    BY <1>4, <2>2, <2>3 DEF CallEngine, DaemonTo, files,
       FilesTyped, DaemonTyped, ClientTyped, DaemonPoints
  <2>4. CASE Fault /\ CallFails(d) /\ \E e \in {NoEngine, Fresh} : session' = [session EXCEPT ![d] = e]
    BY <1>4, <2>4, FaultTyped, CallFailsTyped, Values DEF CallEngine, files,
       FilesTyped, DaemonTyped, ClientTyped
  <2> QED BY <1>4, <2>3, <2>4 DEF CallEngine, Engine
<1>5. CASE RestartEngine(d)
  <2>1. serving[d].request \in Requests
    BY <1>5, AtWork DEF RestartEngine, Busy
  <2>2. Sent(d, Fresh) \in Sessions
    BY <2>1, Values, Sending
  <2>3. CASE /\ session' = [session EXCEPT ![d] = Sent(d, Fresh)]
             /\ DaemonTo(d, "wait")
             /\ UNCHANGED <<serving, inbox, faults>>
    BY <1>5, <2>2, <2>3 DEF RestartEngine, DaemonTo, files,
       FilesTyped, DaemonTyped, ClientTyped, DaemonPoints
  <2>4. CASE Fault /\ CallFails(d) /\ \E e \in {NoEngine, Fresh} : session' = [session EXCEPT ![d] = e]
    BY <1>5, <2>4, FaultTyped, CallFailsTyped, Values DEF RestartEngine, files,
       FilesTyped, DaemonTyped, ClientTyped
  <2> QED BY <1>5, <2>3, <2>4 DEF RestartEngine

<1>6. CASE ReadLine(d)
  <2> DEFINE line == Head(Taken(d))
  <2>1. session[d].out # <<>>
    BY <1>6 DEF ReadLine
  <2>2. line \in Lines /\ Tail(Taken(d)) \in Seq(Lines)
    BY <2>1, Reading
  <2>3. session' = [session EXCEPT ![d].held = Tail(Taken(d)), ![d].out = <<>>]
    BY <1>6 DEF ReadLine, Taken
  <2>4. <<>> \in Seq(Lines)
    BY EmptySeq
  <2>5. session' \in [Daemons -> Sessions]
    BY <2>2, <2>3, <2>4 DEF DaemonTyped, Sessions
  <2>6. \/ line # Noise /\ Respond(d, line.answers)
        \/ UNCHANGED <<serving, dpc, inbox>>
    BY <1>6 DEF ReadLine, Taken
  <2>7. line # Noise => line.answers \in Requests
    BY <2>2 DEF Lines, ToolCalls
  <2> HIDE DEF line
  <2>8. CASE line # Noise /\ Respond(d, line.answers)
    BY <1>6, <2>5, <2>7, <2>8, RespondTyped DEF ReadLine, files, FilesTyped, DaemonTyped, ClientTyped
  <2>9. CASE UNCHANGED <<serving, dpc, inbox>>
    BY <1>6, <2>5, <2>9 DEF ReadLine, files, FilesTyped, DaemonTyped, ClientTyped
  <2> QED BY <2>6, <2>8, <2>9
<1>7. CASE CallEnds(d)
  BY <1>7, CallFailsTyped DEF CallEnds, files, FilesTyped, DaemonTyped, ClientTyped
<1>10. CASE JammedDies(d)
  <2>1. session' \in [Daemons -> Sessions]
    BY <1>10, Values DEF JammedDies, DaemonTyped
  <2>2. CASE CallFails(d)
    BY <1>10, <2>1, <2>2, CallFailsTyped DEF JammedDies, files, FilesTyped, DaemonTyped, ClientTyped
  <2>3. CASE DaemonTo(d, "unlinksock") /\ UNCHANGED <<serving, inbox>>
    BY <1>10, <2>1, <2>3 DEF JammedDies, DaemonTo, files,
       FilesTyped, DaemonTyped, ClientTyped, DaemonPoints
  <2> QED BY <1>10, <2>2, <2>3 DEF JammedDies
<1>8. CASE IdleExit(d)
  BY <1>8, Values DEF IdleExit, DaemonTo, files, client,
     FilesTyped, DaemonTyped, ClientTyped, DaemonPoints
<1>9. CASE UnlinkPid(d)
  <2>1. <<>> \in Seq(Requests)
    BY EmptySeq
  <2> QED
    BY <1>9, <2>1 DEF UnlinkPid, DaemonTo, client,
       FilesTyped, DaemonTyped, ClientTyped, DaemonPoints
<1> QED
  BY <1>1, <1>2, <1>3, <1>4, <1>5, <1>6, <1>7, <1>8, <1>9, <1>10 DEF DaemonStep, DaemonMove

LEMMA ConnectTyped ==
    ASSUME TypeOK, NEW c \in Clients, Connect(c)
    PROVE  /\ sock \in Daemons /\ Request(c) \in Requests /\ backlog[sock] \in Seq(Requests)
           /\ DaemonTyped'
<1>1. sock \in Daemons /\ backlog[sock] \in Seq(Requests)
  BY DEF Connect, Reachable, TypeOK
<1>2. Request(c) \in Requests
  BY PartsAreTyped, RequestTyped
<1>3. Append(backlog[sock], Request(c)) \in Seq(Requests)
  BY <1>1, <1>2, Appended
<1>4. DaemonTyped'
  BY <1>1, <1>3, PartsAreTyped DEF Connect, DaemonTyped
<1> QED BY <1>1, <1>2, <1>4

LEMMA ClientDaemonsTyped ==
    ASSUME TypeOK, NEW c \in Clients, Call(c) \/ ClientStep(c)
    PROVE  DaemonTyped'
<1>1. CASE Connect(c)
  BY <1>1, ConnectTyped
<1>2. CASE Spawn(c)
  BY <1>2, PartsAreTyped DEF Spawn, DaemonTo, DaemonTyped, DaemonPoints
<1>3. CASE UNCHANGED daemon
  BY <1>3, PartsAreTyped DEF daemon, DaemonTyped
<1> QED
  BY <1>1, <1>2, <1>3 DEF ClientStep, Call, ConnectFails, Answered, HangUp, LosePatience,
     ProbeSocket, TrustPid, WritePid, SocketAppears, StartFails

LEMMA EngineStepTyped ==
    ASSUME TypeOK, NEW d \in Daemons, EngineMove(d)
    PROVE  TypeOK'
<1> USE PartsAreTyped
<1>1. CASE Execute(d)
  <2> DEFINE line == Head(session[d].todo)
  <2>1. session[d] \in Sessions /\ session[d].todo # <<>> /\ session[d].todo \in Seq(ToolCalls)
        /\ session[d].out \in Seq(Lines)
    BY <1>1 DEF Execute, DaemonTyped, Sessions
  <2>2. line \in ToolCalls /\ Tail(session[d].todo) \in Seq(ToolCalls)
    BY <2>1, HeadTaken
  <2>3. Append(session[d].out, line) \in Seq(Lines)
    BY <2>1, <2>2, Appended DEF Lines
  <2>4. session' \in [Daemons -> Sessions]
    BY <1>1, <2>1, <2>2, <2>3 DEF Execute, DaemonTyped, Sessions
  <2>5. line.answers.of \in Clients
    BY <2>2 DEF ToolCalls, Requests
  <2> HIDE DEF line
  <2>6. \/ executed' = [executed EXCEPT ![line.answers.of] = @ + 1]
        \/ executed' = executed
    BY <1>1 DEF Execute, line
  <2>7. executed' \in [Clients -> Nat]
    BY <2>5, <2>6 DEF ClientTyped
  <2> QED BY <1>1, <2>4, <2>7 DEF Execute, files, client, FilesTyped, DaemonTyped, ClientTyped
<1>2. CASE Chatter(d)
  <2>1. session[d] \in Sessions /\ session[d].out \in Seq(Lines)
    BY DEF DaemonTyped, Sessions
  <2>2. Append(session[d].out, Noise) \in Seq(Lines)
    BY <2>1, Appended DEF Lines
  <2>3. session' \in [Daemons -> Sessions]
    BY <1>2, <2>1, <2>2 DEF Chatter, DaemonTyped, Sessions
  <2> QED
    BY <1>2, <2>3, FaultTyped DEF Chatter, files, client, FilesTyped, DaemonTyped, ClientTyped
<1>3. CASE EngineDies(d)
  BY <1>3, FaultTyped, Values DEF EngineDies, files, client, FilesTyped, DaemonTyped, ClientTyped
<1>4. CASE DaemonDies(d)
  <2>1. <<>> \in Seq(Requests)
    BY EmptySeq
  <2>2. [request |-> Nothing, retried |-> FALSE] \in [request : Requests \cup {Nothing}, retried : BOOLEAN]
    OBVIOUS
  <2> QED
    BY <1>4, <2>1, <2>2, FaultTyped, Values DEF DaemonDies, DaemonTo, files, client,
       FilesTyped, DaemonTyped, ClientTyped, DaemonPoints
<1>5. CASE EngineJams(d)
  <2>1. session' = [session EXCEPT ![d] = Jammed(d)]
    BY <1>5 DEF EngineJams, Jammed
  <2>2. session' \in [Daemons -> Sessions]
    BY <2>1, Jamming DEF DaemonTyped
  <2> QED
    BY <1>5, <2>2, FaultTyped DEF EngineJams, files, client, FilesTyped, DaemonTyped, ClientTyped
<1>6. CASE EngineUnjams(d)
  <2>1. session' \in [Daemons -> Sessions]
    BY <1>6 DEF EngineUnjams, DaemonTyped, Sessions
  <2> QED BY <1>6, <2>1 DEF EngineUnjams, files, client, FilesTyped, DaemonTyped, ClientTyped
<1> QED BY <1>1, <1>2, <1>3, <1>4, <1>5, <1>6 DEF EngineMove

LEMMA TypeStep == ASSUME TypeOK, DaemonInv, Next PROVE TypeOK'
<1>1. ASSUME NEW c \in Clients, Call(c) \/ ClientStep(c) PROVE TypeOK'
  BY <1>1, ClientStepTyped, ClientDaemonsTyped, PartsAreTyped
<1> QED BY <1>1, DaemonStepTyped, EngineStepTyped DEF Next, DaemonMove, EngineMove

-----------------------------------------------------------------------------
(* Clients, daemons, sessions *)

\* A step of c changes nothing of another client.
LEMMA OthersRest ==
    ASSUME ClientTyped, NEW c \in Clients, Call(c) \/ ClientStep(c)
    PROVE  \A b \in Clients \ {c} :
              /\ cpc'[b] = cpc[b] /\ calls'[b] = calls[b] /\ attempt'[b] = attempt[b]
              /\ inbox'[b] = inbox[b] /\ executed'[b] = executed[b]
<1> DEFINE Rest == \A b \in Clients \ {c} :
              /\ cpc'[b] = cpc[b] /\ calls'[b] = calls[b] /\ attempt'[b] = attempt[b]
              /\ inbox'[b] = inbox[b] /\ executed'[b] = executed[b]
<1>1. ASSUME Return(c) PROVE Rest
  BY <1>1 DEF Return, ClientTo, ClientTyped
<1>2. ASSUME Retry(c) PROVE Rest
  BY <1>1, <1>2 DEF Retry, ClientTo, ClientTyped
<1>3. ASSUME Ensured(c) PROVE Rest
  BY <1>3 DEF Ensured, ClientTo, ClientTyped
<1>4. CASE Call(c) \/ Connect(c) \/ WritePid(c)
  BY <1>4 DEF Call, Connect, WritePid, ClientTo, ClientTyped
<1>5. CASE ConnectFails(c) \/ Answered(c) \/ HangUp(c) \/ LosePatience(c) \/ StartFails(c)
  BY <1>5, <1>1, <1>2 DEF ConnectFails, Answered, HangUp, LosePatience, StartFails
<1>6. CASE ProbeSocket(c) \/ TrustPid(c) \/ SocketAppears(c)
  BY <1>6, <1>3 DEF ProbeSocket, TrustPid, SocketAppears, ClientTo, ClientTyped
<1>7. CASE Spawn(c)
  BY <1>7, <1>1 DEF Spawn, ClientTo, ClientTyped
<1> QED BY <1>4, <1>5, <1>6, <1>7 DEF ClientStep

\* How a client gets from one point to the next.
Moves(c) ==
    \/ /\ cpc[c] = "idle" /\ cpc'[c] = "connect" /\ calls'[c] = calls[c] + 1
       /\ UNCHANGED <<attempt, inbox, executed>>
    \/ /\ cpc'[c] = "idle" /\ inbox'[c] = Nothing /\ executed'[c] = 0
       /\ UNCHANGED calls
    \/ /\ cpc[c] \in {"connect", "reply"} /\ cpc'[c] = "probe" /\ attempt[c] = 0
       /\ (cpc[c] = "reply" => inbox[c] = Nothing)
       /\ UNCHANGED <<calls, attempt, inbox, executed>>
    \/ /\ cpc[c] \in {"probe", "pid", "await"} /\ cpc'[c] = "connect" /\ attempt'[c] = 1
       /\ UNCHANGED <<calls, inbox, executed>>
    \/ /\ cpc[c] \in {"probe", "pid", "write"} /\ cpc'[c] \in {"pid", "write", "await"}
       /\ UNCHANGED <<calls, attempt, inbox, executed>>
    \/ /\ cpc[c] = "connect" /\ cpc'[c] = "reply"
       /\ UNCHANGED <<calls, attempt, inbox, executed>>

LEMMA ClientMoves ==
    ASSUME ClientTyped, NEW c \in Clients, Call(c) \/ ClientStep(c)
    PROVE  Moves(c) /\ (Connect(c) \/ cpc[c] # "connect" \/ cpc'[c] # "reply")
<1>1. ASSUME Return(c)
      PROVE  /\ cpc'[c] = "idle" /\ inbox'[c] = Nothing /\ executed'[c] = 0 /\ UNCHANGED calls
  BY <1>1 DEF Return, ClientTo, ClientTyped
<1>2. ASSUME NEW where, ClientTo(c, where) PROVE cpc'[c] = where
  BY <1>2 DEF ClientTo, ClientTyped
<1>3. ASSUME Ensured(c)
      PROVE  cpc'[c] = "connect" /\ attempt'[c] = 1 /\ UNCHANGED <<calls, inbox, executed>>
  BY <1>2, <1>3 DEF Ensured, ClientTyped
<1>4. CASE Call(c)
  <2>1. calls'[c] = calls[c] + 1
    BY <1>4 DEF Call, ClientTyped
  <2> QED BY <1>2, <1>4, <2>1 DEF Call, Moves
<1>5. CASE Connect(c)
  BY <1>2, <1>5 DEF Connect, Moves
<1>6. CASE ConnectFails(c)
  BY <1>1, <1>2, <1>6 DEF ConnectFails, Retry, Moves
<1>7. CASE Answered(c) \/ StartFails(c)
  BY <1>1, <1>7 DEF Answered, StartFails, Moves
<1>8. CASE HangUp(c)
  BY <1>1, <1>2, <1>8 DEF HangUp, Retry, Moves
<1>9. CASE LosePatience(c)
  BY <1>1, <1>2, <1>9 DEF LosePatience, Retry, Moves
<1>10. CASE ProbeSocket(c)
  BY <1>2, <1>3, <1>10 DEF ProbeSocket, Moves
<1>11. CASE TrustPid(c) \/ SocketAppears(c)
  BY <1>3, <1>11 DEF TrustPid, SocketAppears, Moves
<1>12. CASE Spawn(c)
  BY <1>1, <1>2, <1>12 DEF Spawn, Moves
<1>13. CASE WritePid(c)
  BY <1>2, <1>13 DEF WritePid, Moves
<1> QED
  BY <1>4, <1>5, <1>6, <1>7, <1>8, <1>9, <1>10, <1>11, <1>12, <1>13 DEF ClientStep

\* The clients' part of the invariant, and the answers, under a client's step.
LEMMA ClientKeepsClients ==
    ASSUME ClientTyped, ClientInv, AnswersAreOwn, NEW c \in Clients, Call(c) \/ ClientStep(c)
    PROVE  ClientInv' /\ AnswersAreOwn'
<1>1. ASSUME NEW b \in Clients \ {c}
      PROVE  /\ cpc'[b] = cpc[b] /\ calls'[b] = calls[b] /\ attempt'[b] = attempt[b]
             /\ inbox'[b] = inbox[b] /\ executed'[b] = executed[b]
  BY OthersRest
<1>2. Moves(c)
  BY ClientMoves
<1>3. /\ cpc'[c] \in {"probe", "pid", "write", "await"} => attempt'[c] = 0
      /\ cpc'[c] # "reply" => inbox'[c] = Nothing
      /\ cpc'[c] = "idle" => executed'[c] = 0
  BY <1>2 DEF Moves, ClientInv, ClientTyped, ClientPoints
<1>4. ClientInv'
  BY <1>1, <1>3 DEF ClientInv
<1>5. cpc'[c] = "reply" => inbox'[c] = Nothing
  BY <1>2 DEF Moves, ClientInv, ClientTyped, ClientPoints
<1>6. AnswersAreOwn'
  BY <1>1, <1>5 DEF AnswersAreOwn, Request
<1> QED BY <1>4, <1>6

\* The daemons' part under a client's step: a spawned daemon is not at work.
LEMMA ClientKeepsDaemons ==
    ASSUME TypeOK, DaemonInv, SessionInv, NEW c \in Clients, Call(c) \/ ClientStep(c)
    PROVE  /\ DaemonInv' /\ SessionInv'
           /\ UNCHANGED <<serving, session>>
           /\ \A d \in Daemons : dpc'[d] = dpc[d] \/ {dpc[d], dpc'[d]} \cap Busy = {}
           /\ Connect(c) \/ UNCHANGED backlog
<1>1. /\ UNCHANGED <<serving, session>>
      /\ \A d \in Daemons : dpc'[d] = dpc[d] \/ {dpc[d], dpc'[d]} \cap Busy = {}
      /\ Connect(c) \/ UNCHANGED backlog
  <2>1. CASE Spawn(c)
    BY <2>1 DEF Spawn, DaemonTo, TypeOK, Busy
  <2>2. CASE UNCHANGED daemon
    BY <2>2 DEF daemon
  <2>3. CASE Connect(c)
    BY <2>3 DEF Connect
  <2> QED
    BY <2>1, <2>2, <2>3 DEF ClientStep, Call, ConnectFails, Answered, HangUp, LosePatience,
       ProbeSocket, TrustPid, WritePid, SocketAppears, StartFails
<1>2. DaemonInv'
  BY <1>1 DEF DaemonInv, Busy
<1>3. SessionInv'
  BY <1>1 DEF SessionInv, IdsGrow, Busy
<1> QED BY <1>1, <1>2, <1>3

\* A daemon's step, or its engine's, is about that daemon.
LEMMA OtherDaemonsRest ==
    ASSUME DaemonTyped, NEW d \in Daemons,
           DaemonMove(d) \/ EngineMove(d)
    PROVE  /\ UNCHANGED <<cpc, calls, attempt>>
           /\ Execute(d) \/ UNCHANGED executed
           /\ \A e \in Daemons \ {d} :
                 /\ dpc'[e] = dpc[e] /\ backlog'[e] = backlog[e]
                 /\ serving'[e] = serving[e] /\ session'[e] = session[e]
<1> DEFINE Rest == \A e \in Daemons \ {d} :
                 /\ dpc'[e] = dpc[e] /\ backlog'[e] = backlog[e]
                 /\ serving'[e] = serving[e] /\ session'[e] = session[e]
<1>1. ASSUME NEW payload, Respond(d, payload)
      PROVE  \A e \in Daemons \ {d} : dpc'[e] = dpc[e] /\ serving'[e] = serving[e]
  BY <1>1 DEF Respond, DaemonTo, DaemonTyped
<1>2. ASSUME CallFails(d)
      PROVE  \A e \in Daemons \ {d} : dpc'[e] = dpc[e] /\ serving'[e] = serving[e]
  BY <1>1, <1>2 DEF CallFails, DaemonTo, DaemonTyped
<1>3. CASE NoCommand(d) \/ UnlinkStale(d) \/ Bind(d) \/ StartEngine(d) \/ Accept(d)
           \/ IdleExit(d) \/ UnlinkSock(d) \/ UnlinkPid(d)
  BY <1>3 DEF NoCommand, UnlinkStale, Bind, StartEngine, Accept, IdleExit, UnlinkSock, UnlinkPid,
     DaemonTo, client, DaemonTyped
<1>4. CASE CallEngine(d)
  <2>1. CASE CallFails(d) /\ \E e \in {NoEngine, Fresh} : session' = [session EXCEPT ![d] = e]
    BY <1>2, <1>4, <2>1 DEF CallEngine, DaemonTyped
  <2>2. CASE /\ session' = [session EXCEPT ![d] = Sent(d, IF @.engine THEN @ ELSE Fresh)]
             /\ DaemonTo(d, "wait") /\ UNCHANGED <<serving, inbox, faults>>
    BY <1>4, <2>2 DEF CallEngine, DaemonTo, DaemonTyped
  <2> QED BY <1>4, <2>1, <2>2 DEF CallEngine
<1>5. CASE RestartEngine(d)
  <2>1. CASE CallFails(d) /\ \E e \in {NoEngine, Fresh} : session' = [session EXCEPT ![d] = e]
    BY <1>2, <1>5, <2>1 DEF RestartEngine, DaemonTyped
  <2>2. CASE /\ session' = [session EXCEPT ![d] = Sent(d, Fresh)]
             /\ DaemonTo(d, "wait") /\ UNCHANGED <<serving, inbox, faults>>
    BY <1>5, <2>2 DEF RestartEngine, DaemonTo, DaemonTyped
  <2> QED BY <1>5, <2>1, <2>2 DEF RestartEngine
<1>6. CASE ReadLine(d)
  <2>1. session' = [session EXCEPT ![d].held = Tail(Taken(d)), ![d].out = <<>>]
    BY <1>6 DEF ReadLine, Taken
  <2>2. \/ Respond(d, Head(Taken(d)).answers)
        \/ UNCHANGED <<serving, dpc, inbox>>
    BY <1>6 DEF ReadLine, Taken
  <2> QED BY <1>1, <1>6, <2>1, <2>2 DEF ReadLine, DaemonTyped
<1>7. CASE CallEnds(d)
  BY <1>2, <1>7 DEF CallEnds
<1>8. CASE EngineMove(d)
  BY <1>8 DEF EngineMove, Execute, Chatter, EngineDies, DaemonDies, EngineJams, EngineUnjams,
     DaemonTo, client, DaemonTyped
<1>9. CASE JammedDies(d)
  <2>1. CASE CallFails(d)
    BY <1>2, <1>9, <2>1 DEF JammedDies, DaemonTyped
  <2>2. CASE DaemonTo(d, "unlinksock") /\ UNCHANGED <<serving, inbox>>
    BY <1>9, <2>2 DEF JammedDies, DaemonTo, DaemonTyped
  <2> QED BY <1>9, <2>1, <2>2 DEF JammedDies
<1> QED BY <1>3, <1>4, <1>5, <1>6, <1>7, <1>8, <1>9 DEF DaemonStep, DaemonMove

\* The kinds of steps a daemon and its engine take.
Quieter(d) ==
    /\ Pipe(session'[d]) \subseteq Pipe(session[d]) \cup {Noise}
    /\ session'[d].id = session[d].id \/ Pipe(session'[d]) = {}

Rests(d) ==
    /\ dpc'[d] \notin Busy
    /\ backlog'[d] \in {backlog[d], <<>>}
    /\ Quieter(d) /\ session'[d].todo \in {session[d].todo, <<>>}

Accepts(d) ==
    /\ dpc[d] = "serve" /\ dpc'[d] = "handle"
    /\ backlog[d] # <<>> /\ backlog'[d] = Tail(backlog[d])
    /\ serving'[d].request = Head(backlog[d]) /\ ~serving'[d].retried
    /\ session'[d] = session[d]

Sends(d, e) ==
    /\ \/ dpc[d] = "handle" /\ e \in {session[d], Fresh}
       \/ dpc[d] = "restart" /\ e = Fresh
    /\ dpc'[d] = "wait" /\ session'[d] = Sent(d, e)
    /\ backlog'[d] = backlog[d] /\ serving'[d] = serving[d]

Fails(d) ==
    /\ dpc[d] \in {"handle", "wait"} /\ dpc'[d] = "restart"
    /\ ~serving[d].retried /\ serving'[d].retried
    /\ serving'[d].request = serving[d].request
    /\ backlog'[d] = backlog[d]
    /\ Quieter(d) /\ session'[d].todo \in {session[d].todo, <<>>}

Runs(d) ==
    /\ dpc'[d] = dpc[d] /\ backlog'[d] = backlog[d] /\ serving'[d] = serving[d]
    /\ Quieter(d) /\ session'[d].todo \in {session[d].todo, <<>>}

LEMMA DaemonMoves ==
    ASSUME TypeOK, DaemonInv, NEW d \in Daemons, DaemonMove(d)
    PROVE  Rests(d) \/ Accepts(d) \/ (\E e \in Sessions : Sends(d, e)) \/ Fails(d) \/ Runs(d)
<1> USE PartsAreTyped
<1>1. ASSUME session'[d] = session[d] PROVE Quieter(d)
  BY <1>1 DEF Quieter
<1>2. ASSUME session'[d] \in {NoEngine, Fresh} PROVE Quieter(d) /\ session'[d].todo = <<>>
  BY <1>2, Values DEF Quieter
<1>3. ASSUME NEW where, DaemonTo(d, where) PROVE dpc'[d] = where
  BY <1>3 DEF DaemonTo, DaemonTyped
<1>4. ASSUME NEW payload, Respond(d, payload) PROVE dpc'[d] \notin Busy
  BY <1>3, <1>4 DEF Respond, Busy
<1>5. CASE NoCommand(d) \/ UnlinkStale(d) \/ Bind(d) \/ UnlinkSock(d)
  <2>1. dpc'[d] \notin Busy
    BY <1>3, <1>5 DEF NoCommand, UnlinkStale, Bind, UnlinkSock, Busy
  <2> QED BY <1>1, <1>5, <2>1 DEF NoCommand, UnlinkStale, Bind, UnlinkSock, Rests
<1>6. CASE StartEngine(d) \/ IdleExit(d) \/ UnlinkPid(d)
  <2>1. dpc'[d] \notin Busy
    BY <1>3, <1>6 DEF StartEngine, IdleExit, UnlinkPid, Busy
  <2>2. session'[d] \in {session[d], NoEngine, Fresh}
    BY <1>6 DEF StartEngine, IdleExit, UnlinkPid, DaemonTyped
  <2>3. backlog'[d] \in {backlog[d], <<>>}
    BY <1>6 DEF StartEngine, IdleExit, UnlinkPid, DaemonTyped
  <2> QED BY <1>1, <1>2, <2>1, <2>2, <2>3 DEF Rests
<1>7. CASE Accept(d)
  <2>1. /\ backlog'[d] = Tail(backlog[d])
        /\ serving'[d] = [request |-> Head(backlog[d]), retried |-> FALSE]
    BY <1>7 DEF Accept, DaemonTyped
  <2>2. dpc'[d] = "handle"
    BY <1>3, <1>7 DEF Accept
  <2> QED BY <1>7, <2>1, <2>2 DEF Accept, Accepts
<1>8. ASSUME CallFails(d), UNCHANGED backlog, dpc[d] \in {"handle", "wait"},
             session'[d] \in {session[d], NoEngine, Fresh}
      PROVE  Rests(d) \/ Fails(d)
  <2>3. Quieter(d) /\ session'[d].todo \in {session[d].todo, <<>>}
    BY <1>1, <1>2, <1>8
  <2>1. CASE Respond(d, Failed)
    BY <1>4, <1>8, <2>1, <2>3 DEF Rests
  <2>2. CASE /\ ~serving[d].retried
             /\ serving' = [serving EXCEPT ![d].retried = TRUE]
             /\ DaemonTo(d, "restart")
    <3>1. serving'[d].retried /\ serving'[d].request = serving[d].request
      BY <2>2 DEF DaemonTyped
    <3> QED BY <1>3, <1>8, <2>2, <2>3, <3>1 DEF Fails
  <2> QED BY <1>8, <2>1, <2>2 DEF CallFails
<1>9. CASE CallEngine(d)
  <2>1. CASE CallFails(d) /\ \E e \in {NoEngine, Fresh} : session' = [session EXCEPT ![d] = e]
    BY <1>8, <1>9, <2>1 DEF CallEngine, DaemonTyped
  <2>2. CASE /\ session' = [session EXCEPT ![d] = Sent(d, Engine(d))]
             /\ DaemonTo(d, "wait") /\ UNCHANGED <<serving, inbox, faults>>
    <3>1. Engine(d) \in Sessions
      BY <1>9, AtWork DEF CallEngine, Busy
    <3>2. session'[d] = Sent(d, Engine(d))
      BY <2>2 DEF DaemonTyped
    <3>3. Sends(d, Engine(d))
      BY <1>3, <1>9, <2>2, <3>2 DEF CallEngine, Sends, Engine
    <3> QED BY <3>1, <3>3
  <2> QED BY <1>9, <2>1, <2>2 DEF CallEngine, Engine
<1>10. CASE RestartEngine(d)
  <2>1. CASE CallFails(d) /\ \E e \in {NoEngine, Fresh} : session' = [session EXCEPT ![d] = e]
    <3>1. Respond(d, Failed)
      BY <1>10, <2>1 DEF RestartEngine, CallFails, DaemonInv
    <3>2. session'[d] \in {NoEngine, Fresh}
      BY <2>1 DEF DaemonTyped
    <3> QED BY <1>2, <1>4, <1>10, <3>1, <3>2 DEF RestartEngine, Rests
  <2>2. CASE /\ session' = [session EXCEPT ![d] = Sent(d, Fresh)]
             /\ DaemonTo(d, "wait") /\ UNCHANGED <<serving, inbox, faults>>
    <3>1. session'[d] = Sent(d, Fresh)
      BY <2>2 DEF DaemonTyped
    <3>2. Sends(d, Fresh)
      BY <1>3, <1>10, <2>2, <3>1 DEF RestartEngine, Sends
    <3> QED BY <3>2, Values
  <2> QED BY <1>10, <2>1, <2>2 DEF RestartEngine
<1>11. CASE ReadLine(d)
  <2>1. session' = [session EXCEPT ![d].held = Tail(Taken(d)), ![d].out = <<>>]
    BY <1>11 DEF ReadLine, Taken
  <2>2. /\ session'[d].held = Tail(Taken(d)) /\ session'[d].out = <<>>
        /\ session'[d].todo = session[d].todo /\ session'[d].id = session[d].id
    BY <2>1 DEF DaemonTyped, Sessions
  <2>3. Range(<<>>) = {}
    BY DEF Range
  <2>4. Range(Tail(Taken(d))) \subseteq Range(session[d].held) \cup Range(session[d].out)
    BY <1>11, Reading DEF ReadLine
  <2>5. Quieter(d)
    BY <2>2, <2>3, <2>4 DEF Quieter, Pipe
  <2>6. CASE Respond(d, Head(Taken(d)).answers)
    BY <1>4, <1>11, <2>2, <2>5, <2>6 DEF ReadLine, Rests
  <2>7. CASE UNCHANGED <<serving, dpc, inbox>>
    BY <1>11, <2>2, <2>5, <2>7 DEF ReadLine, Runs
  <2> QED BY <1>11, <2>6, <2>7 DEF ReadLine, Taken
<1>12. CASE CallEnds(d)
  BY <1>8, <1>12 DEF CallEnds
<1>13. CASE JammedDies(d)
  <2>1. session'[d] = NoEngine /\ UNCHANGED backlog
    BY <1>13 DEF JammedDies, DaemonTyped
  <2>2. CASE DaemonTo(d, "unlinksock")
    <3>1. dpc'[d] \notin Busy
      BY <1>3, <2>2 DEF Busy
    <3> QED BY <1>2, <2>1, <3>1 DEF Rests
  <2>3. CASE CallFails(d) /\ dpc[d] \in {"handle", "wait"}
    BY <1>8, <2>1, <2>3
  <2>4. CASE CallFails(d) /\ dpc[d] = "restart"
    <3>1. Respond(d, Failed)
      BY <2>4 DEF CallFails, DaemonInv
    <3> QED BY <1>2, <1>4, <2>1, <3>1 DEF Rests
  <2> QED BY <1>13, <2>2, <2>3, <2>4 DEF JammedDies, Blocked
<1> QED BY <1>5, <1>6, <1>7, <1>9, <1>10, <1>11, <1>12, <1>13 DEF DaemonStep, DaemonMove

\* The engine's steps, and the deaths.
LEMMA EngineMoves ==
    ASSUME TypeOK, NEW d \in Daemons
    PROVE  /\ Chatter(d) \/ EngineDies(d) \/ EngineJams(d) \/ EngineUnjams(d) => Runs(d)
           /\ DaemonDies(d) => Rests(d)
           /\ Execute(d) =>
                /\ dpc'[d] = dpc[d] /\ backlog'[d] = backlog[d] /\ serving'[d] = serving[d]
                /\ Quieter(d)
                /\ session[d].todo # <<>> /\ session'[d].todo = Tail(session[d].todo)
<1> USE PartsAreTyped
<1>1. /\ session[d] \in Sessions /\ session[d].todo \in Seq(ToolCalls)
      /\ session[d].out \in Seq(Lines) /\ session[d].held \in Seq(Lines)
  BY DEF DaemonTyped, Sessions
<1>2. ASSUME session'[d] = NoEngine PROVE Quieter(d) /\ session'[d].todo = <<>>
  BY <1>2, Values DEF Quieter
<1>3. ASSUME Chatter(d) PROVE Runs(d)
  <2>1. Range(Append(session[d].out, Noise)) = Range(session[d].out) \cup {Noise}
    BY <1>1, Appended DEF Lines
  <2>2. /\ session'[d].out = Append(session[d].out, Noise) /\ session'[d].held = session[d].held
        /\ session'[d].todo = session[d].todo /\ session'[d].id = session[d].id
    BY <1>1, <1>3 DEF Chatter, DaemonTyped, Sessions
  <2> QED BY <1>3, <2>1, <2>2 DEF Chatter, Runs, Quieter, Pipe
<1>4. ASSUME EngineDies(d) PROVE Runs(d)
  <2>1. session'[d] = NoEngine
    BY <1>4 DEF EngineDies, DaemonTyped
  <2> QED BY <1>2, <1>4, <2>1 DEF EngineDies, Runs
<1>5. ASSUME DaemonDies(d) PROVE Rests(d)
  <2>1. session'[d] = NoEngine /\ backlog'[d] = <<>> /\ dpc'[d] = "gone"
    BY <1>5 DEF DaemonDies, DaemonTo, DaemonTyped
  <2> QED BY <1>2, <2>1 DEF Rests, Busy
<1>6. ASSUME Execute(d)
      PROVE  /\ dpc'[d] = dpc[d] /\ backlog'[d] = backlog[d] /\ serving'[d] = serving[d]
             /\ Quieter(d)
             /\ session[d].todo # <<>> /\ session'[d].todo = Tail(session[d].todo)
  <2> DEFINE line == Head(session[d].todo)
  <2>1. session[d].todo # <<>>
    BY <1>6 DEF Execute
  <2>2. line \in Lines /\ Range(session[d].todo) = {line} \cup Range(Tail(session[d].todo))
    BY <1>1, <2>1, HeadTaken DEF Lines
  <2>3. Range(Append(session[d].out, line)) = Range(session[d].out) \cup {line}
    BY <1>1, <2>2, Appended
  <2>4. /\ session'[d].out = Append(session[d].out, line) /\ session'[d].held = session[d].held
        /\ session'[d].todo = Tail(session[d].todo) /\ session'[d].id = session[d].id
    BY <1>1, <1>6 DEF Execute, DaemonTyped, Sessions
  <2>5. Quieter(d)
    BY <2>2, <2>3, <2>4 DEF Quieter, Pipe
  <2> QED BY <1>6, <2>1, <2>4, <2>5 DEF Execute
<1>7. ASSUME EngineJams(d) PROVE Runs(d)
  <2>1. session'[d] = Jammed(d)
    BY <1>7 DEF EngineJams, Jammed, DaemonTyped
  <2>2. Quieter(d) /\ session'[d].todo \in {session[d].todo, <<>>}
    BY <2>1, Jamming DEF Quieter
  <2> QED BY <1>7, <2>2 DEF EngineJams, Runs
<1>8. ASSUME EngineUnjams(d) PROVE Runs(d)
  <2>1. /\ session'[d].out = session[d].out /\ session'[d].held = session[d].held
        /\ session'[d].todo = session[d].todo /\ session'[d].id = session[d].id
    BY <1>1, <1>8 DEF EngineUnjams, DaemonTyped, Sessions
  <2> QED BY <1>8, <2>1 DEF EngineUnjams, Runs, Quieter, Pipe
<1> QED BY <1>3, <1>4, <1>5, <1>6, <1>7, <1>8

\* What comes back to a client is the answer to its request, or an error.
LEMMA DaemonKeepsClients ==
    ASSUME TypeOK, DaemonInv, SessionInv, ClientInv, AnswersAreOwn, NEW d \in Daemons, DaemonMove(d)
    PROVE  ClientInv' /\ AnswersAreOwn'
<1> USE PartsAreTyped
<1>1. UNCHANGED <<cpc, calls, attempt, executed>>
  <2>1. UNCHANGED <<cpc, calls, attempt>> /\ (Execute(d) \/ UNCHANGED executed)
    BY OtherDaemonsRest
  <2>2. CASE CallEngine(d) \/ RestartEngine(d) \/ ReadLine(d) \/ CallEnds(d) \/ JammedDies(d)
    BY <2>1, <2>2 DEF CallEngine, RestartEngine, ReadLine, CallEnds, JammedDies
  <2>3. CASE NoCommand(d) \/ UnlinkStale(d) \/ Bind(d) \/ StartEngine(d) \/ Accept(d)
             \/ IdleExit(d) \/ UnlinkSock(d) \/ UnlinkPid(d)
    BY <2>1, <2>3 DEF NoCommand, UnlinkStale, Bind, StartEngine, Accept, IdleExit,
       UnlinkSock, UnlinkPid
  <2> QED BY <2>2, <2>3 DEF DaemonStep, DaemonMove
<1> DEFINE Got(c) == \/ inbox'[c] = inbox[c]
                     \/ cpc[c] = "reply" /\ inbox'[c] \in {Failed, Request(c)}
<1>2. ASSUME NEW payload \in {Failed, serving[d].request}, Respond(d, payload),
             NEW c \in Clients
      PROVE  Got(c)
  BY <1>2 DEF Respond, ClientTyped
<1>3. ASSUME CallFails(d), NEW c \in Clients PROVE Got(c)
  BY <1>2, <1>3 DEF CallFails
<1>4. ASSUME ReadLine(d), NEW c \in Clients PROVE Got(c)
  <2> DEFINE line == Head(Taken(d))
  <2>1. line \in Pipe(session[d])
    BY <1>4, Reading DEF ReadLine, Pipe
  <2>2. CASE line # Noise /\ line.id = session[d].id /\ Respond(d, line.answers)
    <3>1. line.answers = serving[d].request
      BY <1>4, <2>1, <2>2 DEF ReadLine, SessionInv, IdsGrow
    <3> QED BY <1>2, <2>2, <3>1
  <2>3. CASE UNCHANGED inbox
    BY <2>3
  <2> QED BY <1>4, <2>2, <2>3 DEF ReadLine, Taken
<1>5. ASSUME NEW c \in Clients PROVE Got(c)
  <2>1. CASE CallEngine(d) \/ RestartEngine(d) \/ CallEnds(d) \/ JammedDies(d)
    BY <1>3, <2>1 DEF CallEngine, RestartEngine, CallEnds, JammedDies
  <2>2. CASE NoCommand(d) \/ UnlinkStale(d) \/ Bind(d) \/ StartEngine(d) \/ Accept(d)
             \/ IdleExit(d) \/ UnlinkSock(d) \/ UnlinkPid(d)
    BY <2>2 DEF NoCommand, UnlinkStale, Bind, StartEngine, Accept, IdleExit,
       UnlinkSock, UnlinkPid, client
  <2> QED BY <1>4, <2>1, <2>2 DEF DaemonStep, DaemonMove
<1> HIDE DEF Got
<1>6. ClientInv'
  BY <1>1, <1>5 DEF Got, ClientInv
<1>7. AnswersAreOwn'
  <2> SUFFICES ASSUME NEW c \in Clients, cpc'[c] = "reply", inbox'[c] \notin {Nothing, Failed}
               PROVE  inbox'[c] = Request(c)
    BY <1>1 DEF AnswersAreOwn, Request
  <2> QED BY <1>1, <1>5 DEF Got, AnswersAreOwn
<1> QED BY <1>6, <1>7

LEMMA EngineKeepsClients ==
    ASSUME TypeOK, ClientInv, AnswersAreOwn, NEW d \in Daemons,
           EngineMove(d)
    PROVE  ClientInv' /\ AnswersAreOwn'
<1>1. UNCHANGED <<cpc, calls, attempt, inbox>>
  BY DEF EngineMove, Execute, Chatter, EngineDies, DaemonDies, EngineJams, EngineUnjams, client
<1>2. ASSUME NEW c \in Clients, cpc[c] = "idle" PROVE executed'[c] = executed[c]
  <2>1. CASE Execute(d)
    <3> DEFINE r == Head(session[d].todo).answers
    <3>1. \/ executed' = executed
          \/ cpc[r.of] # "idle" /\ executed' = [executed EXCEPT ![r.of] = @ + 1]
      BY <2>1 DEF Execute
    <3> QED BY <1>2, <3>1 DEF TypeOK
  <2>2. CASE Chatter(d) \/ EngineDies(d) \/ DaemonDies(d) \/ EngineJams(d) \/ EngineUnjams(d)
    BY <2>2 DEF Chatter, EngineDies, DaemonDies, EngineJams, EngineUnjams
  <2> QED BY <2>1, <2>2 DEF EngineMove
<1>3. ClientInv'
  BY <1>1, <1>2 DEF ClientInv
<1>4. AnswersAreOwn'
  BY <1>1 DEF AnswersAreOwn, Request
<1> QED BY <1>3, <1>4

\* The daemons' part of the invariant under a daemon's or an engine's step.
LEMMA DaemonKeepsDaemons ==
    ASSUME TypeOK, DaemonInv, SessionInv, NEW d \in Daemons,
           \A e \in Daemons \ {d} :
              dpc'[e] = dpc[e] /\ serving'[e] = serving[e] /\ session'[e] = session[e],
           \/ Rests(d) \/ Accepts(d) \/ (\E e \in Sessions : Sends(d, e)) \/ Fails(d)
           \/ dpc'[d] = dpc[d] /\ serving'[d] = serving[d] /\ Quieter(d)
    PROVE  DaemonInv' /\ SessionInv'
<1> USE PartsAreTyped
<1>1. /\ session[d] \in Sessions /\ session[d].id \in Nat
      /\ \A line \in Pipe(session[d]) : line # Noise => line \in ToolCalls /\ line.id \in Nat
  <2>1. /\ session[d] \in Sessions /\ session[d].id \in Nat
        /\ session[d].todo \in Seq(ToolCalls)
        /\ session[d].out \in Seq(Lines) /\ session[d].held \in Seq(Lines)
    BY DEF DaemonTyped, Sessions
  <2>2. /\ Range(session[d].todo) \subseteq ToolCalls
        /\ Range(session[d].out) \subseteq Lines /\ Range(session[d].held) \subseteq Lines
    BY <2>1, ElementOfSeq, LenProperties DEF Range
  <2>3. \A line \in Pipe(session[d]) : line # Noise => line \in ToolCalls
    BY <2>2 DEF Pipe, Lines
  <2> QED BY <2>1, <2>3 DEF ToolCalls
<1>2. ASSUME Quieter(d), dpc'[d] # "wait" \/ (dpc[d] = "wait" /\ serving'[d] = serving[d])
      PROVE  IdsGrow(d)'
  BY <1>2 DEF Quieter, IdsGrow, SessionInv
<1>3. ASSUME session'[d] = session[d] PROVE Quieter(d)
  BY <1>3 DEF Quieter
<1> DEFINE Sound == /\ dpc'[d] \in Busy => serving'[d].request \in Requests
                    /\ dpc'[d] = "handle" => ~serving'[d].retried
                    /\ dpc'[d] = "restart" => serving'[d].retried
<1>4. ASSUME Rests(d) PROVE Sound /\ IdsGrow(d)'
  BY <1>2, <1>4 DEF Rests, Busy
<1>5. ASSUME Accepts(d) PROVE Sound /\ IdsGrow(d)'
  <2>1. backlog[d] \in Seq(Requests)
    BY DEF DaemonTyped
  <2>2. serving'[d].request \in Requests
    BY <1>5, <2>1, HeadTaken DEF Accepts
  <2> QED BY <1>2, <1>3, <1>5, <2>2 DEF Accepts
<1>6. ASSUME NEW e \in Sessions, Sends(d, e) PROVE Sound /\ IdsGrow(d)'
  <2>1. serving[d].request \in Requests
    BY <1>6 DEF Sends, DaemonInv, Busy
  <2>2. Sound
    BY <1>6, <2>1 DEF Sends
  <2>3. /\ session'[d].id = e.id + 1 /\ e.id \in Nat
        /\ Pipe(session'[d]) = Pipe(e) \cup {Written(d, e)}
        /\ Written(d, e).id = e.id + 1 /\ Written(d, e).answers = serving[d].request
    <3>1. session'[d] = Sent(d, e)
      BY <1>6 DEF Sends
    <3>2. e.id \in Nat
      BY DEF Sessions
    <3>3. /\ Sent(d, e).id = e.id + 1 /\ Pipe(Sent(d, e)) = Pipe(e) \cup {Written(d, e)}
          /\ Written(d, e).id = e.id + 1 /\ Written(d, e).answers = serving[d].request
      BY <2>1, Sending
    <3> QED BY <3>1, <3>2, <3>3
  <2>4. \A line \in Pipe(e) : line # Noise => line.id \in Nat /\ line.id <= e.id
    BY <1>1, <1>6, Values DEF Sends, IdsGrow, SessionInv
  <2>5. serving'[d] = serving[d]
    BY <1>6 DEF Sends
  <2>6. IdsGrow(d)'
    BY <2>3, <2>4, <2>5 DEF IdsGrow
  <2> QED BY <2>2, <2>6
<1>7. ASSUME Fails(d) PROVE Sound /\ IdsGrow(d)'
  BY <1>2, <1>7 DEF Fails, DaemonInv, Busy
<1>8. ASSUME dpc'[d] = dpc[d] /\ serving'[d] = serving[d] /\ Quieter(d) PROVE Sound /\ IdsGrow(d)'
  BY <1>2, <1>8 DEF DaemonInv
<1>9. Sound /\ IdsGrow(d)'
  BY <1>4, <1>5, <1>6, <1>7, <1>8
<1>10. DaemonInv'
  BY <1>9 DEF DaemonInv
<1>11. SessionInv'
  BY <1>9 DEF SessionInv, IdsGrow
<1> QED BY <1>10, <1>11

-----------------------------------------------------------------------------
(* Where the requests are *)

LEMMA RequestParts ==
    /\ \A r \in Requests : r.of \in Clients /\ r.call \in 0..MaxCalls /\ r.attempt \in {0, 1}
    /\ \A q, r \in Requests : q = r <=> q.of = r.of /\ q.call = r.call /\ q.attempt = r.attempt
  BY DEF Requests

\* What a client has sent it has sent.
LEMMA MadeStays ==
    ASSUME ClientTyped, ClientInv, NEW c \in Clients, Call(c) \/ ClientStep(c),
           NEW r \in Requests, Made(r)
    PROVE  Made(r)'
<1>1. r.of \in Clients /\ r.call \in Nat /\ r.attempt \in {0, 1}
  BY RequestParts
<1>2. CASE r.of # c
  BY <1>1, <1>2, OthersRest DEF Made
<1>3. CASE r.of = c
  <2>1. calls[c] \in Nat /\ attempt[c] \in {0, 1} /\ Moves(c)
    BY ClientMoves DEF ClientTyped
  <2>2. cpc[c] \in {"probe", "pid", "await"} => attempt[c] = 0
    BY DEF ClientInv
  <2> QED BY <1>1, <1>3, <2>1, <2>2 DEF Made, Moves
<1> QED BY <1>2, <1>3

\* The rule for steps that give nobody a request he did not have.
LEMMA PlaceRule ==
    ASSUME PlaceInv,
           \A r \in Requests : Made(r) => Made(r)',
           \A d \in Daemons : \A r \in Requests :
              /\ Held(d, r)' => Held(d, r)
              /\ Queued(d, r)' => ~Served(d, r)' /\ ~Submitted(d, r)'
              /\ Served(d, r)' /\ dpc'[d] = "handle" => ~Submitted(d, r)'
    PROVE  PlaceInv'
<1> DEFINE OwnPlace(d, r) == \A e \in Daemons : Held(d, r) /\ Held(e, r) => d = e
<1>1. ASSUME NEW d \in Daemons, NEW r \in Requests, Held(d, r)' PROVE Made(r)' /\ OwnPlace(d, r)'
  BY <1>1 DEF PlaceInv
<1> QED BY <1>1 DEF PlaceInv

\* Nobody has anything he did not have, at the same point or later.
Fades(d) ==
    \A r \in Requests :
        /\ Queued(d, r)' => Queued(d, r)
        /\ Served(d, r)' => Served(d, r)
        /\ Submitted(d, r)' => Submitted(d, r)
        /\ Served(d, r)' /\ dpc'[d] = "handle" => dpc[d] = "handle"

LEMMA PlaceFades ==
    ASSUME PlaceInv, \A r \in Requests : Made(r) => Made(r)', \A d \in Daemons : Fades(d)
    PROVE  PlaceInv'
<1>1. ASSUME NEW d \in Daemons, NEW r \in Requests
      PROVE  /\ Held(d, r)' => Held(d, r)
             /\ Queued(d, r)' => ~Served(d, r)' /\ ~Submitted(d, r)'
             /\ Served(d, r)' /\ dpc'[d] = "handle" => ~Submitted(d, r)'
  BY DEF Fades, Held, PlaceInv
<1> QED BY <1>1, PlaceRule

\* A client that is about to connect has not made the request yet.
LEMMA NotMadeYet ==
    ASSUME ClientTyped, PlaceInv, NEW c \in Clients, cpc[c] = "connect"
    PROVE  \A d \in Daemons : ~Held(d, Request(c))
<1>1. /\ Request(c) \in Requests /\ Request(c).of = c
      /\ Request(c).call = calls[c] /\ Request(c).attempt = attempt[c]
  BY RequestTyped
<1>2. ~Made(Request(c))
  BY <1>1 DEF Made, ClientTyped
<1> QED BY <1>1, <1>2 DEF PlaceInv

\* What Connect does to the queues.
LEMMA Connecting ==
    ASSUME TypeOK, PlaceInv, NEW c \in Clients, Connect(c)
    PROVE  /\ sock \in Daemons /\ Request(c) \in Requests
           /\ UNCHANGED <<dpc, serving, session>>
           /\ backlog'[sock] = Append(backlog[sock], Request(c))
           /\ \A d \in Daemons \ {sock} : backlog'[d] = backlog[d]
           /\ \A d \in Daemons : \A r \in Requests :
                Queued(d, r)' <=> Queued(d, r) \/ (d = sock /\ r = Request(c))
           /\ \A d \in Daemons : ~Held(d, Request(c))
<1>1. sock \in Daemons /\ Request(c) \in Requests /\ backlog[sock] \in Seq(Requests)
  BY ConnectTyped
<1>2. /\ UNCHANGED <<dpc, serving, session>>
      /\ backlog'[sock] = Append(backlog[sock], Request(c))
      /\ \A d \in Daemons \ {sock} : backlog'[d] = backlog[d]
  BY <1>1 DEF Connect, TypeOK
<1>3. Range(backlog'[sock]) = Range(backlog[sock]) \cup {Request(c)}
  BY <1>1, <1>2, Appended
<1>4. ASSUME NEW d \in Daemons, NEW r \in Requests
      PROVE  Queued(d, r)' <=> Queued(d, r) \/ (d = sock /\ r = Request(c))
  BY <1>2, <1>3 DEF Queued
<1>5. \A d \in Daemons : ~Held(d, Request(c))
  BY NotMadeYet, PartsAreTyped DEF Connect
<1> QED BY <1>1, <1>2, <1>4, <1>5

LEMMA ClientKeepsPlaces ==
    ASSUME TypeOK, ClientInv, DaemonInv, SessionInv, PlaceInv, OnceInv,
           NEW c \in Clients, Call(c) \/ ClientStep(c)
    PROVE  PlaceInv' /\ OnceInv'
<1> USE PartsAreTyped
<1>1. \A r \in Requests : Made(r) => Made(r)'
  BY MadeStays
<1>2. CASE Connect(c)
  <2>0. PICK q \in Requests : q = Request(c)
    BY RequestTyped
  <2>1. /\ sock \in Daemons /\ q \in Requests /\ UNCHANGED <<dpc, serving, session>>
        /\ \A d \in Daemons : ~Held(d, q)
        /\ \A d \in Daemons : \A r \in Requests :
             Queued(d, r)' <=> Queued(d, r) \/ (d = sock /\ r = q)
    BY <1>2, <2>0, Connecting
  <2>2. Made(q)'
    <3>1. q.of = c /\ q.call = calls[c] /\ q.attempt = attempt[c]
      BY <2>0, RequestTyped
    <3>2. cpc'[c] = "reply" /\ calls' = calls /\ attempt' = attempt
      BY <1>2 DEF Connect, ClientTo, ClientTyped
    <3> QED BY <3>1, <3>2 DEF Made
  <2>3. \A d \in Daemons : \A r \in Requests :
           (Served(d, r)' <=> Served(d, r)) /\ (Submitted(d, r)' <=> Submitted(d, r))
    BY <2>1 DEF Served, Submitted
  <2>4. ASSUME NEW d \in Daemons, NEW r \in Requests
        PROVE  Held(d, r)' <=> Held(d, r) \/ (d = sock /\ r = q)
    BY <2>1, <2>3 DEF Held
  <2>5. PlaceInv'
    <3> SUFFICES ASSUME NEW d \in Daemons, NEW r \in Requests
                 PROVE  /\ Held(d, r)' => Made(r)'
                        /\ \A e \in Daemons : Held(d, r)' /\ Held(e, r)' => d = e
                        /\ Queued(d, r)' => ~Served(d, r)' /\ ~Submitted(d, r)'
                        /\ Served(d, r)' /\ dpc'[d] = "handle" => ~Submitted(d, r)'
      BY DEF PlaceInv
    <3>1. CASE r = q
      <4>1. ~Queued(d, q) /\ ~Served(d, q) /\ ~Submitted(d, q)
        BY <2>1 DEF Held
      <4> QED BY <3>1, <4>1, <2>1, <2>2, <2>3, <2>4
    <3>2. CASE r # q
      BY <3>2, <1>1, <2>1, <2>3, <2>4 DEF PlaceInv
    <3> QED BY <3>1, <3>2
  <2>6. OnceInv'
    <3>1. backlog[sock] \in Seq(Requests) /\ q \notin Range(backlog[sock])
      BY <2>1 DEF Held, Queued, DaemonTyped
    <3>2. Distinct(Append(backlog[sock], q))
      BY <2>1, <3>1, AppendedOnce DEF OnceInv
    <3>3. /\ backlog'[sock] = Append(backlog[sock], q)
          /\ \A d \in Daemons \ {sock} : backlog'[d] = backlog[d]
      BY <1>2, <2>0, Connecting
    <3> QED BY <2>1, <3>2, <3>3 DEF OnceInv
  <2> QED BY <2>5, <2>6
<1>3. CASE ~Connect(c)
  <2>1. /\ UNCHANGED <<serving, session, backlog>>
        /\ \A d \in Daemons : dpc'[d] = dpc[d] \/ {dpc[d], dpc'[d]} \cap Busy = {}
    BY <1>3, ClientKeepsDaemons
  <2>2. ASSUME NEW d \in Daemons PROVE Fades(d)
    BY <2>1 DEF Fades, Queued, Served, Submitted, Busy
  <2>3. PlaceInv'
    BY <1>1, <2>2, PlaceFades
  <2>4. OnceInv'
    BY <2>1 DEF OnceInv
  <2> QED BY <2>3, <2>4
<1> QED BY <1>2, <1>3

\* The engine runs the oldest request it was sent.
Executes(d) ==
    /\ dpc'[d] = dpc[d] /\ backlog'[d] = backlog[d] /\ serving'[d] = serving[d]
    /\ Quieter(d)
    /\ session[d].todo # <<>> /\ session'[d].todo = Tail(session[d].todo)

\* In every step of d a request moves on, or is dropped, and no try is added.
Advances(d) ==
    \A r \in Requests :
        /\ Held(d, r)' => Held(d, r)
        /\ Queued(d, r)' => ~Served(d, r)' /\ ~Submitted(d, r)'
        /\ Served(d, r)' /\ dpc'[d] = "handle" => ~Submitted(d, r)'
        /\ Load(d, r)' <= Load(d, r)

\* What a load counts, before and after a step.
LEMMA LoadsCounted ==
    ASSUME NEW d, NEW r
    PROVE  /\ Load(d, r) = (IF Untried(d, r) THEN 2 ELSE IF TriedOnce(d, r) THEN 1 ELSE 0)
                           + (IF Submitted(d, r) THEN 1 ELSE 0)
           /\ Load(d, r)' = (IF Untried(d, r)' THEN 2 ELSE IF TriedOnce(d, r)' THEN 1 ELSE 0)
                            + (IF Submitted(d, r)' THEN 1 ELSE 0)
  BY DEF Load, Tries, Piped

\* A step that only drops things.
LEMMA Dropping ==
    ASSUME PlaceInv, NEW d \in Daemons, Fades(d),
           \A r \in Requests : Served(d, r)' =>
              \/ dpc'[d] = dpc[d] /\ (serving'[d].retried <=> serving[d].retried)
              \/ dpc'[d] = "restart" /\ ~serving[d].retried
    PROVE  Advances(d)
<1> SUFFICES ASSUME NEW r \in Requests
             PROVE  /\ Held(d, r)' => Held(d, r)
                    /\ Queued(d, r)' => ~Served(d, r)' /\ ~Submitted(d, r)'
                    /\ Served(d, r)' /\ dpc'[d] = "handle" => ~Submitted(d, r)'
                    /\ Load(d, r)' <= Load(d, r)
  BY DEF Advances
<1>1. /\ Queued(d, r)' => Queued(d, r)
      /\ Served(d, r)' => Served(d, r)
      /\ Submitted(d, r)' => Submitted(d, r)
      /\ Served(d, r)' /\ dpc'[d] = "handle" => dpc[d] = "handle"
  BY DEF Fades
<1>2. /\ Queued(d, r) => ~Served(d, r) /\ ~Submitted(d, r)
      /\ Served(d, r) /\ dpc[d] = "handle" => ~Submitted(d, r)
  BY DEF PlaceInv
<1>3. /\ Untried(d, r)' => Untried(d, r)
      /\ TriedOnce(d, r)' => TriedOnce(d, r) \/ Untried(d, r)
  BY <1>1 DEF Untried, TriedOnce
<1>4. Load(d, r)' <= Load(d, r)
  BY <1>1, <1>3, LoadsCounted
<1> QED BY <1>1, <1>2, <1>4 DEF Held

LEMMA Accepting ==
    ASSUME DaemonTyped, PlaceInv, OnceInv, NEW d \in Daemons, Accepts(d)
    PROVE  Advances(d)
<1>1. backlog[d] \in Seq(Requests) /\ backlog[d] # <<>> /\ Distinct(backlog[d])
  BY DEF DaemonTyped, Accepts, OnceInv
<1>2. /\ Range(backlog[d]) = {Head(backlog[d])} \cup Range(Tail(backlog[d]))
      /\ Head(backlog[d]) \notin Range(Tail(backlog[d]))
  BY <1>1, HeadTaken, HeadIsGone
<1> SUFFICES ASSUME NEW r \in Requests
             PROVE  /\ Held(d, r)' => Held(d, r)
                    /\ Queued(d, r)' => ~Served(d, r)' /\ ~Submitted(d, r)'
                    /\ Served(d, r)' /\ dpc'[d] = "handle" => ~Submitted(d, r)'
                    /\ Load(d, r)' <= Load(d, r)
  BY DEF Advances
<1>3. /\ Queued(d, r)' => Queued(d, r) /\ ~Served(d, r)'
      /\ Served(d, r)' => Queued(d, r)
      /\ Submitted(d, r)' <=> Submitted(d, r)
  BY <1>2 DEF Accepts, Queued, Served, Submitted
<1>4. Queued(d, r) => ~Served(d, r) /\ ~Submitted(d, r)
  BY DEF PlaceInv
<1>5. /\ Untried(d, r)' => Untried(d, r)
      /\ TriedOnce(d, r)' => Untried(d, r)
  BY <1>3 DEF Untried, TriedOnce
<1>6. Load(d, r)' <= Load(d, r)
  BY <1>3, <1>5, LoadsCounted
<1> QED BY <1>3, <1>4, <1>6 DEF Held

LEMMA Writing ==
    ASSUME DaemonTyped, DaemonInv, PlaceInv, NEW d \in Daemons, NEW e \in Sessions, Sends(d, e)
    PROVE  Advances(d)
<1>1. serving[d].request \in Requests
  BY DEF Sends, DaemonInv, Busy
<1>2. /\ Range(session'[d].todo) = Range(e.todo) \cup {Written(d, e)}
      /\ Written(d, e).answers = serving[d].request
  BY <1>1, Sending DEF Sends
<1>3. Range(e.todo) \subseteq Range(session[d].todo)
  <2>1. Range(<<>>) = {}
    BY DEF Range
  <2> QED BY <2>1, Values DEF Sends
<1>4. /\ dpc[d] \in {"handle", "restart"} /\ dpc'[d] = "wait"
      /\ backlog'[d] = backlog[d] /\ serving'[d] = serving[d]
      /\ dpc[d] = "handle" => ~serving[d].retried
      /\ dpc[d] = "restart" => serving[d].retried
  BY DEF Sends, DaemonInv
<1> SUFFICES ASSUME NEW r \in Requests
             PROVE  /\ Held(d, r)' => Held(d, r)
                    /\ Queued(d, r)' => ~Served(d, r)' /\ ~Submitted(d, r)'
                    /\ Served(d, r)' /\ dpc'[d] = "handle" => ~Submitted(d, r)'
                    /\ Load(d, r)' <= Load(d, r)
  BY DEF Advances
<1>5. /\ Queued(d, r)' <=> Queued(d, r)
      /\ Served(d, r)' <=> Served(d, r)
      /\ Submitted(d, r)' => Submitted(d, r) \/ Served(d, r)
  <2>1. Submitted(d, r)' => Submitted(d, r) \/ Served(d, r)
    BY <1>2, <1>3, <1>4 DEF Submitted, Served, Busy
  <2> QED BY <1>4, <2>1 DEF Queued, Served, Busy
<1>6. /\ Queued(d, r) => ~Served(d, r) /\ ~Submitted(d, r)
      /\ Served(d, r) /\ dpc[d] = "handle" => ~Submitted(d, r)
  BY DEF PlaceInv
<1>7. CASE Served(d, r)
  <2>1. ~Queued(d, r)
    BY <1>6, <1>7
  <2>2. ~Untried(d, r)' /\ (TriedOnce(d, r)' => dpc[d] = "handle")
    BY <1>4, <1>5, <2>1 DEF Untried, TriedOnce
  <2>3. IF dpc[d] = "handle" THEN Untried(d, r) ELSE TriedOnce(d, r) /\ ~TriedOnce(d, r)'
    BY <1>4, <1>7, <2>2 DEF Untried, TriedOnce
  <2>4. Load(d, r)' <= Load(d, r)
    BY <2>1, <2>2, <2>3, LoadsCounted DEF Untried
  <2> QED BY <1>4, <1>5, <1>6, <1>7, <2>4 DEF Held
<1>8. CASE ~Served(d, r)
  <2>1. (Untried(d, r)' => Untried(d, r)) /\ ~TriedOnce(d, r)'
    BY <1>5, <1>8 DEF Untried, TriedOnce
  <2>2. Load(d, r)' <= Load(d, r)
    BY <1>5, <1>8, <2>1, LoadsCounted
  <2> QED BY <1>5, <1>6, <1>8, <2>2 DEF Held
<1> QED BY <1>7, <1>8

LEMMA DaemonAdvances ==
    ASSUME TypeOK, DaemonInv, PlaceInv, OnceInv, NEW d \in Daemons,
           \/ Rests(d) \/ Accepts(d) \/ (\E e \in Sessions : Sends(d, e)) \/ Fails(d)
           \/ Runs(d) \/ Executes(d)
    PROVE  Advances(d)
<1>1. Range(<<>>) = {}
  BY DEF Range
<1>2. ASSUME session'[d].todo \in {session[d].todo, <<>>}, NEW r, Submitted(d, r)'
      PROVE  Submitted(d, r)
  BY <1>1, <1>2 DEF Submitted
<1>3. CASE Rests(d)
  BY <1>1, <1>2, <1>3, Dropping DEF Rests, Fades, Queued, Served
<1>4. CASE Fails(d)
  BY <1>4, <1>2, Dropping DEF Fails, Fades, Queued, Served, Busy
<1>5. CASE Runs(d)
  BY <1>2, <1>5, Dropping DEF Runs, Fades, Queued, Served
<1>6. CASE Executes(d)
  <2>1. session[d].todo \in Seq(ToolCalls) /\ session[d].todo # <<>>
    BY <1>6, PartsAreTyped DEF DaemonTyped, Sessions, Executes
  <2>2. Range(session'[d].todo) \subseteq Range(session[d].todo)
    BY <1>6, <2>1, HeadTaken DEF Executes
  <2>3. \A r : Submitted(d, r)' => Submitted(d, r)
    BY <2>2 DEF Submitted
  <2> QED BY <1>6, <2>3, Dropping DEF Executes, Fades, Queued, Served
<1>7. CASE Accepts(d)
  BY <1>7, Accepting, PartsAreTyped
<1>8. CASE \E e \in Sessions : Sends(d, e)
  BY <1>8, Writing, PartsAreTyped
<1> QED BY <1>3, <1>4, <1>5, <1>6, <1>7, <1>8

\* The other daemons have what they had.
LEMMA OthersKeep ==
    ASSUME NEW d, NEW r, dpc'[d] = dpc[d], backlog'[d] = backlog[d],
           serving'[d] = serving[d], session'[d] = session[d]
    PROVE  /\ Queued(d, r)' <=> Queued(d, r)
           /\ Served(d, r)' <=> Served(d, r)
           /\ Submitted(d, r)' <=> Submitted(d, r)
           /\ Held(d, r)' <=> Held(d, r)
           /\ Load(d, r)' = Load(d, r)
<1>1. /\ Queued(d, r)' <=> Queued(d, r)
      /\ Served(d, r)' <=> Served(d, r)
      /\ Submitted(d, r)' <=> Submitted(d, r)
  BY DEF Queued, Served, Submitted
<1>2. (Untried(d, r)' <=> Untried(d, r)) /\ (TriedOnce(d, r)' <=> TriedOnce(d, r))
  BY <1>1 DEF Untried, TriedOnce
<1> QED BY <1>1, <1>2, LoadsCounted DEF Held

\* No step of a daemon or its engine puts a request in two places.
LEMMA DaemonKeepsPlaces ==
    ASSUME TypeOK, DaemonInv, PlaceInv, OnceInv, NEW d \in Daemons,
           DaemonMove(d) \/ EngineMove(d)
    PROVE  /\ Advances(d) /\ PlaceInv' /\ OnceInv'
           /\ Execute(d) => Executes(d)
<1> USE PartsAreTyped
<1> DEFINE Steps == \/ Rests(d) \/ Accepts(d) \/ (\E e \in Sessions : Sends(d, e)) \/ Fails(d)
                    \/ Runs(d) \/ Executes(d)
<1>1. Steps /\ (Execute(d) => Executes(d))
  BY DaemonMoves, EngineMoves DEF Executes, EngineMove
<1>2. Advances(d)
  BY <1>1, DaemonAdvances
<1>3. /\ UNCHANGED <<cpc, calls, attempt>>
      /\ \A e \in Daemons \ {d} :
            /\ dpc'[e] = dpc[e] /\ backlog'[e] = backlog[e]
            /\ serving'[e] = serving[e] /\ session'[e] = session[e]
  BY OtherDaemonsRest
<1>4. \A r \in Requests : Made(r) => Made(r)'
  BY <1>3 DEF Made
<1>5. PlaceInv'
  <2>1. ASSUME NEW e \in Daemons, NEW r \in Requests
        PROVE  /\ Held(e, r)' => Held(e, r)
               /\ Queued(e, r)' => ~Served(e, r)' /\ ~Submitted(e, r)'
               /\ Served(e, r)' /\ dpc'[e] = "handle" => ~Submitted(e, r)'
    <3>1. CASE e = d
      BY <1>2, <3>1 DEF Advances
    <3>2. CASE e # d
      <4>1. dpc'[e] = dpc[e]
        BY <1>3, <3>2
      <4>2. /\ Queued(e, r)' <=> Queued(e, r)
            /\ Served(e, r)' <=> Served(e, r)
            /\ Submitted(e, r)' <=> Submitted(e, r)
            /\ Held(e, r)' <=> Held(e, r)
        BY <1>3, <3>2, OthersKeep
      <4> QED BY <4>1, <4>2 DEF PlaceInv
    <3> QED BY <3>1, <3>2
  <2> QED BY <1>4, <2>1, PlaceRule
<1>6. Distinct(backlog[d]) /\ Apart(session[d].todo)
  BY DEF OnceInv
<1>7. backlog[d] \in Seq(Requests) /\ session[d].todo \in Seq(ToolCalls)
  BY DEF DaemonTyped, Sessions
<1>8. Distinct(<<>>) /\ Apart(<<>>)
  BY DEF Distinct, Apart
<1>9. Distinct(backlog'[d])
  <2>1. CASE backlog'[d] \in {backlog[d], <<>>}
    BY <1>6, <1>8, <2>1
  <2>2. CASE Accepts(d)
    BY <1>6, <1>7, <2>2, HeadIsGone DEF Accepts
  <2> QED BY <1>1, <2>1, <2>2 DEF Rests, Sends, Fails, Runs, Executes
<1>10. Apart(session'[d].todo)
  <2>1. CASE session'[d].todo \in {session[d].todo, <<>>}
    BY <1>6, <1>8, <2>1
  <2>2. CASE Executes(d)
    BY <1>6, <1>7, <2>2, HeadIsGone DEF Executes
  <2>3. ASSUME NEW e \in Sessions, Sends(d, e) PROVE Apart(session'[d].todo)
    <3> DEFINE r == serving[d].request
    <3>1. r \in Requests
      BY <2>3 DEF Sends, DaemonInv, Busy
    <3>2. /\ session'[d].todo = Append(e.todo, Written(d, e))
          /\ Written(d, e) \in ToolCalls /\ Written(d, e).answers = r
          /\ e.todo \in Seq(ToolCalls)
      BY <2>3, <3>1, Sending DEF Sends, Sessions
    <3>3. Apart(e.todo)
      BY <1>6, <1>8, <2>3, Values DEF Sends
    <3>4. \A y \in Range(e.todo) : y.answers # r
      <4>1. CASE e = Fresh
        BY <4>1, Values DEF Range
      <4>2. CASE dpc[d] = "handle" /\ e = session[d]
        <5>1. Served(d, r)
          BY <4>2 DEF Served, Busy
        <5>2. ~Submitted(d, r)
          BY <3>1, <4>2, <5>1 DEF PlaceInv
        <5> QED BY <4>2, <5>2 DEF Submitted
      <4> QED BY <2>3, <4>1, <4>2 DEF Sends
    <3> HIDE DEF r
    <3> QED BY <3>2, <3>3, <3>4, AppendedOnce
  <2> QED BY <1>1, <2>1, <2>2, <2>3 DEF Rests, Accepts, Fails, Runs
<1>11. OnceInv'
  BY <1>3, <1>9, <1>10 DEF OnceInv
<1> QED BY <1>1, <1>2, <1>5, <1>11

-----------------------------------------------------------------------------
(* How often they are run *)

LEMMA LoadBounds ==
    ASSUME NEW d, NEW r
    PROVE  /\ Load(d, r) \in Nat
           /\ Load(d, r)' \in Nat
           /\ ~Held(d, r) => Load(d, r) = 0
           /\ Submitted(d, r) => Load(d, r) >= 1
           /\ ~Submitted(d, r)' => Load(d, r)' <= 2
           /\ Submitted(d, r) /\ ~Submitted(d, r)' /\ Load(d, r)' <= Load(d, r)
              /\ (Untried(d, r)' => Untried(d, r)) /\ (TriedOnce(d, r)' => TriedOnce(d, r))
              => Load(d, r)' <= Load(d, r) - 1
<1>1. ~Held(d, r) => ~Untried(d, r) /\ ~TriedOnce(d, r) /\ ~Submitted(d, r)
  BY DEF Held, Untried, TriedOnce
<1> QED BY <1>1, LoadsCounted

\* Except for the request that is being made a client's step adds no tries.
LEMMA ClientLoads ==
    ASSUME TypeOK, PlaceInv, DaemonInv, SessionInv, NEW c \in Clients, Call(c) \/ ClientStep(c),
           NEW d \in Daemons, NEW r \in Requests
    PROVE  \/ Load(d, r)' <= Load(d, r)
           \/ Connect(c) /\ r = Request(c) /\ Load(d, r) = 0 /\ Load(d, r)' <= 2
<1>1. /\ UNCHANGED <<serving, session>>
      /\ dpc'[d] = dpc[d] \/ {dpc[d], dpc'[d]} \cap Busy = {}
      /\ Connect(c) \/ UNCHANGED backlog
  BY ClientKeepsDaemons
<1>2. /\ Submitted(d, r)' <=> Submitted(d, r)
      /\ Served(d, r)' <=> Served(d, r)
      /\ Served(d, r) => dpc'[d] = dpc[d]
  BY <1>1 DEF Submitted, Served
<1>3. TriedOnce(d, r)' <=> TriedOnce(d, r)
  BY <1>1, <1>2 DEF TriedOnce
<1>4. CASE Queued(d, r)' <=> Queued(d, r)
  <2>1. Untried(d, r)' <=> Untried(d, r)
    BY <1>2, <1>4 DEF Untried
  <2>2. Load(d, r)' = Load(d, r)
    BY <1>2, <1>3, <2>1, LoadsCounted
  <2> QED BY <2>2, LoadBounds
<1>5. CASE Connect(c) /\ r = Request(c)
  <2>1. ~Held(d, r)
    BY <1>5, Connecting
  <2>2. ~Submitted(d, r)'
    BY <1>2, <2>1 DEF Held
  <2> QED BY <1>5, <2>1, <2>2, LoadBounds
<1>6. (Queued(d, r)' <=> Queued(d, r)) \/ (Connect(c) /\ r = Request(c))
  <2>1. CASE Connect(c)
    BY <2>1, Connecting
  <2>2. CASE UNCHANGED backlog
    BY <2>2 DEF Queued
  <2> QED BY <1>1, <2>1, <2>2
<1> QED BY <1>4, <1>5, <1>6

\* The budget of the client that steps.
LEMMA ClientKeepsBudget ==
    ASSUME TypeOK, ClientInv, DaemonInv, SessionInv, PlaceInv, BudgetInv,
           NEW c \in Clients, Call(c) \/ ClientStep(c),
           NEW q \in Requests, NEW r \in Requests, q = Current(c, 0)', r = Current(c, 1)',
           cpc'[c] # "idle", NEW d \in Daemons, NEW e \in Daemons
    PROVE  executed'[c] + Load(d, q)' + Load(e, r)' + Unmade(c)' <= 4
<1> USE PartsAreTyped
<1>1. Moves(c) /\ (Connect(c) \/ cpc[c] # "connect" \/ cpc'[c] # "reply")
  BY ClientMoves
<1>2. /\ executed[c] \in Nat /\ attempt[c] \in {0, 1} /\ calls[c] \in Nat
      /\ cpc[c] \in ClientPoints
  BY DEF ClientTyped
<1>3. /\ Load(d, q) \in Nat /\ Load(d, q)' \in Nat
      /\ Load(e, r) \in Nat /\ Load(e, r)' \in Nat
  BY LoadBounds
<1>4. /\ q.of = c /\ q.call = calls'[c] /\ q.attempt = 0
      /\ r.of = c /\ r.call = calls'[c] /\ r.attempt = 1
  BY DEF Current
<1>5. /\ Unmade(c) = (IF attempt[c] = 0 THEN 2 ELSE 0) + (IF cpc[c] = "connect" THEN 2 ELSE 0)
      /\ Unmade(c)' = (IF attempt'[c] = 0 THEN 2 ELSE 0) + (IF cpc'[c] = "connect" THEN 2 ELSE 0)
  BY DEF Unmade
<1>6. /\ \/ Load(d, q)' <= Load(d, q)
         \/ Connect(c) /\ q = Request(c) /\ Load(d, q) = 0 /\ Load(d, q)' <= 2
      /\ \/ Load(e, r)' <= Load(e, r)
         \/ Connect(c) /\ r = Request(c) /\ Load(e, r) = 0 /\ Load(e, r)' <= 2
  <2>1. ASSUME NEW f \in Daemons, NEW p \in Requests
        PROVE  \/ Load(f, p)' <= Load(f, p)
               \/ Connect(c) /\ p = Request(c) /\ Load(f, p) = 0 /\ Load(f, p)' <= 2
    BY ClientLoads
  <2>2. \/ Load(d, q)' <= Load(d, q)
        \/ Connect(c) /\ q = Request(c) /\ Load(d, q) = 0 /\ Load(d, q)' <= 2
    BY <2>1
  <2>3. \/ Load(e, r)' <= Load(e, r)
        \/ Connect(c) /\ r = Request(c) /\ Load(e, r) = 0 /\ Load(e, r)' <= 2
    BY <2>1
  <2> QED BY <2>2, <2>3
<1>7. CASE cpc[c] = "idle"
  <2>1. /\ cpc'[c] = "connect" /\ calls'[c] = calls[c] + 1 /\ executed'[c] = executed[c]
        /\ attempt'[c] = attempt[c]
    BY <1>1, <1>7 DEF Moves
  <2>2. executed[c] = 0
    BY <1>7 DEF ClientInv
  <2>3. ~Made(q) /\ ~Made(r)
    BY <1>2, <1>4, <2>1 DEF Made
  <2>4. ~Held(d, q) /\ ~Held(e, r)
    BY <2>3 DEF PlaceInv
  <2>5. Load(d, q) = 0 /\ Load(e, r) = 0
    BY <2>4, LoadBounds
  <2>6. ~Connect(c)
    BY <1>7 DEF Connect
  <2> QED BY <1>2, <1>3, <1>5, <1>6, <2>1, <2>2, <2>5, <2>6
<1>8. CASE cpc[c] # "idle"
  <2>1. calls'[c] = calls[c] /\ executed'[c] = executed[c]
    BY <1>1, <1>8 DEF Moves
  <2>2. q = Current(c, 0) /\ r = Current(c, 1)
    BY <1>4, <2>1, RequestParts DEF Current
  <2>3. executed[c] + Load(d, q) + Load(e, r) + Unmade(c) <= 4
    BY <1>8, <2>2 DEF BudgetInv
  <2>4. CASE Connect(c)
    <3>1. cpc[c] = "connect" /\ cpc'[c] = "reply" /\ attempt'[c] = attempt[c]
      BY <1>2, <2>4 DEF Connect, ClientTo, ClientTyped
    <3>2. ~(q = Request(c) /\ r = Request(c))
      BY <1>4
    <3> QED BY <1>2, <1>3, <1>5, <1>6, <2>1, <2>3, <3>1, <3>2
  <2>5. CASE ~Connect(c)
    <3>1. Unmade(c)' <= Unmade(c)
      <4>1. cpc[c] \in {"probe", "pid", "write", "await"} => attempt[c] = 0
        BY DEF ClientInv
      <4> QED BY <1>1, <1>2, <1>5, <1>8, <2>5, <4>1 DEF Moves
    <3>2. Unmade(c) \in Nat /\ Unmade(c)' \in Nat
      BY <1>5
    <3> QED BY <1>2, <1>3, <1>6, <2>1, <2>3, <2>5, <3>1, <3>2
  <2> QED BY <2>4, <2>5
<1> QED BY <1>7, <1>8

LEMMA ClientStepBudget ==
    ASSUME TypeOK, ClientInv, DaemonInv, SessionInv, PlaceInv, BudgetInv, ReplaysAreBounded,
           NEW c \in Clients, Call(c) \/ ClientStep(c)
    PROVE  BudgetInv' /\ ReplaysAreBounded'
<1> USE PartsAreTyped
<1>1. ASSUME NEW b \in Clients \ {c}
      PROVE  /\ cpc'[b] = cpc[b] /\ calls'[b] = calls[b] /\ attempt'[b] = attempt[b]
             /\ executed'[b] = executed[b]
  BY OthersRest
<1>2. Moves(c)
  BY ClientMoves
<1>3. BudgetInv'
  <2> SUFFICES ASSUME NEW b \in Clients, cpc'[b] # "idle",
                      NEW q \in Requests, NEW r \in Requests,
                      q = Current(b, 0)', r = Current(b, 1)',
                      NEW d \in Daemons, NEW e \in Daemons
               PROVE  executed'[b] + Load(d, q)' + Load(e, r)' + Unmade(b)' <= 4
    BY DEF BudgetInv
  <2>1. CASE b = c
    BY <2>1, ClientKeepsBudget
  <2>2. CASE b # c
    <3>1. Current(b, 0)' = Current(b, 0) /\ Current(b, 1)' = Current(b, 1)
          /\ Unmade(b)' = Unmade(b)
      BY <1>1, <2>2 DEF Current, Unmade
    <3>2. executed[b] + Load(d, q) + Load(e, r) + Unmade(b) <= 4
      BY <1>1, <2>2, <3>1 DEF BudgetInv
    <3>3. Request(c).of = c /\ q.of = b /\ r.of = b
      BY RequestTyped DEF Current
    <3>4. Load(d, q)' <= Load(d, q)
      BY <2>2, <3>3, ClientLoads
    <3>5. Load(e, r)' <= Load(e, r)
      BY <2>2, <3>3, ClientLoads
    <3>6. /\ Load(d, q) \in Nat /\ Load(d, q)' \in Nat /\ Load(e, r) \in Nat /\ Load(e, r)' \in Nat
      BY LoadBounds
    <3>7. executed[b] \in Nat /\ Unmade(b) \in Nat
      BY DEF ClientTyped, Unmade
    <3> QED BY <1>1, <2>2, <3>1, <3>2, <3>4, <3>5, <3>6, <3>7
  <2> QED BY <2>1, <2>2
<1>4. ReplaysAreBounded'
  BY <1>1, <1>2 DEF Moves, ReplaysAreBounded
<1> QED BY <1>3, <1>4

\* The bound follows from the budget.
LEMMA Bounded ==
    ASSUME ClientTyped', ClientInv', BudgetInv', NEW d \in Daemons
    PROVE  ReplaysAreBounded'
<1> SUFFICES ASSUME NEW c \in Clients PROVE executed'[c] <= 4
  BY DEF ReplaysAreBounded
<1>1. CASE cpc'[c] = "idle"
  BY <1>1 DEF ClientInv
<1>2. CASE cpc'[c] # "idle"
  <2>1. PICK q \in Requests : q = Current(c, 0)'
    BY DEF Current, Requests, ClientTyped
  <2>2. PICK r \in Requests : r = Current(c, 1)'
    BY DEF Current, Requests, ClientTyped
  <2>3. executed'[c] + Load(d, q)' + Load(d, r)' + Unmade(c)' <= 4
    BY <1>2, <2>1, <2>2 DEF BudgetInv
  <2>4. Load(d, q)' \in Nat /\ Load(d, r)' \in Nat
    BY LoadBounds
  <2>5. executed'[c] \in Nat /\ Unmade(c)' \in Nat
    BY DEF ClientTyped, Unmade
  <2> QED BY <2>3, <2>4, <2>5
<1> QED BY <1>1, <1>2

\* A step of a daemon takes from the loads and runs nothing.
LEMMA DaemonStepBudget ==
    ASSUME TypeOK, ClientInv, BudgetInv, NEW d \in Daemons, Advances(d),
           \A e \in Daemons \ {d} :
              /\ dpc'[e] = dpc[e] /\ backlog'[e] = backlog[e]
              /\ serving'[e] = serving[e] /\ session'[e] = session[e],
           UNCHANGED <<cpc, calls, attempt, executed>>
    PROVE  BudgetInv'
<1>1. ASSUME NEW e \in Daemons, NEW r \in Requests
      PROVE  Load(e, r)' <= Load(e, r) /\ Load(e, r) \in Nat /\ Load(e, r)' \in Nat
  <2>1. CASE e = d
    BY <2>1, LoadBounds DEF Advances
  <2>2. CASE e # d
    <3>1. Load(e, r)' = Load(e, r)
      BY <2>2, OthersKeep
    <3> QED BY <3>1, LoadBounds
  <2> QED BY <2>1, <2>2
<1> SUFFICES ASSUME NEW c \in Clients, cpc'[c] # "idle",
                    NEW q \in Requests, NEW r \in Requests,
                    q = Current(c, 0)', r = Current(c, 1)',
                    NEW f \in Daemons, NEW e \in Daemons
             PROVE  executed'[c] + Load(f, q)' + Load(e, r)' + Unmade(c)' <= 4
  BY DEF BudgetInv
<1>2. /\ q = Current(c, 0) /\ r = Current(c, 1) /\ Unmade(c)' = Unmade(c)
      /\ executed[c] \in Nat /\ Unmade(c) \in Nat
  BY DEF Current, Unmade, TypeOK
<1>3. executed[c] + Load(f, q) + Load(e, r) + Unmade(c) <= 4
  BY <1>2 DEF BudgetInv
<1>4. Load(f, q)' <= Load(f, q) /\ Load(f, q) \in Nat /\ Load(f, q)' \in Nat
  BY <1>1
<1>5. Load(e, r)' <= Load(e, r) /\ Load(e, r) \in Nat /\ Load(e, r)' \in Nat
  BY <1>1
<1> QED BY <1>2, <1>3, <1>4, <1>5

\* A run of the engine costs its request the place in the pipe.
LEMMA ExecuteBudget ==
    ASSUME TypeOK, ClientInv, PlaceInv, OnceInv, BudgetInv, NEW d \in Daemons, Execute(d),
           Executes(d), Advances(d)
    PROVE  BudgetInv'
<1> USE PartsAreTyped
<1> DEFINE run == Head(session[d].todo).answers
<1>1. session[d].todo \in Seq(ToolCalls) /\ session[d].todo # <<>> /\ Apart(session[d].todo)
  BY DEF DaemonTyped, Sessions, Executes, OnceInv
<1>2. PICK p \in Requests : p = run
  <2>1. Head(session[d].todo) \in ToolCalls
    BY <1>1, HeadTaken
  <2> QED BY <2>1 DEF ToolCalls
<1>3. Submitted(d, p) /\ ~Submitted(d, p)'
  <2>1. Submitted(d, p)
    BY <1>1, <1>2, HeadTaken DEF Submitted
  <2>2. \A line \in Range(session'[d].todo) : line.answers # p
    BY <1>1, <1>2, HeadIsGone DEF Executes
  <2> QED BY <2>1, <2>2 DEF Submitted
<1>4. Load(d, p)' <= Load(d, p) - 1
  <2>1. (Untried(d, p)' => Untried(d, p)) /\ (TriedOnce(d, p)' => TriedOnce(d, p))
    BY DEF Executes, Untried, TriedOnce, Queued, Served
  <2> QED BY <1>3, <2>1, LoadBounds DEF Advances
<1>5. /\ UNCHANGED <<cpc, calls, attempt>>
      /\ \A e \in Daemons \ {d} :
            /\ dpc'[e] = dpc[e] /\ backlog'[e] = backlog[e]
            /\ serving'[e] = serving[e] /\ session'[e] = session[e]
  BY OtherDaemonsRest DEF EngineMove
<1>6. ASSUME NEW e \in Daemons, NEW r \in Requests
      PROVE  Load(e, r)' <= Load(e, r) /\ Load(e, r) \in Nat /\ Load(e, r)' \in Nat
  <2>1. CASE e = d
    BY <2>1, LoadBounds DEF Advances
  <2>2. CASE e # d
    <3>1. Load(e, r)' = Load(e, r)
      BY <1>5, <2>2, OthersKeep
    <3> QED BY <3>1, LoadBounds
  <2> QED BY <2>1, <2>2
\* Only the daemon that ran it had it.
<1>7. ASSUME NEW e \in Daemons \ {d} PROVE Load(e, p) = 0
  <2>1. ~Held(e, p)
    BY <1>3 DEF PlaceInv, Held
  <2> QED BY <2>1, LoadBounds
<1> SUFFICES ASSUME NEW c \in Clients, cpc'[c] # "idle",
                    NEW q \in Requests, NEW r \in Requests,
                    q = Current(c, 0)', r = Current(c, 1)',
                    NEW f \in Daemons, NEW e \in Daemons
             PROVE  executed'[c] + Load(f, q)' + Load(e, r)' + Unmade(c)' <= 4
  BY DEF BudgetInv
<1>8. /\ q = Current(c, 0) /\ r = Current(c, 1) /\ Unmade(c)' = Unmade(c)
      /\ executed[c] \in Nat /\ Unmade(c) \in Nat
  BY <1>5 DEF Current, Unmade, ClientTyped
<1>9. \A g, h \in Daemons : executed[c] + Load(g, q) + Load(h, r) + Unmade(c) <= 4
  BY <1>5, <1>8 DEF BudgetInv
<1>10. /\ \A g \in Daemons : Load(g, q)' <= Load(g, q) /\ Load(g, q) \in Nat /\ Load(g, q)' \in Nat
       /\ \A g \in Daemons : Load(g, r)' <= Load(g, r) /\ Load(g, r) \in Nat /\ Load(g, r)' \in Nat
  BY <1>6
<1>11. executed'[c] = executed[c] \/ (executed'[c] = executed[c] + 1 /\ p \in {q, r})
  <2>1. \/ executed' = executed
        \/ /\ calls[p.of] = p.call
           /\ executed' = [executed EXCEPT ![p.of] = @ + 1]
    BY <1>2 DEF Execute
  <2>2. p.of # c \/ calls[p.of] # p.call \/ p \in {q, r}
    BY <1>8, RequestParts DEF Current
  <2>3. p.of \in Clients
    BY RequestParts
  <2> QED BY <2>1, <2>2, <2>3 DEF ClientTyped
<1>12. CASE executed'[c] = executed[c]
  BY <1>8, <1>9, <1>10, <1>12
<1>13. CASE executed'[c] = executed[c] + 1 /\ p = q
  <2>1. executed[c] + Load(d, q) + Load(e, r) + Unmade(c) <= 4
    BY <1>9
  <2>2. Load(f, q)' <= Load(d, q) - 1
    <3>1. Load(d, q) - 1 >= 0
      BY <1>3, <1>13, LoadBounds
    <3> QED BY <1>4, <1>7, <1>10, <1>13, <3>1
  <2>3. Load(e, r)' <= Load(e, r)
    BY <1>10
  <2> QED BY <1>8, <1>10, <1>13, <2>1, <2>2, <2>3
<1>14. CASE executed'[c] = executed[c] + 1 /\ p = r
  <2>1. executed[c] + Load(f, q) + Load(d, r) + Unmade(c) <= 4
    BY <1>9
  <2>2. Load(e, r)' <= Load(d, r) - 1
    <3>1. Load(d, r) - 1 >= 0
      BY <1>3, <1>14, LoadBounds
    <3> QED BY <1>4, <1>7, <1>10, <1>14, <3>1
  <2>3. Load(f, q)' <= Load(f, q)
    BY <1>10
  <2> QED BY <1>8, <1>10, <1>14, <2>1, <2>2, <2>3
<1> QED BY <1>11, <1>12, <1>13, <1>14

-----------------------------------------------------------------------------
(* The theorems *)

LEMMA InitHolds == ASSUME Init PROVE IInv
<1>1. TypeOK
  <2>1. <<>> \in Seq(Requests)
    BY EmptySeq
  <2>2. [request |-> Nothing, retried |-> FALSE] \in [request : Requests \cup {Nothing}, retried : BOOLEAN]
    OBVIOUS
  <2> QED BY <2>1, <2>2, Values DEF Init, TypeOK, DaemonPoints, ClientPoints
<1>2. ClientInv /\ DaemonInv /\ AnswersAreOwn /\ ReplaysAreBounded /\ BudgetInv
  BY DEF Init, ClientInv, DaemonInv, AnswersAreOwn, ReplaysAreBounded, BudgetInv, Busy
<1>3. SessionInv
  BY Values DEF Init, SessionInv, IdsGrow
<1>4. \A d \in Daemons : \A r \in Requests : ~Held(d, r)
  <2>1. Range(<<>>) = {}
    BY DEF Range
  <2> QED BY <2>1, Values DEF Init, Held, Queued, Served, Submitted, Busy
<1>5. PlaceInv
  BY <1>4 DEF PlaceInv, Held
<1>6. OnceInv
  BY Values DEF Init, OnceInv, Distinct, Apart
<1> QED BY <1>1, <1>2, <1>3, <1>5, <1>6 DEF IInv

LEMMA NextHolds == ASSUME IInv, Next PROVE IInv'
<1> USE PartsAreTyped DEF IInv
<1>1. TypeOK'
  BY TypeStep
<1>2. ASSUME NEW c \in Clients, Call(c) \/ ClientStep(c) PROVE IInv'
  <2>1. ClientInv' /\ AnswersAreOwn'
    BY <1>2, ClientKeepsClients
  <2>2. DaemonInv' /\ SessionInv'
    BY <1>2, ClientKeepsDaemons
  <2>3. PlaceInv' /\ OnceInv'
    BY <1>2, ClientKeepsPlaces
  <2>4. BudgetInv' /\ ReplaysAreBounded'
    BY <1>2, ClientStepBudget
  <2> QED BY <1>1, <2>1, <2>2, <2>3, <2>4
<1>3. ASSUME NEW d \in Daemons,
             DaemonMove(d) \/ EngineMove(d)
      PROVE  IInv'
  <2>1. /\ Advances(d) /\ PlaceInv' /\ OnceInv'
        /\ Execute(d) => Executes(d)
    BY <1>3, DaemonKeepsPlaces
  <2>2. /\ UNCHANGED <<cpc, calls, attempt>>
        /\ Execute(d) \/ UNCHANGED executed
        /\ \A e \in Daemons \ {d} :
              /\ dpc'[e] = dpc[e] /\ backlog'[e] = backlog[e]
              /\ serving'[e] = serving[e] /\ session'[e] = session[e]
    BY <1>3, OtherDaemonsRest
  <2>3. ClientInv' /\ AnswersAreOwn'
    BY <1>3, DaemonKeepsClients, EngineKeepsClients
  <2>4. DaemonInv' /\ SessionInv'
    <3>1. \/ Rests(d) \/ Accepts(d) \/ (\E e \in Sessions : Sends(d, e)) \/ Fails(d)
          \/ dpc'[d] = dpc[d] /\ serving'[d] = serving[d] /\ Quieter(d)
      BY <1>3, <2>1, DaemonMoves, EngineMoves DEF Runs, Executes, EngineMove
    <3> QED BY <2>2, <3>1, DaemonKeepsDaemons
  <2>5. BudgetInv'
    <3>1. CASE Execute(d)
      BY <2>1, <3>1, ExecuteBudget
    <3>2. CASE UNCHANGED executed
      BY <2>1, <2>2, <3>2, DaemonStepBudget
    <3> QED BY <2>2, <3>1, <3>2
  <2>6. ReplaysAreBounded'
    BY <1>1, <2>3, <2>5, Bounded
  <2> QED BY <1>1, <2>1, <2>3, <2>4, <2>5, <2>6
<1> QED BY <1>2, <1>3 DEF Next, DaemonMove, EngineMove

\* The inductive invariant holds in every reachable state: a request written to a
\* connection is in one daemon only, queued, served or in the pipe, the ids of a
\* session grow, and a call's runs, tries left and attempts left are four at most.
THEOREM Invariance == Spec => []IInv
<1>1. Init => IInv
  BY InitHolds
<1>2. IInv /\ [Next]_vars => IInv'
  <2>1. ASSUME IInv, UNCHANGED vars PROVE IInv'
    BY <2>1 DEF IInv, vars, files, daemon, client, TypeOK, ClientInv, DaemonInv, SessionInv,
       IdsGrow, PlaceInv, OnceInv, BudgetInv, AnswersAreOwn, ReplaysAreBounded, Held, Queued,
       Served, Submitted, Made, Load, Tries, Piped, Untried, TriedOnce, Unmade, Current, Request
  <2> QED BY <2>1, NextHolds
<1> QED BY <1>1, <1>2, PTL DEF Spec

\* The variables of clients, daemons and engine sessions keep their types.
THEOREM TypeCorrect == Spec => []TypeOK
  BY Invariance, PTL DEF IInv

\* A client is never handed the answer to another request: not to the one it gave
\* up on, not another client's, not one from before the engine was restarted.
THEOREM AnswersBelongToRequests == Spec => []AnswersAreOwn
  BY Invariance, PTL DEF IInv

\* However many daemons, faults and lost connections there are, the engines run a
\* call four times at most: two attempts of the client, two tries of a daemon.
THEOREM ReplaysBounded == Spec => []ReplaysAreBounded
  BY Invariance, PTL DEF IInv
=============================================================================
