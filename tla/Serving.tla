------------------------------- MODULE Serving -------------------------------
(***************************************************************************)
(* The life of the process: the main task, the tick and console tasks and  *)
(* the network task with its connections (runtime.rs, network/mod.rs,      *)
(* network/transport.rs, network/auth.rs). A step of a task is what it     *)
(* does between two awaits. Deadlines may pass at any time, a client may   *)
(* be silent or gone, and accepting or saving may fail. What packets say   *)
(* is left out, but for the items a session holds outside of an inventory. *)
(* A tick may hang in its autosave, as the run StateLocksAutosave shows    *)
(* (state.rs:1117). Here the others then go on as if it had not, though    *)
(* whoever needs the players waits as well.                                *)
(***************************************************************************)
EXTENDS Tasks

vars == <<online, stopping, main, ticker, events, console, input, network, conn,
          counts, permits, jobs, hand, lost>>

None == [at |-> "none"]

Init ==
    /\ online \in BOOLEAN
    /\ stopping = FALSE
    /\ main = "running" /\ ticker = "waiting" /\ console = "reading" /\ input = "none"
    /\ events = 0
    /\ network = "starting"
    /\ conn = [c \in Clients |-> None]
    /\ counts = [total |-> 0, ips |-> [i \in Ips |-> 0]]
    /\ permits = [s \in Slots |-> {}]
    /\ jobs = [s \in Slots |-> 0]
    /\ hand = {} /\ lost = FALSE

RequestShutdown == stopping' = TRUE
Sessions == UNCHANGED <<online, conn, counts, permits, jobs, hand, lost>>
Runtime == UNCHANGED <<online, main, ticker, events, console, input>>
-----------------------------------------------------------------------------
(* The main task: CarbonServer::run                                        *)

Main(from, to) ==
    /\ main = from /\ main' = to
    /\ UNCHANGED <<stopping, ticker, console, input, network>> /\ Sessions

EmitTick == main = "running" /\ events > 0 /\ events' = events - 1 /\ Main("running", "running")
BreakLoop == stopping /\ Main("running", "disabling") /\ UNCHANGED events
DisableAll_Undrained == Main("disabling", "tick task") /\ UNCHANGED events \* mutant: the connections are not awaited
DisableAll == Main("disabling", "network task") /\ UNCHANGED events
\* The error of the network task ends run where it is awaited.
JoinNetwork ==
    /\ UNCHANGED events
    /\ \/ network = "ended" /\ Main("network task", "tick task")
       \/ network = "failed" /\ Main("network task", "failed")
JoinTick == ticker = "ended" /\ Main("tick task", "console task") /\ UNCHANGED events
JoinConsole == console = "ended" /\ Main("console task", "saving") /\ UNCHANGED events
Save == (\E end \in {"saved", "failed"} : Main("saving", end)) /\ UNCHANGED events

\* run has returned. What main does then is to drop the runtime: its tasks end
\* where they wait, and the blocking calls under way are waited for.
Returned == main \in {"saved", "failed"}
Exit ==
    /\ Returned /\ ticker = "ended" /\ console = "ended"
    /\ input # "pending" /\ \A s \in Slots : jobs[s] = 0
    /\ \A c \in Clients : ~Live(c)
    /\ Main(main, "gone") /\ UNCHANGED events

\* The signal task.
Interrupt == main # "gone" /\ RequestShutdown /\ UNCHANGED network /\ Runtime /\ Sessions

\* tick_loop: events are dropped when the queue is full.
AdvanceTick ==
    /\ ticker = "waiting"
    /\ events' = IF events < MaxEvents THEN events + 1 ELSE events
    /\ UNCHANGED <<stopping, main, ticker, console, input, network>> /\ Sessions
\* A session, or the reset, that waits to change the players.
WritesPlayers ==
    console = "confirming" \/ \E c \in Clients : conn[c].at \in {"configuration", "play"}
\* The autosave reads the players that the tick already reads, behind a writer.
HangInAutosave ==
    /\ ticker = "waiting" /\ WritesPlayers /\ ticker' = "hung"
    /\ UNCHANGED <<stopping, main, events, console, input, network>> /\ Sessions
StopTicks ==
    /\ ticker = "waiting" /\ stopping /\ ticker' = "ended"
    /\ UNCHANGED <<stopping, main, events, console, input, network>> /\ Sessions

\* console_loop waits for a line in a blocking read, which brings one or more,
\* or none when the input has ended, and which nothing can cancel.
NextLine ==
    /\ console # "ended" /\ input = "none" /\ input' = "pending"
    /\ UNCHANGED <<stopping, main, ticker, events, console, network>> /\ Sessions
LineTyped ==
    /\ input = "pending" /\ input' = "line"
    /\ UNCHANGED <<stopping, main, ticker, events, console, network>> /\ Sessions
\* A line may ask to stop, or begin a reset to be confirmed.
ReadLine ==
    /\ console # "ended" /\ input = "line" /\ input' \in {"line", "none"}
    /\ \/ console' = "confirming" /\ UNCHANGED stopping
       \/ console' = "reading" /\ UNCHANGED stopping
       \/ console = "reading" /\ RequestShutdown /\ UNCHANGED console
       \/ console' = "ended" /\ UNCHANGED stopping
    /\ UNCHANGED <<main, ticker, events, network>> /\ Sessions
StopConsole ==
    /\ console # "ended" /\ stopping /\ console' = "ended"
    /\ UNCHANGED <<stopping, main, ticker, events, input, network>> /\ Sessions
-----------------------------------------------------------------------------
(* The network task: serve                                                 *)

Authenticated ==
    /\ network = "starting"
    /\ \/ network' = "serving" /\ UNCHANGED stopping
       \/ online /\ network' = "failed" /\ RequestShutdown
    /\ Runtime /\ Sessions

Admits(c) ==
    /\ counts.total < MaxConnections
    /\ counts.ips[Ip(c)] < PerIp
\* A connection that ended counts until it is reaped; a refused one is closed.
Accept(c) ==
    /\ network = "serving" /\ conn[c].at = "none"
    /\ Cardinality({d \in Clients : conn[d].at # "none"}) < MaxConnections
    /\ Admits(c)
    /\ counts' = [total |-> counts.total + 1, ips |-> [counts.ips EXCEPT ![Ip(c)] = @ + 1]]
    /\ conn' = [conn EXCEPT ![c] = [at |-> "handshake"]]
    /\ UNCHANGED <<stopping, network, permits, jobs, hand, lost>> /\ Runtime
\* A failing accept leaves serve, and the tasks that it drops are aborted.
AcceptFails ==
    /\ network = "serving" /\ network' = "failed"
    /\ UNCHANGED stopping /\ Runtime /\ Sessions
Reap(c) ==
    /\ network \in {"serving", "draining"} /\ conn[c].at = "done"
    /\ conn' = [conn EXCEPT ![c] = None]
    /\ UNCHANGED <<stopping, network, counts, permits, jobs, hand, lost>> /\ Runtime
StopAccepting ==
    /\ network = "serving" /\ stopping /\ network' = "draining"
    /\ UNCHANGED stopping /\ Runtime /\ Sessions
Drained ==
    /\ network = "draining" /\ \A c \in Clients : conn[c].at = "none"
    /\ network' = "ended"
    /\ UNCHANGED stopping /\ Runtime /\ Sessions
-----------------------------------------------------------------------------
(* The connections: handle_connection and what it awaits                   *)

Waits(c, at) == conn[c].at = at
Network == UNCHANGED <<stopping, network>> /\ Runtime
Goes(c, at) == conn' = [conn EXCEPT ![c].at = at]
Takes(c, from, to) == Waits(c, from) /\ Goes(c, to)

\* Frames that arrive while the server is not stopping.
Handshake(c) ==
    /\ ~stopping /\ \E next \in {"status", "login", "denied"} : Takes(c, "handshake", next)
    /\ UNCHANGED <<counts, permits, jobs, hand, lost>> /\ Network
Configured(c) == \* handle_configuration, then handle_play adds the player
    /\ ~stopping /\ Takes(c, "configuration", "play")
    /\ UNCHANGED <<counts, permits, jobs, hand, lost>> /\ Network
\* A click puts items in the cursor or in a crafting grid, or takes them back.
Click(c) ==
    /\ ~stopping /\ Waits(c, "play")
    /\ \/ hand' = hand \union {c}
       \/ hand' = hand \ {c}
    /\ UNCHANGED <<conn, counts, permits, jobs, lost>> /\ Network

\* handle_login: without accounts login_denial looks at the lists at once.
LoginOffline(c) ==
    /\ ~stopping /\ ~online
    /\ \E next \in {"configuration", "denied"} : Takes(c, "login", next)
    /\ UNCHANGED <<counts, permits, jobs, hand, lost>> /\ Network
\* Authentication::login: the permit is shared with the job that may outlive
\* the connection.
LoginStart(c) ==
    /\ ~stopping /\ online /\ Waits(c, "login")
    /\ \E s \in Slots :
        /\ Free(s)
        /\ permits' = [permits EXCEPT ![s] = {"login"}]
        /\ conn' = [conn EXCEPT ![c] = [at |-> "challenged", slot |-> s]]
    /\ UNCHANGED <<counts, jobs, hand, lost>> /\ Network
SpawnJob_Unshared(s) == \* mutant: the job does not keep the permit
    /\ jobs' = [jobs EXCEPT ![s] = @ + 1]
    /\ UNCHANGED permits
SpawnJob(s) ==
    /\ jobs' = [jobs EXCEPT ![s] = @ + 1]
    /\ permits' = [permits EXCEPT ![s] = @ \union {"job"}]
Response(c) ==
    /\ ~stopping /\ Takes(c, "challenged", "deciphering")
    /\ SpawnJob(conn[c].slot)
    /\ UNCHANGED <<counts, hand, lost>> /\ Network
JobEnds(s) ==
    /\ jobs[s] > 0
    /\ jobs' = [jobs EXCEPT ![s] = @ - 1]
    /\ permits' = [permits EXCEPT ![s] = @ \ {"job"}]
    /\ \/ \E c \in Clients :
            /\ Waits(c, "deciphering") /\ conn[c].slot = s
            /\ Goes(c, "verifying")
       \/ (\A c \in Clients : Waits(c, "deciphering") => conn[c].slot # s) /\ UNCHANGED conn
    /\ UNCHANGED <<counts, hand, lost>> /\ Network
\* verify answers, and login_denial looks at the lists.
Verified(c) ==
    /\ ~stopping /\ Waits(c, "verifying")
    /\ permits' = [permits EXCEPT ![conn[c].slot] = @ \ {"login"}]
    /\ \E next \in {"configuration", "denied"} : conn' = [conn EXCEPT ![c] = [at |-> next]]
    /\ UNCHANGED <<counts, jobs, hand, lost>> /\ Network

Drops_Total(c) == \* mutant: the count of the address is left
    /\ conn' = [conn EXCEPT ![c] = [at |-> "done"]]
    /\ permits' = IF conn[c].at \in {"challenged", "deciphering", "verifying"}
                  THEN [permits EXCEPT ![conn[c].slot] = @ \ {"login"}] ELSE permits
    /\ counts' = [counts EXCEPT !.total = @ - 1]
\* What is dropped with the future of a connection, however that ends.
Drops(c) ==
    /\ conn' = [conn EXCEPT ![c] = [at |-> "done"]]
    /\ permits' = IF conn[c].at \in {"challenged", "deciphering", "verifying"}
                  THEN [permits EXCEPT ![conn[c].slot] = @ \ {"login"}] ELSE permits
    /\ counts' = [total |-> counts.total - 1, ips |-> [counts.ips EXCEPT ![Ip(c)] = @ - 1]]

\* A session returns what it holds before it ends; nobody does for the others.
Ends(c) ==
    /\ Drops(c)
    /\ hand' = hand \ {c}
    /\ UNCHANGED <<jobs, lost>> /\ Network
InLogin == {"challenged", "deciphering", "verifying"}
\* handle_status answers, and disconnect_login tells why it refuses.
StatusAnswered(c) == Waits(c, "status") /\ Ends(c)
Refused(c) == Waits(c, "denied") /\ Ends(c)
\* A client that left, is late, breaks the protocol or exceeds its budgets.
ReadFails(c) == Live(c) /\ conn[c].at \notin {"denied", "deciphering", "verifying"} /\ Ends(c)
WriteFails(c) == Live(c) /\ conn[c].at \notin {"handshake", "deciphering", "verifying"} /\ Ends(c)
\* The session service does not know the account, or another one.
VerifyFails(c) == Waits(c, "verifying") /\ Ends(c)
\* The deadline of the setup, the only one while a job deciphers.
SetupExpires(c) == conn[c].at \in InLogin /\ Ends(c)
\* Reads, writes and the login look for the shutdown first.
Stopped_Deaf(c) == stopping /\ Live(c) /\ ~Waits(c, "play") /\ Ends(c) \* mutant: a session reads on
Stopped(c) == stopping /\ Live(c) /\ Ends(c)
\* The JoinSet that serve dropped aborts its tasks where they wait.
Abort(c) ==
    /\ network = "failed" /\ Live(c)
    /\ Drops(c)
    /\ lost' = (lost \/ c \in hand)
    /\ hand' = hand \ {c}
    /\ UNCHANGED jobs /\ Network

Connection(c) ==
    \/ Handshake(c) \/ LoginOffline(c) \/ LoginStart(c) \/ Response(c) \/ Verified(c) \/ Configured(c)
    \/ Click(c) \/ StatusAnswered(c) \/ Refused(c) \/ ReadFails(c) \/ WriteFails(c)
    \/ VerifyFails(c) \/ SetupExpires(c) \/ Stopped(c) \/ Abort(c)
MainTask ==
    \/ EmitTick \/ BreakLoop \/ DisableAll \/ JoinNetwork \/ JoinTick \/ JoinConsole
    \/ Save \/ Exit
Next ==
    \/ MainTask \/ Interrupt
    \/ AdvanceTick \/ HangInAutosave \/ StopTicks
    \/ NextLine \/ LineTyped \/ ReadLine \/ StopConsole
    \/ Authenticated \/ AcceptFails \/ StopAccepting \/ Drained
    \/ \E c \in Clients : Accept(c) \/ Reap(c) \/ Connection(c)
    \/ \E s \in Slots : JobEnds(s)

\* A task that can go on does, and a job computes and ends; select takes every
\* ready branch at some time. Nobody has to type, and a tick may hang.
Fairness ==
    /\ WF_vars(BreakLoop) /\ WF_vars(DisableAll) /\ WF_vars(JoinNetwork)
    /\ WF_vars(JoinTick) /\ WF_vars(JoinConsole) /\ WF_vars(Save) /\ WF_vars(Exit)
    /\ WF_vars(StopTicks) /\ WF_vars(StopConsole)
    /\ WF_vars(Authenticated) /\ WF_vars(StopAccepting) /\ WF_vars(Drained)
    /\ \A c \in Clients : WF_vars(Reap(c)) /\ WF_vars(Stopped(c)) /\ WF_vars(Abort(c))
    /\ \A s \in Slots : WF_vars(JobEnds(s))
Spec == Init /\ [][Next]_vars /\ Fairness
-----------------------------------------------------------------------------
Settled == {"none", "handshake", "status", "login", "denied", "configuration", "play", "done"}
Connections == [at: Settled] \union [at: InLogin, slot: Slots]

TypeOK ==
    /\ stopping \in BOOLEAN /\ online \in BOOLEAN /\ lost \in BOOLEAN
    /\ main \in {"running", "disabling", "network task", "tick task", "console task",
                 "saving", "saved", "failed", "gone"}
    /\ ticker \in {"waiting", "hung", "ended"}
    /\ input \in {"none", "pending", "line"} /\ console \in {"reading", "confirming", "ended"}
    /\ network \in {"starting", "serving", "draining", "ended", "failed"}
    /\ events \in 0 .. MaxEvents
    /\ conn \in [Clients -> Connections]
    /\ counts \in [total: Nat, ips: [Ips -> Nat]]
    /\ permits \in [Slots -> SUBSET {"login", "job"}]
    /\ jobs \in [Slots -> Nat]
    /\ hand \subseteq Clients

-----------------------------------------------------------------------------
\* What makes JobsBounded true: a login keeps the permit of a slot of its own,
\* a job keeps its own, and before a login has its answer no job runs on its slot.
PermitsKept ==
    /\ \A s \in Slots : jobs[s] = IF "job" \in permits[s] THEN 1 ELSE 0
    /\ \A c \in Clients : conn[c].at \in InLogin =>
        /\ "login" \in permits[conn[c].slot]
        /\ \A d \in Clients :
            conn[d].at \in InLogin /\ conn[d].slot = conn[c].slot => d = c
        /\ Waits(c, "challenged") => "job" \notin permits[conn[c].slot]

\* What makes SavedLast true: the main task has come to where it waits for a
\* task only after those before have ended, and the network task ends when no
\* connection is left to be reaped; items are lost only where it failed.
TasksJoined ==
    /\ hand \subseteq {c \in Clients : Waits(c, "play")}
    /\ lost => network = "failed"
    /\ network = "ended" => \A c \in Clients : Waits(c, "none")
    /\ main \in {"tick task", "console task", "saving", "saved"} => network = "ended"
    /\ main \in {"console task", "saving", "saved"} => ticker = "ended"
    /\ main \in {"saving", "saved"} => console = "ended"

ServingInvariant == TypeOK /\ AdmissionsExact /\ PermitsKept /\ TasksJoined
-----------------------------------------------------------------------------
\* Once a shutdown is requested run returns, with silent clients, jobs that run
\* on and a network task that failed, and the process ends: unless a tick hangs,
\* or the console was waiting for a line, for as long as nobody types one.
Stops ==
    /\ stopping ~> (main = "gone" \/ ticker = "hung" \/ (Returned /\ input = "pending"))
    /\ (Returned /\ console = "ended" /\ input # "pending") ~> (main = "gone" \/ ticker = "hung")
=============================================================================
