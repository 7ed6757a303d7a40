-------------------------------- MODULE Tasks --------------------------------
(***************************************************************************)
(* The state of the tasks of the process and what they promise, apart from *)
(* how they go about it: the main task, the tick and console tasks, the    *)
(* network task and its connections (runtime.rs, network/mod.rs,           *)
(* network/transport.rs, network/auth.rs). Serving has the steps.          *)
(***************************************************************************)
EXTENDS Naturals, FiniteSets

CONSTANTS Clients,       \* each has one connection at a time
          Ip(_),         \* the address a client connects from
          MaxConnections, \* 128 connections at once
          PerIp,         \* 8 of them from one address
          Slots,         \* the four permits of Authentication
          MaxEvents      \* 128 events between the tick task and the main task

ASSUME ServingAssumption ==
    /\ MaxConnections \in Nat \ {0} /\ PerIp \in Nat \ {0} /\ MaxEvents \in Nat
    /\ IsFiniteSet(Clients) /\ IsFiniteSet(Slots)

VARIABLES online,   \* whether accounts are verified
          stopping, \* the shutdown watch
          main,     \* where CarbonServer::run is
          ticker,   \* the tick task
          events,   \* the number of ticks queued for the main task
          console,  \* the console task
          input,    \* the blocking read of the standard input: none, pending, a line
          network,  \* the task that serves
          conn,     \* the task of each client's connection
          counts,   \* Admissions: connections in all, and from each address
          permits,  \* who keeps the permit of each slot
          jobs,     \* how many RSA jobs that took a slot are running
          hand,     \* the clients whose session holds items
          lost      \* whether a session ended with items in its hand

\* A connection whose task runs, a permit that nobody keeps, and the addresses.
Live(c) == conn[c].at \notin {"none", "done"}
Free(s) == permits[s] = {}
Ips == {Ip(c) : c \in Clients}
-----------------------------------------------------------------------------
\* The final save finds every connection closed, all that sessions held back in
\* the inventories and the tick and console tasks ended, however clients, a
\* reset in progress and the shutdown cross each other.
SavedLast ==
    main \in {"saving", "saved"} =>
        /\ ticker = "ended" /\ console = "ended" /\ network = "ended"
        /\ hand = {} /\ ~lost /\ \A c \in Clients : ~Live(c)

LiveClients == {c \in Clients : Live(c)}
LiveFrom(i) == {c \in LiveClients : Ip(c) = i}

\* Each connection is counted once, for as long as it lives and whatever ends
\* it, so the limits hold and no address is locked out by connections it lost.
AdmissionsExact ==
    /\ counts.total = Cardinality(LiveClients) /\ counts.total <= MaxConnections
    /\ \A i \in Ips : counts.ips[i] = Cardinality(LiveFrom(i)) /\ counts.ips[i] <= PerIp

\* No more RSA jobs run than there are permits, though the connection that
\* asked for a job may be gone and another login may have begun.
JobsBounded == \A s \in Slots : jobs[s] <= (IF Free(s) THEN 0 ELSE 1)
=============================================================================
