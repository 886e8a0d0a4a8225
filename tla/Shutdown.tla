------------------------------ MODULE Shutdown ------------------------------
(***************************************************************************)
(* Termination of the server process on Unix: src/signals.rs and the end   *)
(* of Server::start_server (src/server.rs).                                *)
(*                                                                         *)
(* Every hyper server (the main one and, with https-redirect, the redirect *)
(* server) runs its own wait_for_signals: a task that reads that server's  *)
(* signal stream, a task that watches the `cancel` receiver, and the       *)
(* waiter that starts the graceful shutdown.  The signal streams are       *)
(* separate, but the `cancel` receiver is one Arc<Mutex<Option<Receiver>>> *)
(* shared by all servers.                                                  *)
(***************************************************************************)
EXTENDS Naturals, FiniteSets

CONSTANTS Servers,     \* {main} or {main, redirect}
          HasCancel,   \* was a `cancel` receiver given to the server?
          SenderDrops, \* may its owner drop the sender while the server runs?
          Grace,       \* grace period, in ticks
          MaxSends,    \* bound: times the owner sends on the cancel channel
          MaxConns     \* bound: connections open at a time, per server

ASSUME ShutdownAssumption ==
    /\ IsFiniteSet(Servers) /\ Servers # {}
    /\ HasCancel \in BOOLEAN /\ SenderDrops \in BOOLEAN
    /\ Grace \in Nat /\ MaxSends \in Nat /\ MaxConns \in Nat

VARIABLES signals,    \* signals[s]: what s's stream has not delivered yet
          sigTask,    \* first task of wait_for_signals
          cancelTask, \* second task of wait_for_signals
          chan,       \* messages in the mpsc channel of capacity 1
          waiter,     \* the future given to with_graceful_shutdown, and after
          timer,      \* ticks left of the grace period
          conns,      \* connections with a request being processed
          version,    \* version of the watch channel: sends so far
          seen,       \* version the shared receiver has seen
          sender,     \* is the watch sender alive?
          lock,       \* holders of the receiver's mutex (none or one server)
          process,    \* "running", "stopped" (Ok(())) or "failed" (exit(1))
          asked       \* ghost: a termination signal was sent to the process

vars == <<signals, sigTask, cancelTask, chan, waiter, timer, conns, version,
          seen, sender, lock, process, asked>>

-----------------------------------------------------------------------------
Init ==
    /\ signals    = [s \in Servers |-> {}]
    /\ sigTask    = [s \in Servers |-> "listen"]
    /\ cancelTask = [s \in Servers |-> "lock"]
    /\ chan       = [s \in Servers |-> 0]
    /\ waiter     = [s \in Servers |-> "recv"]
    /\ timer      = [s \in Servers |-> Grace]
    /\ conns      = [s \in Servers |-> 0]
    /\ version = 0 /\ seen = 0 /\ sender = HasCancel
    /\ lock = {}
    /\ process = "running"
    /\ asked = FALSE

Running == process = "running"

-----------------------------------------------------------------------------
(* The environment: signals, the owner of the cancel channel, clients.     *)

\* The kernel delivers SIGHUP, or one of SIGTERM, SIGINT, SIGQUIT, to every
\* registered stream; a pending signal of the same kind is merged with it.
Signal(kind) ==
    /\ Running
    /\ signals' = [s \in Servers |-> IF sigTask[s] = "listen"
                                     THEN signals[s] \cup {kind} ELSE signals[s]]
    /\ asked' = (asked \/ kind = "TERM")
    /\ UNCHANGED <<sigTask, cancelTask, chan, waiter, timer, conns, version,
                   seen, sender, lock, process>>

SendCancel ==
    /\ Running
    /\ sender /\ version < MaxSends
    /\ version' = version + 1
    /\ UNCHANGED <<signals, sigTask, cancelTask, chan, waiter, timer, conns,
                   seen, sender, lock, process, asked>>

DropSender ==
    /\ Running
    /\ SenderDrops /\ sender
    /\ sender' = FALSE
    /\ UNCHANGED <<signals, sigTask, cancelTask, chan, waiter, timer, conns,
                   version, seen, lock, process, asked>>

\* The listener accepts until the graceful shutdown of that server begins.
Accept(s) ==
    /\ Running
    /\ waiter[s] \in {"recv", "grace"}
    /\ conns[s] < MaxConns
    /\ conns' = [conns EXCEPT ![s] = @ + 1]
    /\ UNCHANGED <<signals, sigTask, cancelTask, chan, waiter, timer, version,
                   seen, sender, lock, process, asked>>

\* A connection's last request completes, or its client disconnects.
Finish(s) ==
    /\ Running
    /\ conns[s] > 0
    /\ conns' = [conns EXCEPT ![s] = @ - 1]
    /\ UNCHANGED <<signals, sigTask, cancelTask, chan, waiter, timer, version,
                   seen, sender, lock, process, asked>>

-----------------------------------------------------------------------------
(* wait_for_signals                                                        *)

\* Mutant: SIGHUP falls into the arm of the termination signals.
HandleHupStops(s) ==
    /\ Running
    /\ sigTask[s] = "listen" /\ "HUP" \in signals[s]
    /\ signals' = [signals EXCEPT ![s] = @ \ {"HUP"}]
    /\ sigTask' = [sigTask EXCEPT ![s] = "send"]
    /\ UNCHANGED <<cancelTask, chan, waiter, timer, conns, version, seen,
                   sender, lock, process, asked>>

\* First task: SIGHUP is logged and the loop goes on.
HandleHup(s) ==
    /\ Running
    /\ sigTask[s] = "listen" /\ "HUP" \in signals[s]
    /\ signals' = [signals EXCEPT ![s] = @ \ {"HUP"}]
    /\ UNCHANGED <<sigTask, cancelTask, chan, waiter, timer, conns, version,
                   seen, sender, lock, process, asked>>

\* Mutant: a termination signal is treated like SIGHUP.
HandleTermIgnored(s) ==
    /\ Running
    /\ sigTask[s] = "listen" /\ "TERM" \in signals[s]
    /\ signals' = [signals EXCEPT ![s] = @ \ {"TERM"}]
    /\ UNCHANGED <<sigTask, cancelTask, chan, waiter, timer, conns, version,
                   seen, sender, lock, process, asked>>

\* First task: a termination signal leaves the loop.
HandleTerm(s) ==
    /\ Running
    /\ sigTask[s] = "listen" /\ "TERM" \in signals[s]
    /\ signals' = [signals EXCEPT ![s] = @ \ {"TERM"}]
    /\ sigTask' = [sigTask EXCEPT ![s] = "send"]
    /\ UNCHANGED <<cancelTask, chan, waiter, timer, conns, version, seen,
                   sender, lock, process, asked>>

\* Sending on the channel waits for room, and fails at once when the waiter
\* has returned and dropped base_rx.
Room(s) == chan[s] = 0 \/ waiter[s] \notin {"recv", "grace"}
Deliver(s) == IF waiter[s] \in {"recv", "grace"} THEN 1 ELSE chan[s]

\* Mutant: an unbounded channel that nobody waits for.
SigSendUnbounded(s) ==
    /\ Running
    /\ sigTask[s] = "send"
    /\ chan' = [chan EXCEPT ![s] = @ + 1]
    /\ sigTask' = [sigTask EXCEPT ![s] = "ended"]
    /\ UNCHANGED <<signals, cancelTask, waiter, timer, conns, version, seen,
                   sender, lock, process, asked>>

\* First task: first_tx.send(()).await.ok(); break.
SigSend(s) ==
    /\ Running
    /\ sigTask[s] = "send" /\ Room(s)
    /\ chan' = [chan EXCEPT ![s] = Deliver(s)]
    /\ sigTask' = [sigTask EXCEPT ![s] = "ended"]
    /\ UNCHANGED <<signals, cancelTask, waiter, timer, conns, version, seen,
                   sender, lock, process, asked>>

\* Second task: cancel_recv.lock().await; without a receiver it ends at once.
TakeLock(s) ==
    /\ Running
    /\ cancelTask[s] = "lock" /\ lock = {}
    /\ IF HasCancel
       THEN /\ lock' = {s}
            /\ cancelTask' = [cancelTask EXCEPT ![s] = "watch"]
       ELSE /\ cancelTask' = [cancelTask EXCEPT ![s] = "ended"]
            /\ UNCHANGED lock
    /\ UNCHANGED <<signals, sigTask, chan, waiter, timer, conns, version, seen,
                   sender, process, asked>>

\* Mutant: the error of a dropped sender ends the task.
ChangedOrGone(s) ==
    /\ Running
    /\ cancelTask[s] = "watch"
    /\ version > seen \/ ~sender
    /\ seen' = version
    /\ IF version > seen THEN cancelTask' = [cancelTask EXCEPT ![s] = "send"] /\ UNCHANGED lock
       ELSE cancelTask' = [cancelTask EXCEPT ![s] = "ended"] /\ lock' = {}
    /\ UNCHANGED <<signals, sigTask, chan, waiter, timer, conns, version, sender, process, asked>>

\* Second task: recv.changed().await.ok(), with the mutex held: it returns when
\* there is a version the (shared) receiver has not seen, and marks it as
\* seen, or with an error when the sender is gone.
Changed(s) ==
    /\ Running
    /\ cancelTask[s] = "watch"
    /\ version > seen \/ ~sender
    /\ seen' = version
    /\ cancelTask' = [cancelTask EXCEPT ![s] = "send"]
    /\ UNCHANGED <<signals, sigTask, chan, waiter, timer, conns, version,
                   sender, lock, process, asked>>

\* Second task: last_tx.send(()).await.ok(); the guard is dropped at its end.
CancelSend(s) ==
    /\ Running
    /\ cancelTask[s] = "send" /\ Room(s)
    /\ chan' = [chan EXCEPT ![s] = Deliver(s)]
    /\ cancelTask' = [cancelTask EXCEPT ![s] = "ended"]
    /\ lock' = {}
    /\ UNCHANGED <<signals, sigTask, waiter, timer, conns, version, seen,
                   sender, process, asked>>

\* base_rx.recv().await: a message, or both senders gone with their tasks.
WaiterRecv(s) ==
    /\ Running
    /\ waiter[s] = "recv"
    /\ chan[s] > 0 \/ (sigTask[s] = "ended" /\ cancelTask[s] = "ended")
    /\ chan' = [chan EXCEPT ![s] = 0]
    /\ waiter' = [waiter EXCEPT ![s] = "grace"]
    /\ UNCHANGED <<signals, sigTask, cancelTask, timer, conns, version, seen,
                   sender, lock, process, asked>>

\* delay_graceful_shutdown: sleep for the grace period.
Tick(s) ==
    /\ Running
    /\ waiter[s] = "grace" /\ timer[s] > 0
    /\ timer' = [timer EXCEPT ![s] = @ - 1]
    /\ UNCHANGED <<signals, sigTask, cancelTask, chan, waiter, conns, version,
                   seen, sender, lock, process, asked>>

\* wait_for_signals returns: hyper stops accepting and drains connections.
BeginDrain(s) ==
    /\ Running
    /\ waiter[s] = "grace" /\ timer[s] = 0
    /\ waiter' = [waiter EXCEPT ![s] = "drain"]
    /\ UNCHANGED <<signals, sigTask, cancelTask, chan, timer, conns, version,
                   seen, sender, lock, process, asked>>

\* The hyper server future resolves once its last connection is finished.
Drained(s) ==
    /\ Running
    /\ waiter[s] = "drain" /\ conns[s] = 0
    /\ waiter' = [waiter EXCEPT ![s] = "done"]
    /\ UNCHANGED <<signals, sigTask, cancelTask, chan, timer, conns, version,
                   seen, sender, lock, process, asked>>

\* Mutant: select! instead of try_join!.
StopAtFirst ==
    /\ Running
    /\ \E s \in Servers : waiter[s] = "done"
    /\ process' = "stopped"
    /\ UNCHANGED <<signals, sigTask, cancelTask, chan, waiter, timer, conns,
                   version, seen, sender, lock, asked>>

\* try_join!(server_task, redirect_server_task), or the await of the only
\* server: start_server closes the signal handles and returns, and the runtime
\* is dropped with every task that is left.
Stop ==
    /\ Running
    /\ \A s \in Servers : waiter[s] = "done"
    /\ process' = "stopped"
    /\ UNCHANGED <<signals, sigTask, cancelTask, chan, waiter, timer, conns,
                   version, seen, sender, lock, asked>>

\* A hyper server ends with an error: std::process::exit(1).
ServerFails(s) ==
    /\ Running
    /\ waiter[s] \in {"recv", "grace"}
    /\ process' = "failed"
    /\ UNCHANGED <<signals, sigTask, cancelTask, chan, waiter, timer, conns,
                   version, seen, sender, lock, asked>>

\* What the runtime's workers and timers do for server s.
Task(s) == \/ HandleTerm(s) \/ SigSend(s) \/ TakeLock(s) \/ Changed(s)
           \/ CancelSend(s) \/ WaiterRecv(s) \/ Tick(s) \/ BeginDrain(s)
           \/ Drained(s)

Terminated == process # "running" /\ UNCHANGED vars

Next == \/ Signal("HUP") \/ Signal("TERM")
        \/ SendCancel \/ DropSender
        \/ \E s \in Servers : \/ Accept(s) \/ Finish(s) \/ HandleHup(s)
                              \/ Task(s) \/ ServerFails(s)
        \/ Stop
        \/ Terminated

Spec == Init /\ [][Next]_vars

\* Tokio polls every woken task (each of the steps of a task stays enabled
\* until it is taken), sleeps end, and, as hyper has no deadline for
\* draining, every client eventually finishes or goes away.  Nobody has to
\* send a signal or a cancel, or to drop the sender.
FairSpec ==
    /\ Spec
    /\ WF_vars(Stop)
    /\ \A s \in Servers :
         /\ WF_vars(HandleTerm(s)) /\ WF_vars(SigSend(s))
         /\ WF_vars(TakeLock(s)) /\ WF_vars(Changed(s)) /\ WF_vars(CancelSend(s))
         /\ WF_vars(WaiterRecv(s)) /\ WF_vars(Tick(s)) /\ WF_vars(BeginDrain(s))
         /\ WF_vars(Finish(s) /\ waiter[s] = "drain") /\ WF_vars(Drained(s))

-----------------------------------------------------------------------------
TypeOK ==
    /\ signals \in [Servers -> SUBSET {"HUP", "TERM"}]
    /\ sigTask \in [Servers -> {"listen", "send", "ended"}]
    /\ cancelTask \in [Servers -> {"lock", "watch", "send", "ended"}]
    /\ chan \in [Servers -> 0 .. 1]
    /\ waiter \in [Servers -> {"recv", "grace", "drain", "done"}]
    /\ timer \in [Servers -> 0 .. Grace]
    /\ conns \in [Servers -> 0 .. MaxConns]
    /\ version \in 0 .. MaxSends /\ seen \in 0 .. version
    /\ sender \in BOOLEAN
    /\ lock \subseteq Servers
    /\ process \in {"running", "stopped", "failed"}
    /\ asked \in BOOLEAN

\* A graceful stop ends no request: the process returns from start_server only
\* after every server, the redirect server included, has finished the
\* connections it accepted, those accepted during the grace period included.
NoRequestCutOff == process = "stopped" => \A s \in Servers : conns[s] = 0

\* No server leaves its accept loop unless a termination signal was sent, the
\* cancel channel was used, or its sender dropped: SIGHUP alone never does it.
OnlyOnDemand ==
    \A s \in Servers : waiter[s] # "recv" =>
        asked \/ version > 0 \/ (HasCancel /\ ~sender)

Over == process # "running"

\* A termination signal stops the process, whatever the number of servers.
SignalStops == asked ~> Over

\* The loss of the sender, unlike one send on it, stops the whole process: the
\* receiver fails for every server in turn, as the tasks of wait_for_signals
\* pass its mutex on, and each of them takes the error for a cancel (.ok()).
LostSenderStops == (HasCancel /\ ~sender) ~> Over

\* "It accepts an optional `cancel` parameter to shut down the server
\* gracefully on demand" (server.rs, run_standalone): one send on the channel
\* stops the process.
CancelStops == (version > 0) ~> Over
=============================================================================
