--------------------------- MODULE ShutdownProofs ---------------------------
(***************************************************************************)
(* Proofs about Shutdown, for any finite set of servers, any grace period  *)
(* and any number of connections and of uses of the cancel channel.        *)
(***************************************************************************)
EXTENDS Shutdown, TLAPS

\* What may stop a server: a termination signal, a send on the cancel channel,
\* or the loss of its sender.
Demand == asked \/ version > 0 \/ (HasCancel /\ ~sender)

\* A demand is on its way before it reaches the waiter: in a signal stream, in
\* one of the two tasks, in the channel.
OnItsWay ==
    \A s \in Servers :
        /\ "TERM" \in signals[s] => asked
        /\ sigTask[s] # "listen" => asked
        /\ cancelTask[s] = "watch" => HasCancel
        /\ cancelTask[s] = "send" => Demand
        /\ chan[s] # 0 => Demand
        /\ waiter[s] # "recv" => Demand

\* A server that is done has no connection left, and the process stops only
\* when all are done.
DoneIsIdle ==
    /\ \A s \in Servers : waiter[s] = "done" => conns[s] = 0
    /\ process = "stopped" => \A s \in Servers : waiter[s] = "done"

ShutdownInv == TypeOK /\ OnItsWay /\ DoneIsIdle

-----------------------------------------------------------------------------
LEMMA InitShutdown == Init => ShutdownInv
  <1> SUFFICES ASSUME Init PROVE ShutdownInv
    OBVIOUS
  <1>1. TypeOK
    <2>1. sender \in BOOLEAN
      BY ShutdownAssumption, Zenon DEF Init
    <2>2. asked \in BOOLEAN
      BY Zenon DEF Init
    <2> QED BY <2>1, <2>2, ShutdownAssumption DEF Init, TypeOK
  <1>2. OnItsWay
    BY DEF Init, OnItsWay
  <1>3. DoneIsIdle
    BY DEF Init, DoneIsIdle
  <1> QED BY <1>1, <1>2, <1>3 DEF ShutdownInv

\* Every step of the process keeps the types of its state.
LEMMA TypeStep == TypeOK /\ [Next]_vars => TypeOK'
  <1> SUFFICES ASSUME TypeOK, [Next]_vars PROVE TypeOK'
    OBVIOUS
  <1> USE ShutdownAssumption DEF TypeOK
  <1>1. ASSUME NEW k \in {"HUP", "TERM"}, Signal(k) PROVE TypeOK'
    BY <1>1 DEF Signal
  <1>2. CASE SendCancel
    BY <1>2 DEF SendCancel
  <1>3. CASE DropSender
    BY <1>3 DEF DropSender
  <1>4. ASSUME NEW s \in Servers, Accept(s) PROVE TypeOK'
    BY <1>4 DEF Accept
  <1>5. ASSUME NEW s \in Servers, Finish(s) PROVE TypeOK'
    BY <1>5 DEF Finish
  <1>6. ASSUME NEW s \in Servers, HandleHup(s) PROVE TypeOK'
    BY <1>6 DEF HandleHup
  <1>7. ASSUME NEW s \in Servers, Task(s) PROVE TypeOK'
    <2>1. CASE HandleTerm(s)
      BY <2>1 DEF HandleTerm
    <2>2. CASE SigSend(s)
      BY <2>2 DEF SigSend, Deliver
    <2>3. CASE TakeLock(s)
      BY <2>3 DEF TakeLock
    <2>4. CASE Changed(s)
      BY <2>4 DEF Changed
    <2>5. CASE CancelSend(s)
      BY <2>5 DEF CancelSend, Deliver
    <2>6. CASE WaiterRecv(s)
      BY <2>6 DEF WaiterRecv
    <2>7. CASE Tick(s)
      BY <2>7 DEF Tick
    <2>8. CASE BeginDrain(s)
      BY <2>8 DEF BeginDrain
    <2>9. CASE Drained(s)
      BY <2>9 DEF Drained
    <2> QED BY <1>7, <2>1, <2>2, <2>3, <2>4, <2>5, <2>6, <2>7, <2>8, <2>9 DEF Task
  <1>8. ASSUME NEW s \in Servers, ServerFails(s) PROVE TypeOK'
    BY <1>8 DEF ServerFails
  <1>9. CASE Stop
    BY <1>9 DEF Stop
  <1>10. CASE UNCHANGED vars
    BY <1>10 DEF vars
  <1> QED BY <1>1, <1>2, <1>3, <1>4, <1>5, <1>6, <1>7, <1>8, <1>9, <1>10 DEF Next, Terminated

\* A demand is never taken back.
LEMMA DemandStays == TypeOK /\ [Next]_vars => (Demand => Demand') /\ (asked => asked')
  <1> SUFFICES ASSUME TypeOK, [Next]_vars PROVE (Demand => Demand') /\ (asked => asked')
    OBVIOUS
  <1>1. ASSUME NEW k \in {"HUP", "TERM"}, Signal(k) PROVE (Demand => Demand') /\ (asked => asked')
    BY <1>1 DEF Signal, Demand
  <1>2. CASE SendCancel
    BY <1>2 DEF SendCancel, Demand, TypeOK
  <1>3. CASE DropSender
    BY <1>3 DEF DropSender, Demand
  <1>4. CASE UNCHANGED <<asked, version, sender>>
    BY <1>4 DEF Demand
  <1> QED BY <1>1, <1>2, <1>3, <1>4
          DEF Next, Task, Accept, Finish, HandleHup, HandleTerm, SigSend, TakeLock, Changed,
              CancelSend, WaiterRecv, Tick, BeginDrain, Drained, ServerFails, Stop,
              Terminated, vars

\* Only a demand gets on its way, and it stays one until it arrives.
LEMMA DemandStep == TypeOK /\ OnItsWay /\ [Next]_vars => OnItsWay'
  <1> SUFFICES ASSUME TypeOK, OnItsWay, [Next]_vars PROVE OnItsWay'
    OBVIOUS
  <1>0. (Demand => Demand') /\ (asked => asked')
    BY DemandStays
  <1>a. asked => Demand
    BY DEF Demand
  <1>1. ASSUME NEW k \in {"HUP", "TERM"}, Signal(k) PROVE OnItsWay'
    BY <1>0, <1>1 DEF Signal, OnItsWay, TypeOK
  <1>2. ASSUME NEW s \in Servers, HandleHup(s) PROVE OnItsWay'
    BY <1>0, <1>2 DEF HandleHup, OnItsWay, TypeOK
  <1>3. ASSUME NEW s \in Servers, HandleTerm(s) PROVE OnItsWay'
    BY <1>0, <1>3 DEF HandleTerm, OnItsWay, TypeOK
  <1>4. ASSUME NEW s \in Servers, SigSend(s) PROVE OnItsWay'
    BY <1>0, <1>a, <1>4 DEF SigSend, OnItsWay, TypeOK
  <1>5. ASSUME NEW s \in Servers, TakeLock(s) PROVE OnItsWay'
    BY <1>0, <1>5 DEF TakeLock, OnItsWay, TypeOK
  <1>6. ASSUME NEW s \in Servers, Changed(s) PROVE OnItsWay'
    <2>1. HasCancel
      BY <1>6 DEF Changed, OnItsWay
    <2>2. Demand
      BY <2>1, <1>6 DEF Changed, Demand, TypeOK
    <2> QED BY <1>0, <2>1, <2>2, <1>6 DEF Changed, OnItsWay, TypeOK
  <1>7. ASSUME NEW s \in Servers, CancelSend(s) PROVE OnItsWay'
    BY <1>0, <1>7 DEF CancelSend, OnItsWay, TypeOK
  <1>8. ASSUME NEW s \in Servers, WaiterRecv(s) PROVE OnItsWay'
    <2>1. Demand
      BY <1>8, <1>a DEF WaiterRecv, OnItsWay, TypeOK
    <2> QED BY <1>0, <2>1, <1>8 DEF WaiterRecv, OnItsWay, TypeOK
  <1>9. ASSUME NEW s \in Servers, BeginDrain(s) PROVE OnItsWay'
    BY <1>0, <1>9 DEF BeginDrain, OnItsWay, TypeOK
  <1>10. ASSUME NEW s \in Servers, Drained(s) PROVE OnItsWay'
    BY <1>0, <1>10 DEF Drained, OnItsWay, TypeOK
  <1>11. CASE UNCHANGED <<signals, sigTask, cancelTask, chan, waiter>>
    BY <1>0, <1>11 DEF OnItsWay
  <1> QED BY <1>1, <1>2, <1>3, <1>4, <1>5, <1>6, <1>7, <1>8, <1>9, <1>10, <1>11
          DEF Next, Task, SendCancel, DropSender, Accept, Finish, Tick, ServerFails, Stop,
              Terminated, vars

\* Nothing is accepted by a server that is done, and nothing happens in a
\* process that has stopped.
LEMMA IdleStep == TypeOK /\ DoneIsIdle /\ [Next]_vars => DoneIsIdle'
  <1> SUFFICES ASSUME TypeOK, DoneIsIdle, [Next]_vars PROVE DoneIsIdle'
    OBVIOUS
  <1>1. ASSUME NEW s \in Servers, Accept(s) PROVE DoneIsIdle'
    BY <1>1 DEF Accept, Running, DoneIsIdle, TypeOK
  <1>2. ASSUME NEW s \in Servers, Finish(s) PROVE DoneIsIdle'
    BY <1>2 DEF Finish, Running, DoneIsIdle, TypeOK
  <1>3. ASSUME NEW s \in Servers, WaiterRecv(s) PROVE DoneIsIdle'
    BY <1>3 DEF WaiterRecv, Running, DoneIsIdle, TypeOK
  <1>4. ASSUME NEW s \in Servers, BeginDrain(s) PROVE DoneIsIdle'
    BY <1>4 DEF BeginDrain, Running, DoneIsIdle, TypeOK
  <1>5. ASSUME NEW s \in Servers, Drained(s) PROVE DoneIsIdle'
    BY <1>5 DEF Drained, Running, DoneIsIdle, TypeOK
  <1>6. ASSUME NEW s \in Servers, ServerFails(s) PROVE DoneIsIdle'
    BY <1>6 DEF ServerFails, DoneIsIdle
  <1>7. CASE Stop
    BY <1>7 DEF Stop, DoneIsIdle
  <1>8. CASE UNCHANGED <<waiter, conns, process>>
    BY <1>8 DEF DoneIsIdle
  <1> QED BY <1>1, <1>2, <1>3, <1>4, <1>5, <1>6, <1>7, <1>8
          DEF Next, Task, Signal, SendCancel, DropSender, HandleHup, HandleTerm, SigSend,
              TakeLock, Changed, CancelSend, Tick, Terminated, vars

\* The inductive invariant of the termination protocol.
LEMMA ShutdownInductive == Spec => []ShutdownInv
  <1>1. ShutdownInv /\ [Next]_vars => ShutdownInv'
    BY TypeStep, DemandStep, IdleStep DEF ShutdownInv
  <1> QED BY InitShutdown, <1>1, PTL DEF Spec

-----------------------------------------------------------------------------
\* The tasks, channels and timers of every server keep their types: no channel
\* of wait_for_signals ever holds more than the one message it has room for.
THEOREM ShutdownTypes == Spec => []TypeOK
  <1>1. ShutdownInv => TypeOK
    BY DEF ShutdownInv
  <1> QED BY <1>1, ShutdownInductive, PTL

\* No server, whatever their number, leaves its accept loop unless somebody
\* asked for it.
THEOREM StopsOnlyOnDemand == Spec => []OnlyOnDemand
  <1>1. ShutdownInv => OnlyOnDemand
    BY DEF ShutdownInv, OnItsWay, Demand, OnlyOnDemand
  <1> QED BY <1>1, ShutdownInductive, PTL

\* start_server returns with no request under way on any server.
THEOREM GracefulStop == Spec => []NoRequestCutOff
  <1>1. ShutdownInv => NoRequestCutOff
    BY DEF ShutdownInv, DoneIsIdle, NoRequestCutOff
  <1> QED BY <1>1, ShutdownInductive, PTL
=============================================================================
