---------------------------- MODULE DaemonProofs ----------------------------
(***************************************************************************)
(* Proofs about Daemon, for any clients and any pids.                      *)
(***************************************************************************)
EXTENDS Daemon, TLAPS

\* Nothing was started, and nobody has a pid.
LEMMA InitHolds == Init => IInv
BY NobodyAssumption
   DEF Init, IInv, TypeOK, Steps, Commands, Results, States, LockHeld, PidsSpawned, HeldPids,
       NothingWritten, Outcomes, DaemonsAreTracked, StoppedMeansStopped, FailedStartLeavesNothing,
       StartSteps, StopSteps, Shared, Live

\* Every step keeps the types.
LEMMA Typed == TypeOK /\ [Next]_vars => TypeOK'
<1> SUFFICES ASSUME TypeOK, [Next]_vars
             PROVE  TypeOK'
  OBVIOUS
<1> USE DEF TypeOK, Steps, Goto
<1>1. ASSUME NEW c \in Clients, NEW cmd \in Commands, Invoke(c, cmd)
      PROVE  TypeOK'
  BY <1>1 DEF Invoke, Results, daemon
<1>2. ASSUME NEW c \in Clients, Acquire(c)
      PROVE  TypeOK'
  BY <1>2 DEF Acquire, daemon
<1>3. ASSUME NEW c \in Clients, Step(c)
      PROVE  TypeOK'
  <2> USE DEF Ends, Orphaned, Disown, Unlink, Terminated, Results, States, daemon
  <2>1. CASE ReadPid(c)
    BY <2>1 DEF ReadPid
  <2>2. CASE Probe(c)
    BY <2>2 DEF Probe
  <2>3. CASE UnlinkStale(c)
    BY <2>3 DEF UnlinkStale
  <2>4. ASSUME NEW p \in Pids, Spawn(c, p)
        PROVE  TypeOK'
    BY <2>4 DEF Spawn
  <2>5. CASE WritePid(c)
    BY <2>5 DEF WritePid
  <2>6. CASE Healthy(c) \/ Unhealthy(c) \/ Reap(c)
    BY <2>6 DEF Healthy, Unhealthy, Reap
  <2>7. CASE UnlinkFailed(c)
    BY <2>7 DEF UnlinkFailed
  <2>8. CASE Signal(c) \/ SeeExit(c) \/ Escalate(c)
    BY <2>8 DEF Signal, SeeExit, Escalate
  <2>9. CASE UnlinkStopped(c)
    BY <2>9 DEF UnlinkStopped
  <2> QED BY <1>3, <2>1, <2>2, <2>3, <2>4, <2>5, <2>6, <2>7, <2>8, <2>9 DEF Step
<1>4. ASSUME NEW c \in Clients, Interrupt(c)
      PROVE  TypeOK'
  BY <1>4 DEF Interrupt, Orphaned, Disown, States
<1>5. ASSUME NEW p \in Pids, Bind(p) \/ Exit(p)
      PROVE  TypeOK'
  BY <1>5 DEF Bind, Exit, States, client
<1>6. CASE UNCHANGED vars
  BY <1>6 DEF vars, client, daemon
<1> QED BY <1>1, <1>2, <1>3, <1>4, <1>5, <1>6 DEF Next

-----------------------------------------------------------------------------
(* The parts of the inductive invariant. *)

\* Only the owner of the lock is past it on the way of start: the lock is taken when it
\* is free, and given up where a command ends or is interrupted.
LEMMA LockKept ==
  ASSUME TypeOK, LockHeld, [Next]_vars
  PROVE  LockHeld'
<1> USE NobodyAssumption DEF TypeOK, LockHeld,
          Goto, Ends, StartSteps, StopSteps, Shared, client
<1>1. ASSUME NEW c \in Clients, NEW cmd \in Commands, Invoke(c, cmd)
      PROVE  LockHeld'
  BY <1>1 DEF Invoke
<1>2. ASSUME NEW c \in Clients, Acquire(c)
      PROVE  LockHeld'
  BY <1>2 DEF Acquire
<1>3. ASSUME NEW c \in Clients, ReadPid(c)
      PROVE  LockHeld'
  BY <1>3 DEF ReadPid
<1>4. ASSUME NEW c \in Clients, Probe(c)
      PROVE  LockHeld'
  BY <1>4 DEF Probe
<1>5. ASSUME NEW c \in Clients, UnlinkStale(c)
      PROVE  LockHeld'
  BY <1>5 DEF UnlinkStale
<1>6. ASSUME NEW c \in Clients, NEW p \in Pids, Spawn(c, p)
      PROVE  LockHeld'
  BY <1>6 DEF Spawn
<1>7. ASSUME NEW c \in Clients, WritePid(c)
      PROVE  LockHeld'
  BY <1>7 DEF WritePid
<1>8. ASSUME NEW c \in Clients, Healthy(c)
      PROVE  LockHeld'
  BY <1>8 DEF Healthy
<1>9. ASSUME NEW c \in Clients, Unhealthy(c)
      PROVE  LockHeld'
  BY <1>9 DEF Unhealthy
<1>10. ASSUME NEW c \in Clients, Reap(c)
      PROVE  LockHeld'
  BY <1>10 DEF Reap
<1>11. ASSUME NEW c \in Clients, UnlinkFailed(c)
      PROVE  LockHeld'
  BY <1>11 DEF UnlinkFailed
<1>12. ASSUME NEW c \in Clients, Signal(c)
      PROVE  LockHeld'
  BY <1>12 DEF Signal
<1>13. ASSUME NEW c \in Clients, SeeExit(c)
      PROVE  LockHeld'
  BY <1>13 DEF SeeExit
<1>14. ASSUME NEW c \in Clients, Escalate(c)
      PROVE  LockHeld'
  BY <1>14 DEF Escalate
<1>15. ASSUME NEW c \in Clients, UnlinkStopped(c)
      PROVE  LockHeld'
  BY <1>15 DEF UnlinkStopped
<1>16. ASSUME NEW c \in Clients, Interrupt(c)
      PROVE  LockHeld'
  BY <1>16 DEF Interrupt
<1>17. ASSUME NEW p \in Pids, Bind(p) \/ Exit(p)
      PROVE  LockHeld'
  BY <1>17 DEF Bind, Exit
<1>18. CASE UNCHANGED vars
  BY <1>18 DEF vars
<1> QED
  BY <1>1, <1>2, <1>3, <1>4, <1>5, <1>6, <1>7, <1>8, <1>9, <1>10,
     <1>11, <1>12, <1>13, <1>14, <1>15, <1>16, <1>17, <1>18 DEF Next, Step

\* A spawned process is never unspawned, and a pid comes from a process just spawned or
\* from the pidfile.
LEMMA SpawnedKept ==
  ASSUME TypeOK, PidsSpawned, [Next]_vars
  PROVE  PidsSpawned'
<1> USE NobodyAssumption DEF TypeOK, PidsSpawned,
          Orphaned, Disown, Unlink, Terminated, client, daemon
<1>1. ASSUME NEW c \in Clients, NEW cmd \in Commands, Invoke(c, cmd)
      PROVE  PidsSpawned'
  BY <1>1 DEF Invoke
<1>2. ASSUME NEW c \in Clients, Acquire(c)
      PROVE  PidsSpawned'
  BY <1>2 DEF Acquire
<1>3. ASSUME NEW c \in Clients, ReadPid(c)
      PROVE  PidsSpawned'
  BY <1>3 DEF ReadPid
<1>4. ASSUME NEW c \in Clients, Probe(c)
      PROVE  PidsSpawned'
  BY <1>4 DEF Probe
<1>5. ASSUME NEW c \in Clients, UnlinkStale(c)
      PROVE  PidsSpawned'
  BY <1>5 DEF UnlinkStale
<1>6. ASSUME NEW c \in Clients, NEW p \in Pids, Spawn(c, p)
      PROVE  PidsSpawned'
  BY <1>6 DEF Spawn
<1>7. ASSUME NEW c \in Clients, WritePid(c)
      PROVE  PidsSpawned'
  BY <1>7 DEF WritePid
<1>8. ASSUME NEW c \in Clients, Healthy(c)
      PROVE  PidsSpawned'
  BY <1>8 DEF Healthy
<1>9. ASSUME NEW c \in Clients, Unhealthy(c)
      PROVE  PidsSpawned'
  BY <1>9 DEF Unhealthy
<1>10. ASSUME NEW c \in Clients, Reap(c)
      PROVE  PidsSpawned'
  BY <1>10 DEF Reap
<1>11. ASSUME NEW c \in Clients, UnlinkFailed(c)
      PROVE  PidsSpawned'
  BY <1>11 DEF UnlinkFailed
<1>12. ASSUME NEW c \in Clients, Signal(c)
      PROVE  PidsSpawned'
  BY <1>12 DEF Signal
<1>13. ASSUME NEW c \in Clients, SeeExit(c)
      PROVE  PidsSpawned'
  BY <1>13 DEF SeeExit
<1>14. ASSUME NEW c \in Clients, Escalate(c)
      PROVE  PidsSpawned'
  BY <1>14 DEF Escalate
<1>15. ASSUME NEW c \in Clients, UnlinkStopped(c)
      PROVE  PidsSpawned'
  BY <1>15 DEF UnlinkStopped
<1>16. ASSUME NEW c \in Clients, Interrupt(c)
      PROVE  PidsSpawned'
  BY <1>16 DEF Interrupt
<1>17. ASSUME NEW p \in Pids, Bind(p) \/ Exit(p)
      PROVE  PidsSpawned'
  BY <1>17 DEF Bind, Exit
<1>18. CASE UNCHANGED vars
  BY <1>18 DEF vars
<1> QED
  BY <1>1, <1>2, <1>3, <1>4, <1>5, <1>6, <1>7, <1>8, <1>9, <1>10,
     <1>11, <1>12, <1>13, <1>14, <1>15, <1>16, <1>17, <1>18 DEF Next, Step

\* What a client knows of the pid it has stays true: a process that is over stays so,
\* and one that was killed can only die.
LEMMA HeldKept ==
  ASSUME TypeOK, LockHeld, PidsSpawned, HeldPids, [Next]_vars
  PROVE  HeldPids'
<1> USE NobodyAssumption DEF TypeOK, LockHeld, PidsSpawned, HeldPids,
          Goto, Ends, Orphaned, Disown, Terminated, Live, IsRunning, StopSteps, client, daemon
<1>1. ASSUME NEW c \in Clients, NEW cmd \in Commands, Invoke(c, cmd)
      PROVE  HeldPids'
  BY <1>1 DEF Invoke
<1>2. ASSUME NEW c \in Clients, Acquire(c)
      PROVE  HeldPids'
  BY <1>2 DEF Acquire
<1>3. ASSUME NEW c \in Clients, ReadPid(c)
      PROVE  HeldPids'
  BY <1>3 DEF ReadPid
<1>4. ASSUME NEW c \in Clients, Probe(c)
      PROVE  HeldPids'
  BY <1>4 DEF Probe
<1>5. ASSUME NEW c \in Clients, UnlinkStale(c)
      PROVE  HeldPids'
  BY <1>5 DEF UnlinkStale
<1>6. ASSUME NEW c \in Clients, NEW p \in Pids, Spawn(c, p)
      PROVE  HeldPids'
  BY <1>6 DEF Spawn
<1>7. ASSUME NEW c \in Clients, WritePid(c)
      PROVE  HeldPids'
  BY <1>7 DEF WritePid
<1>8. ASSUME NEW c \in Clients, Healthy(c)
      PROVE  HeldPids'
  BY <1>8 DEF Healthy
<1>9. ASSUME NEW c \in Clients, Unhealthy(c)
      PROVE  HeldPids'
  BY <1>9 DEF Unhealthy
<1>10. ASSUME NEW c \in Clients, Reap(c)
      PROVE  HeldPids'
  BY <1>10 DEF Reap
<1>11. ASSUME NEW c \in Clients, UnlinkFailed(c)
      PROVE  HeldPids'
  BY <1>11 DEF UnlinkFailed
<1>12. ASSUME NEW c \in Clients, Signal(c)
      PROVE  HeldPids'
  BY <1>12 DEF Signal
<1>13. ASSUME NEW c \in Clients, SeeExit(c)
      PROVE  HeldPids'
  BY <1>13 DEF SeeExit
<1>14. ASSUME NEW c \in Clients, Escalate(c)
      PROVE  HeldPids'
  BY <1>14 DEF Escalate
<1>15. ASSUME NEW c \in Clients, UnlinkStopped(c)
      PROVE  HeldPids'
  BY <1>15 DEF UnlinkStopped
<1>16. ASSUME NEW c \in Clients, Interrupt(c)
      PROVE  HeldPids'
  BY <1>16 DEF Interrupt
<1>17. ASSUME NEW p \in Pids, Bind(p) \/ Exit(p)
      PROVE  HeldPids'
  BY <1>17 DEF Bind, Exit
<1>18. CASE UNCHANGED vars
  BY <1>18 DEF vars
<1> QED
  BY <1>1, <1>2, <1>3, <1>4, <1>5, <1>6, <1>7, <1>8, <1>9, <1>10,
     <1>11, <1>12, <1>13, <1>14, <1>15, <1>16, <1>17, <1>18 DEF Next, Step

\* Only the owner of the lock writes the pidfile, so it stays away until its child's pid
\* is written, and nobody can have read that pid before.
LEMMA WrittenKept ==
  ASSUME TypeOK, LockHeld, PidsSpawned, HeldPids, NothingWritten, [Next]_vars
  PROVE  NothingWritten'
<1> USE NobodyAssumption DEF TypeOK, LockHeld, PidsSpawned, HeldPids, NothingWritten,
          Goto, Ends, Unlink, StartSteps, StopSteps, client, daemon
<1>1. ASSUME NEW c \in Clients, NEW cmd \in Commands, Invoke(c, cmd)
      PROVE  NothingWritten'
  BY <1>1 DEF Invoke
<1>2. ASSUME NEW c \in Clients, Acquire(c)
      PROVE  NothingWritten'
  BY <1>2 DEF Acquire
<1>3. ASSUME NEW c \in Clients, ReadPid(c)
      PROVE  NothingWritten'
  BY <1>3 DEF ReadPid
<1>4. ASSUME NEW c \in Clients, Probe(c)
      PROVE  NothingWritten'
  BY <1>4 DEF Probe
<1>5. ASSUME NEW c \in Clients, UnlinkStale(c)
      PROVE  NothingWritten'
  BY <1>5 DEF UnlinkStale
<1>6. ASSUME NEW c \in Clients, NEW p \in Pids, Spawn(c, p)
      PROVE  NothingWritten'
  BY <1>6 DEF Spawn
<1>7. ASSUME NEW c \in Clients, WritePid(c)
      PROVE  NothingWritten'
  BY <1>7 DEF WritePid
<1>8. ASSUME NEW c \in Clients, Healthy(c)
      PROVE  NothingWritten'
  BY <1>8 DEF Healthy
<1>9. ASSUME NEW c \in Clients, Unhealthy(c)
      PROVE  NothingWritten'
  BY <1>9 DEF Unhealthy
<1>10. ASSUME NEW c \in Clients, Reap(c)
      PROVE  NothingWritten'
  BY <1>10 DEF Reap
<1>11. ASSUME NEW c \in Clients, UnlinkFailed(c)
      PROVE  NothingWritten'
  BY <1>11 DEF UnlinkFailed
<1>12. ASSUME NEW c \in Clients, Signal(c)
      PROVE  NothingWritten'
  BY <1>12 DEF Signal
<1>13. ASSUME NEW c \in Clients, SeeExit(c)
      PROVE  NothingWritten'
  BY <1>13 DEF SeeExit
<1>14. ASSUME NEW c \in Clients, Escalate(c)
      PROVE  NothingWritten'
  BY <1>14 DEF Escalate
<1>15. ASSUME NEW c \in Clients, UnlinkStopped(c)
      PROVE  NothingWritten'
  BY <1>15 DEF UnlinkStopped
<1>16. ASSUME NEW c \in Clients, Interrupt(c)
      PROVE  NothingWritten'
  BY <1>16 DEF Interrupt
<1>17. ASSUME NEW p \in Pids, Bind(p) \/ Exit(p)
      PROVE  NothingWritten'
  BY <1>17 DEF Bind, Exit
<1>18. CASE UNCHANGED vars
  BY <1>18 DEF vars
<1> QED
  BY <1>1, <1>2, <1>3, <1>4, <1>5, <1>6, <1>7, <1>8, <1>9, <1>10,
     <1>11, <1>12, <1>13, <1>14, <1>15, <1>16, <1>17, <1>18 DEF Next, Step

\* A result other than "started" is only there until the next command.
LEMMA OutcomesKept ==
  ASSUME TypeOK, HeldPids, Outcomes, [Next]_vars
  PROVE  Outcomes'
<1> USE DEF TypeOK, HeldPids, Outcomes,
          Goto, Ends, StopSteps, client
<1>1. ASSUME NEW c \in Clients, NEW cmd \in Commands, Invoke(c, cmd)
      PROVE  Outcomes'
  BY <1>1 DEF Invoke
<1>2. ASSUME NEW c \in Clients, Acquire(c)
      PROVE  Outcomes'
  BY <1>2 DEF Acquire
<1>3. ASSUME NEW c \in Clients, ReadPid(c)
      PROVE  Outcomes'
  BY <1>3 DEF ReadPid
<1>4. ASSUME NEW c \in Clients, Probe(c)
      PROVE  Outcomes'
  BY <1>4 DEF Probe
<1>5. ASSUME NEW c \in Clients, UnlinkStale(c)
      PROVE  Outcomes'
  BY <1>5 DEF UnlinkStale
<1>6. ASSUME NEW c \in Clients, NEW p \in Pids, Spawn(c, p)
      PROVE  Outcomes'
  BY <1>6 DEF Spawn
<1>7. ASSUME NEW c \in Clients, WritePid(c)
      PROVE  Outcomes'
  BY <1>7 DEF WritePid
<1>8. ASSUME NEW c \in Clients, Healthy(c)
      PROVE  Outcomes'
  BY <1>8 DEF Healthy
<1>9. ASSUME NEW c \in Clients, Unhealthy(c)
      PROVE  Outcomes'
  BY <1>9 DEF Unhealthy
<1>10. ASSUME NEW c \in Clients, Reap(c)
      PROVE  Outcomes'
  BY <1>10 DEF Reap
<1>11. ASSUME NEW c \in Clients, UnlinkFailed(c)
      PROVE  Outcomes'
  BY <1>11 DEF UnlinkFailed
<1>12. ASSUME NEW c \in Clients, Signal(c)
      PROVE  Outcomes'
  BY <1>12 DEF Signal
<1>13. ASSUME NEW c \in Clients, SeeExit(c)
      PROVE  Outcomes'
  BY <1>13 DEF SeeExit
<1>14. ASSUME NEW c \in Clients, Escalate(c)
      PROVE  Outcomes'
  BY <1>14 DEF Escalate
<1>15. ASSUME NEW c \in Clients, UnlinkStopped(c)
      PROVE  Outcomes'
  BY <1>15 DEF UnlinkStopped
<1>16. ASSUME NEW c \in Clients, Interrupt(c)
      PROVE  Outcomes'
  BY <1>16 DEF Interrupt
<1>17. ASSUME NEW p \in Pids, Bind(p) \/ Exit(p)
      PROVE  Outcomes'
  BY <1>17 DEF Bind, Exit
<1>18. CASE UNCHANGED vars
  BY <1>18 DEF vars
<1> QED
  BY <1>1, <1>2, <1>3, <1>4, <1>5, <1>6, <1>7, <1>8, <1>9, <1>10,
     <1>11, <1>12, <1>13, <1>14, <1>15, <1>16, <1>17, <1>18 DEF Next, Step

-----------------------------------------------------------------------------
(* What must hold. *)

\* A pidfile is removed under a live daemon, or a start cut off before it wrote the pid
\* of one, only by the steps that put it into `orphans`; what start overwrites is no pid.
LEMMA TrackedKept ==
  ASSUME TypeOK, LockHeld, HeldPids, NothingWritten, DaemonsAreTracked, [Next]_vars
  PROVE  DaemonsAreTracked'
<1> USE NobodyAssumption DEF TypeOK, LockHeld, HeldPids, NothingWritten, DaemonsAreTracked,
          Goto, Ends, Orphaned, Disown, Unlink, Terminated, Live, StartSteps, StopSteps, client, daemon
<1>1. ASSUME NEW c \in Clients, NEW cmd \in Commands, Invoke(c, cmd)
      PROVE  DaemonsAreTracked'
  BY <1>1 DEF Invoke
<1>2. ASSUME NEW c \in Clients, Acquire(c)
      PROVE  DaemonsAreTracked'
  BY <1>2 DEF Acquire
<1>3. ASSUME NEW c \in Clients, ReadPid(c)
      PROVE  DaemonsAreTracked'
  BY <1>3 DEF ReadPid
<1>4. ASSUME NEW c \in Clients, Probe(c)
      PROVE  DaemonsAreTracked'
  BY <1>4 DEF Probe
<1>5. ASSUME NEW c \in Clients, UnlinkStale(c)
      PROVE  DaemonsAreTracked'
  BY <1>5 DEF UnlinkStale
<1>6. ASSUME NEW c \in Clients, NEW p \in Pids, Spawn(c, p)
      PROVE  DaemonsAreTracked'
  BY <1>6 DEF Spawn
<1>7. ASSUME NEW c \in Clients, WritePid(c)
      PROVE  DaemonsAreTracked'
  BY <1>7 DEF WritePid
<1>8. ASSUME NEW c \in Clients, Healthy(c)
      PROVE  DaemonsAreTracked'
  BY <1>8 DEF Healthy
<1>9. ASSUME NEW c \in Clients, Unhealthy(c)
      PROVE  DaemonsAreTracked'
  BY <1>9 DEF Unhealthy
<1>10. ASSUME NEW c \in Clients, Reap(c)
      PROVE  DaemonsAreTracked'
  BY <1>10 DEF Reap
<1>11. ASSUME NEW c \in Clients, UnlinkFailed(c)
      PROVE  DaemonsAreTracked'
  BY <1>11 DEF UnlinkFailed
<1>12. ASSUME NEW c \in Clients, Signal(c)
      PROVE  DaemonsAreTracked'
  BY <1>12 DEF Signal
<1>13. ASSUME NEW c \in Clients, SeeExit(c)
      PROVE  DaemonsAreTracked'
  BY <1>13 DEF SeeExit
<1>14. ASSUME NEW c \in Clients, Escalate(c)
      PROVE  DaemonsAreTracked'
  BY <1>14 DEF Escalate
<1>15. ASSUME NEW c \in Clients, UnlinkStopped(c)
      PROVE  DaemonsAreTracked'
  BY <1>15 DEF UnlinkStopped
<1>16. ASSUME NEW c \in Clients, Interrupt(c)
      PROVE  DaemonsAreTracked'
  BY <1>16 DEF Interrupt
<1>17. ASSUME NEW p \in Pids, Bind(p) \/ Exit(p)
      PROVE  DaemonsAreTracked'
  BY <1>17 DEF Bind, Exit
<1>18. CASE UNCHANGED vars
  BY <1>18 DEF vars
<1> QED
  BY <1>1, <1>2, <1>3, <1>4, <1>5, <1>6, <1>7, <1>8, <1>9, <1>10,
     <1>11, <1>12, <1>13, <1>14, <1>15, <1>16, <1>17, <1>18 DEF Next, Step

\* Stop ends with a process that is over or was killed, and a start that writes the
\* pidfile afterwards writes the pid of its own child, which stop never had.
LEMMA StoppedKept ==
  ASSUME TypeOK, PidsSpawned, HeldPids, NothingWritten, Outcomes, StoppedMeansStopped, [Next]_vars
  PROVE  StoppedMeansStopped'
<1> USE NobodyAssumption DEF TypeOK, PidsSpawned, HeldPids, NothingWritten, Outcomes, StoppedMeansStopped,
          Goto, Ends, Orphaned, Disown, Unlink, Terminated, Live, StopSteps, client, daemon
<1>1. ASSUME NEW c \in Clients, NEW cmd \in Commands, Invoke(c, cmd)
      PROVE  StoppedMeansStopped'
  BY <1>1 DEF Invoke
<1>2. ASSUME NEW c \in Clients, Acquire(c)
      PROVE  StoppedMeansStopped'
  BY <1>2 DEF Acquire
<1>3. ASSUME NEW c \in Clients, ReadPid(c)
      PROVE  StoppedMeansStopped'
  BY <1>3 DEF ReadPid
<1>4. ASSUME NEW c \in Clients, Probe(c)
      PROVE  StoppedMeansStopped'
  BY <1>4 DEF Probe
<1>5. ASSUME NEW c \in Clients, UnlinkStale(c)
      PROVE  StoppedMeansStopped'
  BY <1>5 DEF UnlinkStale
<1>6. ASSUME NEW c \in Clients, NEW p \in Pids, Spawn(c, p)
      PROVE  StoppedMeansStopped'
  BY <1>6 DEF Spawn
<1>7. ASSUME NEW c \in Clients, WritePid(c)
      PROVE  StoppedMeansStopped'
  BY <1>7 DEF WritePid
<1>8. ASSUME NEW c \in Clients, Healthy(c)
      PROVE  StoppedMeansStopped'
  BY <1>8 DEF Healthy
<1>9. ASSUME NEW c \in Clients, Unhealthy(c)
      PROVE  StoppedMeansStopped'
  BY <1>9 DEF Unhealthy
<1>10. ASSUME NEW c \in Clients, Reap(c)
      PROVE  StoppedMeansStopped'
  BY <1>10 DEF Reap
<1>11. ASSUME NEW c \in Clients, UnlinkFailed(c)
      PROVE  StoppedMeansStopped'
  BY <1>11 DEF UnlinkFailed
<1>12. ASSUME NEW c \in Clients, Signal(c)
      PROVE  StoppedMeansStopped'
  BY <1>12 DEF Signal
<1>13. ASSUME NEW c \in Clients, SeeExit(c)
      PROVE  StoppedMeansStopped'
  BY <1>13 DEF SeeExit
<1>14. ASSUME NEW c \in Clients, Escalate(c)
      PROVE  StoppedMeansStopped'
  BY <1>14 DEF Escalate
<1>15. ASSUME NEW c \in Clients, UnlinkStopped(c)
      PROVE  StoppedMeansStopped'
  BY <1>15 DEF UnlinkStopped
<1>16. ASSUME NEW c \in Clients, Interrupt(c)
      PROVE  StoppedMeansStopped'
  BY <1>16 DEF Interrupt
<1>17. ASSUME NEW p \in Pids, Bind(p) \/ Exit(p)
      PROVE  StoppedMeansStopped'
  BY <1>17 DEF Bind, Exit
<1>18. CASE UNCHANGED vars
  BY <1>18 DEF vars
<1> QED
  BY <1>1, <1>2, <1>3, <1>4, <1>5, <1>6, <1>7, <1>8, <1>9, <1>10,
     <1>11, <1>12, <1>13, <1>14, <1>15, <1>16, <1>17, <1>18 DEF Next, Step

\* A start fails after its child was reaped and the pidfile removed, and no later start
\* writes that pid again.
LEMMA FailedKept ==
  ASSUME TypeOK, HeldPids, NothingWritten, Outcomes, FailedStartLeavesNothing, [Next]_vars
  PROVE  FailedStartLeavesNothing'
<1> USE NobodyAssumption DEF TypeOK, HeldPids, NothingWritten, Outcomes, FailedStartLeavesNothing,
          Goto, Ends, Orphaned, Disown, Unlink, Terminated, Live, IsRunning, StopSteps, client, daemon
<1>1. ASSUME NEW c \in Clients, NEW cmd \in Commands, Invoke(c, cmd)
      PROVE  FailedStartLeavesNothing'
  BY <1>1 DEF Invoke
<1>2. ASSUME NEW c \in Clients, Acquire(c)
      PROVE  FailedStartLeavesNothing'
  BY <1>2 DEF Acquire
<1>3. ASSUME NEW c \in Clients, ReadPid(c)
      PROVE  FailedStartLeavesNothing'
  BY <1>3 DEF ReadPid
<1>4. ASSUME NEW c \in Clients, Probe(c)
      PROVE  FailedStartLeavesNothing'
  BY <1>4 DEF Probe
<1>5. ASSUME NEW c \in Clients, UnlinkStale(c)
      PROVE  FailedStartLeavesNothing'
  BY <1>5 DEF UnlinkStale
<1>6. ASSUME NEW c \in Clients, NEW p \in Pids, Spawn(c, p)
      PROVE  FailedStartLeavesNothing'
  BY <1>6 DEF Spawn
<1>7. ASSUME NEW c \in Clients, WritePid(c)
      PROVE  FailedStartLeavesNothing'
  BY <1>7 DEF WritePid
<1>8. ASSUME NEW c \in Clients, Healthy(c)
      PROVE  FailedStartLeavesNothing'
  BY <1>8 DEF Healthy
<1>9. ASSUME NEW c \in Clients, Unhealthy(c)
      PROVE  FailedStartLeavesNothing'
  BY <1>9 DEF Unhealthy
<1>10. ASSUME NEW c \in Clients, Reap(c)
      PROVE  FailedStartLeavesNothing'
  BY <1>10 DEF Reap
<1>11. ASSUME NEW c \in Clients, UnlinkFailed(c)
      PROVE  FailedStartLeavesNothing'
  BY <1>11 DEF UnlinkFailed
<1>12. ASSUME NEW c \in Clients, Signal(c)
      PROVE  FailedStartLeavesNothing'
  BY <1>12 DEF Signal
<1>13. ASSUME NEW c \in Clients, SeeExit(c)
      PROVE  FailedStartLeavesNothing'
  BY <1>13 DEF SeeExit
<1>14. ASSUME NEW c \in Clients, Escalate(c)
      PROVE  FailedStartLeavesNothing'
  BY <1>14 DEF Escalate
<1>15. ASSUME NEW c \in Clients, UnlinkStopped(c)
      PROVE  FailedStartLeavesNothing'
  BY <1>15 DEF UnlinkStopped
<1>16. ASSUME NEW c \in Clients, Interrupt(c)
      PROVE  FailedStartLeavesNothing'
  BY <1>16 DEF Interrupt
<1>17. ASSUME NEW p \in Pids, Bind(p) \/ Exit(p)
      PROVE  FailedStartLeavesNothing'
  BY <1>17 DEF Bind, Exit
<1>18. CASE UNCHANGED vars
  BY <1>18 DEF vars
<1> QED
  BY <1>1, <1>2, <1>3, <1>4, <1>5, <1>6, <1>7, <1>8, <1>9, <1>10,
     <1>11, <1>12, <1>13, <1>14, <1>15, <1>16, <1>17, <1>18 DEF Next, Step

-----------------------------------------------------------------------------
(* The theorems. *)

\* The invariant holds in every reachable state.
LEMMA Invariance == Spec => []IInv
<1>1. IInv /\ [Next]_vars => IInv'
  BY Typed, LockKept, SpawnedKept, HeldKept, WrittenKept, OutcomesKept, TrackedKept,
     StoppedKept, FailedKept DEF IInv
<1> QED BY InitHolds, <1>1, PTL DEF Spec

\* Every reachable state is well typed, for any clients and any pids.
THEOREM TypeCorrect == Spec => []TypeOK
<1>1. IInv => TypeOK
  BY DEF IInv
<1> QED BY <1>1, Invariance, PTL

\* A live daemon is the one the pidfile names or the child of the start in progress,
\* or was lost in one of the two ways `orphans` records (start, _start_lock, stop, status).
THEOREM Tracked == Spec => []DaemonsAreTracked
<1>1. IInv => DaemonsAreTracked
  BY DEF IInv
<1> QED BY <1>1, Invariance, PTL

\* When stop reports that it stopped the daemon, it did, and the pidfile is not that
\* daemon's, whoever starts or stops what at the same time.
THEOREM Stopped == Spec => []StoppedMeansStopped
<1>1. IInv => StoppedMeansStopped
  BY DEF IInv
<1> QED BY <1>1, Invariance, PTL

\* A start that failed leaves neither its child nor its pid behind.
THEOREM FailedStart == Spec => []FailedStartLeavesNothing
<1>1. IInv => FailedStartLeavesNothing
  BY DEF IInv
<1> QED BY <1>1, Invariance, PTL

\* Two live daemons are never both unrecorded: of those that are not among the
\* orphans there is at most one, however many commands run at once.
THEOREM OneDaemon ==
  Spec => [](\A p, q \in Pids : Live(p) /\ Live(q) /\ p \notin orphans /\ q \notin orphans => p = q)
<1>1. IInv => \A p, q \in Pids : Live(p) /\ Live(q) /\ p \notin orphans /\ q \notin orphans => p = q
  BY NobodyAssumption DEF IInv, DaemonsAreTracked, NothingWritten
<1> QED BY <1>1, Invariance, PTL
=============================================================================
