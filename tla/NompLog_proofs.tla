-------------------------- MODULE NompLog_proofs --------------------------
(***************************************************************************)
(* Proofs about NompLog: types, ids and tables.                            *)
(***************************************************************************)
EXTENDS NompLog, SequenceTheorems, TLAPS

\* The ids the client holds are those of the errors in the table, no more and
\* no less.
IdsAreIndices == held = {<<i, logs[i]>> : i \in 1 .. Len(logs)}

\* No timer was started later than now: its lap is not negative.
StartedBefore(ts, now) == \A i \in 1 .. Len(ts) : ts[i].last_tick <= now

\* Each table fits, a name has one entry, and the ids are the indices.
IInv ==
  /\ TypeOK
  /\ IdsAreIndices
  /\ TablesFit
  /\ StartedBefore(time_logs, clock)

\* Room is made for one more, and never taken away.
LEMMA RoomForOne ==
  ASSUME NEW n \in Nat, NEW max \in Nat, n <= max
  PROVE  Room(n, max) \in Nat /\ n + 1 <= Room(n, max)
<1>1. max \div 2 \in Nat
  OBVIOUS
<1> QED BY <1>1 DEF Room

\* The initial state satisfies the invariant.
LEMMA InitInv == Init => IInv
BY NompLogAssumption
   DEF Init, IInv, TypeOK, IdsAreIndices, TablesFit, TimeLog, StartedBefore

\* nomp_log() of an error.
LEMMA LogErrorInv ==
  ASSUME IInv, NEW e \in Errors, LogError(e)
  PROVE  IInv'
<1> USE DEF IInv, TypeOK
<1>1. /\ logs' = Append(logs, e)
      /\ logs_max' = Room(Len(logs), logs_max)
      /\ held' = held \cup {<<Len(logs) + 1, e>>}
      /\ UNCHANGED <<time_logs, time_logs_max, profile_level, clock>>
  BY DEF LogError, NextId, timevars
<1>2. logs' \in Seq(Errors) /\ Len(logs') = Len(logs) + 1
  BY <1>1
<1>3. Len(logs') <= logs_max' /\ logs_max' \in Nat
  BY <1>1, <1>2, RoomForOne DEF TablesFit
<1>4. TypeOK'
  BY <1>1, <1>2, <1>3
<1>5. IdsAreIndices'
  <2>1. \A i \in 1 .. Len(logs) : logs'[i] = logs[i]
    BY <1>1
  <2>2. logs'[Len(logs) + 1] = e
    BY <1>1
  <2>3. 1 .. Len(logs') = 1 .. Len(logs) \cup {Len(logs) + 1}
    BY <1>2
  <2> QED BY <1>1, <2>1, <2>2, <2>3 DEF IdsAreIndices
<1>6. TablesFit'
  BY <1>1, <1>3 DEF TablesFit
<1>7. StartedBefore(time_logs, clock)'
  BY <1>1 DEF StartedBefore
<1> QED BY <1>4, <1>5, <1>6, <1>7

\* nomp_profile() that starts a timer it does not find.
LEMMA CreateInv ==
  ASSUME IInv, NEW name \in Names, Create(name),
         UNCHANGED <<errorvars, profile_level, clock>>
  PROVE  IInv'
<1> USE DEF IInv, TypeOK
<1> DEFINE new == [entry |-> name, total_calls |-> 0, total_time |-> 0,
                   last_tick |-> clock]
<1>1. time_logs' = Append(time_logs, new)
  BY DEF Create
<1>2. new \in TimeLog
  BY DEF TimeLog
<1>3. time_logs' \in Seq(TimeLog) /\ Len(time_logs') = Len(time_logs) + 1
  BY <1>1, <1>2
<1>4. Len(time_logs') <= time_logs_max' /\ time_logs_max' \in Nat
  BY <1>3, RoomForOne DEF Create, TablesFit
<1>5. TypeOK' /\ IdsAreIndices'
  BY <1>3, <1>4 DEF errorvars, IdsAreIndices
<1>6. \A i \in 1 .. Len(time_logs) :
        time_logs'[i] = time_logs[i] /\ time_logs[i].entry # name
  BY <1>1 DEF Create, Entries
<1>7. time_logs'[Len(time_logs) + 1].entry = name
  BY <1>1
<1>8. \A i, j \in 1 .. Len(time_logs') :
        time_logs'[i].entry = time_logs'[j].entry => i = j
  <2> SUFFICES ASSUME NEW i \in 1 .. Len(time_logs'), NEW j \in 1 .. Len(time_logs'),
                      time_logs'[i].entry = time_logs'[j].entry
               PROVE  i = j
    OBVIOUS
  <2>1. CASE i \in 1 .. Len(time_logs) /\ j \in 1 .. Len(time_logs)
    BY <2>1, <1>6 DEF TablesFit
  <2>2. \A k \in 1 .. Len(time_logs') :
          k \in 1 .. Len(time_logs) \/ k = Len(time_logs) + 1
    BY <1>3
  <2>3. \A k \in 1 .. Len(time_logs) : time_logs'[k].entry # name
    BY <1>6
  <2> QED BY <2>1, <2>2, <2>3, <1>7
<1>9. TablesFit'
  BY <1>4, <1>8 DEF TablesFit, errorvars
<1>10. StartedBefore(time_logs, clock)'
  <2>1. time_logs'[Len(time_logs) + 1].last_tick = clock
    BY <1>1
  <2> QED BY <2>1, <1>3, <1>6 DEF StartedBefore
<1> QED BY <1>5, <1>9, <1>10

\* An entry that keeps its name is replaced.
LEMMA ReplaceInv ==
  ASSUME IInv, NEW i \in 1 .. Len(time_logs), NEW t \in TimeLog,
         t.entry = time_logs[i].entry, t.last_tick <= clock,
         time_logs' = [time_logs EXCEPT ![i] = t],
         UNCHANGED <<errorvars, time_logs_max, profile_level, clock>>
  PROVE  IInv'
<1> USE DEF IInv, TypeOK
<1>1. time_logs' \in Seq(TimeLog) /\ Len(time_logs') = Len(time_logs)
  OBVIOUS
<1>2. \A j \in 1 .. Len(time_logs) : time_logs'[j].entry = time_logs[j].entry
  OBVIOUS
<1>3. TypeOK' /\ IdsAreIndices'
  BY <1>1 DEF errorvars, IdsAreIndices
<1>4. TablesFit'
  BY <1>1, <1>2 DEF TablesFit, errorvars
<1>5. \A j \in 1 .. Len(time_logs) : time_logs'[j] = IF j = i THEN t ELSE time_logs[j]
  OBVIOUS
<1>6. StartedBefore(time_logs, clock)'
  BY <1>1, <1>5 DEF StartedBefore
<1> QED BY <1>3, <1>4, <1>6

\* An entry whose fields are set to natural numbers is an entry of the same name.
LEMMA SetTick ==
  ASSUME NEW r \in TimeLog, NEW now \in Nat
  PROVE  /\ [r EXCEPT !.last_tick = now] \in TimeLog
         /\ [r EXCEPT !.last_tick = now].entry = r.entry
         /\ [r EXCEPT !.last_tick = now].last_tick = now
BY DEF TimeLog

\* nomp_profile() that starts a timer it finds.
LEMMA RestartInv ==
  ASSUME IInv, NEW name \in Names, Restart(name),
         UNCHANGED <<errorvars, profile_level, clock>>
  PROVE  IInv'
<1>1. PICK i \in Entries(name) :
        time_logs' = [time_logs EXCEPT ![i].last_tick = clock]
  BY DEF Restart
<1> DEFINE t == [time_logs[i] EXCEPT !.last_tick = clock]
<1>2. i \in 1 .. Len(time_logs) /\ time_logs[i] \in TimeLog
  BY <1>1 DEF Entries, IInv, TypeOK
<1>3. t \in TimeLog /\ t.entry = time_logs[i].entry /\ t.last_tick <= clock
  BY <1>2, SetTick DEF IInv, TypeOK
<1>4. time_logs' = [time_logs EXCEPT ![i] = t]
  BY <1>1
<1>5. UNCHANGED time_logs_max
  BY DEF Restart
<1> HIDE DEF t
<1> QED BY <1>2, <1>3, <1>4, <1>5, ReplaceInv

\* nomp_profile() that stops a timer: the lap is a natural number because the
\* clock has not run backwards since the timer was started.
LEMMA LapStored ==
  ASSUME IInv, NEW name \in Names, ToggleOff(name)
  PROVE  \E i \in 1 .. Len(time_logs), t \in TimeLog :
           /\ time_logs[i].entry = name /\ time_logs[i].last_tick # 0
           /\ t.entry = name /\ t.last_tick = 0
           /\ t.total_calls = time_logs[i].total_calls + 1
           /\ t.total_time = time_logs[i].total_time + (clock - time_logs[i].last_tick)
           /\ time_logs' = [time_logs EXCEPT ![i] = t]
<1>1. PICK i \in Entries(name) :
        /\ time_logs[i].last_tick # 0
        /\ time_logs' = [time_logs EXCEPT
             ![i].total_calls = @ + 1,
             ![i].total_time = @ + (clock - time_logs[i].last_tick),
             ![i].last_tick = 0]
  BY DEF ToggleOff
<1> DEFINE calls == time_logs[i].total_calls + 1
           total == time_logs[i].total_time + (clock - time_logs[i].last_tick)
           t == [time_logs[i] EXCEPT !.total_calls = calls, !.total_time = total,
                                     !.last_tick = 0]
<1>2. i \in 1 .. Len(time_logs) /\ time_logs[i] \in TimeLog /\ time_logs[i].entry = name
  BY <1>1 DEF Entries, IInv, TypeOK
<1>3. calls \in Nat /\ total \in Nat
  <2>1. /\ time_logs[i].total_calls \in Nat /\ time_logs[i].total_time \in Nat
        /\ time_logs[i].last_tick \in Nat
    BY <1>2 DEF TimeLog
  <2>2. clock \in Nat /\ time_logs[i].last_tick <= clock
    BY <1>2 DEF StartedBefore, IInv, TypeOK
  <2> QED BY <2>1, <2>2
<1>4. time_logs' = [time_logs EXCEPT ![i] = t]
  BY <1>1, <1>2 DEF TimeLog
<1> HIDE DEF calls, total
<1>5. /\ t \in TimeLog /\ t.entry = time_logs[i].entry /\ t.last_tick = 0
      /\ t.total_calls = calls /\ t.total_time = total
  BY <1>2, <1>3 DEF TimeLog
<1> HIDE DEF t
<1> QED BY <1>1, <1>2, <1>4, <1>5 DEF calls, total

LEMMA ToggleOffInv ==
  ASSUME IInv, NEW name \in Names, ToggleOff(name)
  PROVE  IInv'
<1>1. PICK i \in 1 .. Len(time_logs), t \in TimeLog :
        /\ time_logs[i].entry = name /\ t.entry = name /\ t.last_tick = 0
        /\ time_logs' = [time_logs EXCEPT ![i] = t]
  BY LapStored
<1>2. t.last_tick <= clock
  BY <1>1 DEF IInv, TypeOK
<1>3. UNCHANGED <<errorvars, time_logs_max, profile_level, clock>>
  BY DEF ToggleOff
<1> QED BY <1>1, <1>2, <1>3, ReplaceInv

\* One case for each action of Next.
LEMMA NextInv == IInv /\ [Next]_vars => IInv'
<1> SUFFICES ASSUME IInv, [Next]_vars PROVE IInv'
  OBVIOUS
<1>1. ASSUME NEW e \in Errors, LogError(e) PROVE IInv'
  BY <1>1, LogErrorInv
<1>2. ASSUME NEW level \in {0, 1}, SetLevel(level) PROVE IInv'
  BY <1>2 DEF SetLevel, errorvars, IInv, TypeOK, IdsAreIndices, TablesFit,
              StartedBefore
<1>3. ASSUME NEW name \in Names, ToggleOn(name) PROVE IInv'
  BY <1>3, CreateInv, RestartInv DEF ToggleOn
<1>4. ASSUME NEW name \in Names, ToggleOff(name) PROVE IInv'
  BY <1>4, ToggleOffInv
<1>5. CASE Tick
  <2>1. UNCHANGED <<errorvars, timevars>> /\ clock' = clock + 1
    BY <1>5 DEF Tick
  <2>2. TypeOK' /\ IdsAreIndices' /\ TablesFit'
    BY <2>1 DEF errorvars, timevars, IInv, TypeOK, IdsAreIndices, TablesFit
  <2>3. \A i \in 1 .. Len(time_logs) : time_logs[i].last_tick \in Nat
    <3> SUFFICES ASSUME NEW i \in 1 .. Len(time_logs)
                 PROVE  time_logs[i].last_tick \in Nat
      OBVIOUS
    <3>1. time_logs[i] \in TimeLog
      BY DEF IInv, TypeOK
    <3> QED BY <3>1 DEF TimeLog
  <2>4. StartedBefore(time_logs, clock)'
    BY <2>1, <2>3 DEF timevars, IInv, TypeOK, StartedBefore
  <2> QED BY <2>2, <2>4 DEF IInv
<1>6. CASE Finalize
  BY <1>6 DEF Finalize, IInv, TypeOK, IdsAreIndices, TablesFit, StartedBefore
<1>7. CASE UNCHANGED vars
  BY <1>7 DEF vars, errorvars, timevars, IInv, TypeOK, IdsAreIndices, TablesFit,
              StartedBefore
<1> QED BY <1>1, <1>2, <1>3, <1>4, <1>5, <1>6, <1>7 DEF Next

\* The invariant holds in every reachable state, whatever the errors, the names
\* and the bounds.
THEOREM Inductive == Spec => []IInv
<1>1. Init => IInv
  BY InitInv
<1>2. IInv /\ [Next]_vars => IInv'
  BY NextInv
<1> QED BY <1>1, <1>2, PTL DEF Spec

\* Every record of log.c keeps its type; in particular no total of nomp_profile()
\* becomes negative.
THEOREM Typing == Spec => []TypeOK
BY Inductive, PTL DEF IInv

\* No record of nomp_log() or nomp_profile() is written outside the memory its
\* table was given, and nomp_profile() never makes a second entry for a name.
THEOREM Tables == Spec => []TablesFit
BY Inductive, PTL DEF IInv

\* nomp_get_err_no() and nomp_get_err_str() find the error an id was given for,
\* and refuse the ids that were never given.
THEOREM Ids == Spec => []IdsFindTheirErrors
<1>1. IInv => IdsFindTheirErrors
  <2> SUFFICES ASSUME IInv PROVE IdsFindTheirErrors
    OBVIOUS
  <2> USE DEF IInv, TypeOK, IdsAreIndices
  <2>1. ASSUME NEW h \in held PROVE LookUp(h[1]) = h[2]
    <3>1. PICK i \in 1 .. Len(logs) : h = <<i, logs[i]>>
      BY <2>1
    <3>2. h[1] = i /\ h[2] = logs[i] /\ i # 0 /\ ~(i > Len(logs))
      BY <3>1
    <3> QED BY <3>2 DEF LookUp
  <2>2. ASSUME NEW id \in 0 .. MaxLogs + 1, LookUp(id) # Invalid
        PROVE  <<id, LookUp(id)>> \in held
    <3>1. id \in 1 .. Len(logs) /\ LookUp(id) = logs[id]
      BY <2>2, NompLogAssumption DEF LookUp
    <3> QED BY <3>1
  <2> QED BY <2>1, <2>2 DEF IdsFindTheirErrors
<1> QED BY <1>1, Inductive, PTL

(***************************************************************************)
(* The table of times implements a stopwatch for each name.                *)
(***************************************************************************)
\* What a reader finds under a name in the table ts.
WatchOf(t) == [calls |-> t.total_calls, total |-> t.total_time, since |-> t.last_tick]

Watches == [n \in Names |-> Watch(n)]

\* A name has one entry, which is what its stopwatch shows.
LEMMA EntryOf ==
  ASSUME IInv, NEW i \in 1 .. Len(time_logs)
  PROVE  /\ Entries(time_logs[i].entry) = {i}
         /\ Watch(time_logs[i].entry) = WatchOf(time_logs[i])
<1>1. Entries(time_logs[i].entry) = {i}
  BY DEF Entries, IInv, TablesFit
<1>2. (CHOOSE j \in Entries(time_logs[i].entry) : TRUE) = i
  BY <1>1
<1> QED BY <1>1, <1>2 DEF Watch, WatchOf

\* The stopwatch of a name without an entry was never started.
LEMMA NoEntry ==
  ASSUME NEW n, Entries(n) = {}
  PROVE  Watch(n) = Timers!Zero
BY DEF Watch, Timers!Zero

\* A step that leaves the entries of a name alone leaves its stopwatch alone.
LEMMA KeptWatch ==
  ASSUME NEW n, Entries(n)' = Entries(n),
         \A i \in Entries(n) : time_logs'[i] = time_logs[i]
  PROVE  Watch(n)' = Watch(n)
<1>1. CASE Entries(n) = {}
  BY <1>1 DEF Watch
<1>2. CASE Entries(n) # {}
  <2> DEFINE first == CHOOSE i \in Entries(n) : TRUE
  <2>1. first \in Entries(n)
    BY <1>2
  <2>2. (CHOOSE i \in Entries(n)' : TRUE) = first
    OBVIOUS
  <2>3. time_logs'[first] = time_logs[first]
    BY <2>1
  <2> QED BY <1>2, <2>2, <2>3 DEF Watch
<1> QED BY <1>1, <1>2

\* A timer that is not found is started: the stopwatch leaves zero.
LEMMA CreateStarts ==
  ASSUME IInv, NEW name \in Names, Create(name),
         UNCHANGED <<errorvars, profile_level, clock>>
  PROVE  Watches' = [Watches EXCEPT ![name].since = clock]
<1> USE DEF IInv, TypeOK
<1> DEFINE new == [entry |-> name, total_calls |-> 0, total_time |-> 0,
                   last_tick |-> clock]
           last == Len(time_logs) + 1
<1>1. time_logs' = Append(time_logs, new) /\ Entries(name) = {}
  BY DEF Create
<1>2. /\ 1 .. Len(time_logs') = 1 .. Len(time_logs) \cup {last}
      /\ time_logs'[last] = new
      /\ \A i \in 1 .. Len(time_logs) : time_logs'[i] = time_logs[i]
  BY <1>1
<1>3. IInv'
  BY CreateInv
<1>4. ASSUME NEW n \in Names, n # name PROVE Watch(n)' = Watch(n)
  <2>1. new.entry # n
    BY <1>4
  <2> HIDE DEF new
  <2>2. Entries(n)' = Entries(n)
    BY <1>2, <2>1 DEF Entries
  <2> QED BY <1>2, <2>2, KeptWatch DEF Entries
<1>5. Watch(name)' = [calls |-> 0, total |-> 0, since |-> clock]
  <2>1. last \in 1 .. Len(time_logs') /\ time_logs'[last].entry = name
    BY <1>2
  <2>2. Entries(name)' = {last}
    BY <2>1, <1>3 DEF Entries, TablesFit
  <2>3. (CHOOSE i \in Entries(name)' : TRUE) = last
    BY <2>2
  <2> QED BY <1>2, <2>2, <2>3 DEF Watch
<1>6. Watch(name) = [calls |-> 0, total |-> 0, since |-> 0]
  BY <1>1 DEF Watch
<1>7. [Watch(name) EXCEPT !.since = clock] = Watch(name)'
  BY <1>5, <1>6
<1> HIDE DEF IInv
<1> QED BY <1>4, <1>7 DEF Watches

\* An entry that keeps its name is replaced: one stopwatch changes.
LEMMA ReplaceWatch ==
  ASSUME IInv, NEW i \in 1 .. Len(time_logs), NEW t \in TimeLog,
         t.entry = time_logs[i].entry, t.last_tick <= clock,
         time_logs' = [time_logs EXCEPT ![i] = t],
         UNCHANGED <<errorvars, time_logs_max, profile_level, clock>>
  PROVE  Watches' = [Watches EXCEPT ![t.entry] = WatchOf(t)]
<1>1. IInv'
  BY ReplaceInv
<1>2. /\ Len(time_logs') = Len(time_logs)
      /\ \A j \in 1 .. Len(time_logs) :
           time_logs'[j] = IF j = i THEN t ELSE time_logs[j]
  BY DEF IInv, TypeOK
<1>3. ASSUME NEW n \in Names, n # t.entry PROVE Watch(n)' = Watch(n)
  <2>1. Entries(n)' = Entries(n)
    BY <1>2, <1>3 DEF Entries
  <2> QED BY <1>2, <1>3, <2>1, KeptWatch DEF Entries
<1>4. Watch(t.entry)' = WatchOf(t)
  <2>1. Entries(t.entry)' = {i} /\ time_logs'[i] = t
    BY <1>1, <1>2 DEF Entries, IInv, TablesFit
  <2>2. (CHOOSE j \in Entries(t.entry)' : TRUE) = i
    BY <2>1
  <2> QED BY <2>1, <2>2 DEF Watch, WatchOf
<1> QED BY <1>3, <1>4 DEF Watches

\* A timer that is found is started anew.
LEMMA RestartStarts ==
  ASSUME IInv, NEW name \in Names, Restart(name),
         UNCHANGED <<errorvars, profile_level, clock>>
  PROVE  Watches' = [Watches EXCEPT ![name].since = clock]
<1>1. PICK i \in Entries(name) :
        time_logs' = [time_logs EXCEPT ![i].last_tick = clock]
  BY DEF Restart
<1> DEFINE t == [time_logs[i] EXCEPT !.last_tick = clock]
<1>2. i \in 1 .. Len(time_logs) /\ time_logs[i] \in TimeLog /\ time_logs[i].entry = name
  BY <1>1 DEF Entries, IInv, TypeOK
<1>3. t \in TimeLog /\ t.entry = name /\ t.last_tick <= clock
  BY <1>2, SetTick DEF IInv, TypeOK
<1>4. time_logs' = [time_logs EXCEPT ![i] = t] /\ UNCHANGED time_logs_max
  BY <1>1 DEF Restart
<1>5. WatchOf(t) = [Watch(name) EXCEPT !.since = clock]
  <2>1. Watch(name) = WatchOf(time_logs[i])
    BY <1>2, EntryOf
  <2> QED BY <1>2, <2>1 DEF WatchOf, TimeLog
<1> HIDE DEF t
<1>6. Watches' = [Watches EXCEPT ![name] = WatchOf(t)]
  BY <1>2, <1>3, <1>4, ReplaceWatch
<1> QED BY <1>5, <1>6 DEF Watches

\* A timer that runs is stopped: its stopwatch counts the lap.
LEMMA ToggleOffStops ==
  ASSUME IInv, NEW name \in Names, ToggleOff(name)
  PROVE  Timers!Stop(name)
<1>1. PICK i \in 1 .. Len(time_logs), t \in TimeLog :
        /\ time_logs[i].entry = name /\ time_logs[i].last_tick # 0
        /\ t.entry = name /\ t.last_tick = 0
        /\ t.total_calls = time_logs[i].total_calls + 1
        /\ t.total_time = time_logs[i].total_time + (clock - time_logs[i].last_tick)
        /\ time_logs' = [time_logs EXCEPT ![i] = t]
  BY LapStored
<1>2. UNCHANGED <<errorvars, time_logs_max, profile_level, clock>>
  BY DEF ToggleOff
<1>3. t.last_tick <= clock
  BY <1>1 DEF IInv, TypeOK
<1>4. Watch(name) = WatchOf(time_logs[i])
  BY <1>1, EntryOf
<1>5. Watch(name).since # 0
  BY <1>1, <1>4 DEF WatchOf
<1>6. WatchOf(t) = [calls |-> Watch(name).calls + 1,
                    total |-> Watch(name).total + (clock - Watch(name).since),
                    since |-> 0]
  BY <1>1, <1>4 DEF WatchOf
<1>7. Watches' = [Watches EXCEPT ![name] = WatchOf(t)]
  BY <1>1, <1>2, <1>3, ReplaceWatch
<1> QED BY <1>2, <1>5, <1>6, <1>7 DEF Timers!Stop, Watches

\* Every step of the table is a step of the stopwatches, or leaves them alone.
LEMMA StepWatches == IInv /\ [Next]_vars => [Timers!Next]_Timers!vars
<1> SUFFICES ASSUME IInv, [Next]_vars PROVE [Timers!Next]_Timers!vars
  OBVIOUS
<1>1. ASSUME UNCHANGED <<time_logs, clock>> PROVE UNCHANGED Timers!vars
  <2>1. \A n \in Names : Entries(n)' = Entries(n)
    BY <1>1 DEF Entries
  <2>2. Watches' = Watches
    BY <1>1, <2>1, KeptWatch DEF Watches
  <2> QED BY <1>1, <2>2 DEF Timers!vars, Watches
<1>2. ASSUME NEW e \in Errors, LogError(e) PROVE UNCHANGED <<time_logs, clock>>
  BY <1>2 DEF LogError, timevars
<1>3. ASSUME NEW level \in {0, 1}, SetLevel(level)
      PROVE  UNCHANGED <<time_logs, clock>>
  BY <1>3 DEF SetLevel
<1>4. ASSUME NEW name \in Names, ToggleOn(name) PROVE Timers!Start(name)
  <2>1. Watches' = [Watches EXCEPT ![name].since = clock]
    BY <1>4, CreateStarts, RestartStarts DEF ToggleOn
  <2> QED BY <1>4, <2>1 DEF ToggleOn, Timers!Start, Watches
<1>5. ASSUME NEW name \in Names, ToggleOff(name) PROVE Timers!Stop(name)
  BY <1>5, ToggleOffStops
<1>6. CASE Tick
  <2>1. UNCHANGED time_logs /\ clock' = clock + 1
    BY <1>6 DEF Tick, timevars
  <2>2. \A n \in Names : Entries(n)' = Entries(n)
    BY <2>1 DEF Entries
  <2>3. Watches' = Watches
    BY <2>1, <2>2, KeptWatch DEF Watches
  <2>4. Timers!Tick
    BY <2>1, <2>3 DEF Timers!Tick, Watches
  <2> QED BY <2>4 DEF Timers!Next
<1>7. CASE Finalize
  <2>1. time_logs' = <<>> /\ clock' = clock
    BY <1>7 DEF Finalize
  <2>2. \A n \in Names : Entries(n)' = {}
    BY <2>1 DEF Entries
  <2>3. \A n \in Names : Watch(n)' = Timers!Zero
    BY <2>2 DEF Watch, Timers!Zero
  <2>4. Timers!ResetAll
    BY <2>1, <2>3 DEF Timers!ResetAll
  <2> QED BY <2>4 DEF Timers!Next
<1>8. CASE UNCHANGED vars
  BY <1>1, <1>8 DEF vars, timevars
<1> QED BY <1>1, <1>2, <1>3, <1>4, <1>5, <1>6, <1>7, <1>8 DEF Next, Timers!Next

\* nomp_profile() acts as one stopwatch for each name, for all names and clocks.
THEOREM Stopwatch == Spec => ImplementsStopwatches
<1>1. Init => Timers!Init
  <2> SUFFICES ASSUME Init PROVE Timers!Init
    OBVIOUS
  <2>1. \A n \in Names : Watch(n) = Timers!Zero
    BY NoEntry DEF Init, Entries
  <2> QED BY <2>1, NompLogAssumption DEF Init, Timers!Init
<1>2. IInv /\ [Next]_vars => [Timers!Next]_Timers!vars
  BY StepWatches
<1> QED BY <1>1, <1>2, Inductive, PTL DEF Spec, ImplementsStopwatches, Timers!Spec
=============================================================================
