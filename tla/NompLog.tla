------------------------------ MODULE NompLog ------------------------------
(***************************************************************************)
(* src/log.c: the errors nomp_log() records, which a client looks up by    *)
(* the id a call returned, and the times nomp_profile() records by name.   *)
(* Both are tables that grow by half, and nomp_finalize() empties both.    *)
(***************************************************************************)
EXTENDS Integers, Sequences

CONSTANTS
  Errors,     \* errors: a number and a description
  Invalid,    \* NOMP_USER_LOG_ID_IS_INVALID, and no description
  Names,      \* names of profiled parts
  FirstTick,  \* the processor clock when profiling begins: not 0
  MaxLogs,    \* bound: errors of a session
  MaxTick,    \* bound: the processor clock
  MaxCalls    \* bound: calls of a profiled part

ASSUME NompLogAssumption ==
  /\ Invalid \notin Errors
  /\ FirstTick \in Nat \ {0}
  /\ MaxLogs \in Nat /\ MaxTick \in Nat /\ MaxCalls \in Nat

VARIABLES
  logs,           \* the errors
  logs_max,       \* slots allocated for them
  held,           \* the client: the ids it was given, each with its error
  time_logs,      \* the times, one entry for a name
  time_logs_max,  \* slots allocated for them
  profile_level,  \* nothing is recorded at level 0
  clock           \* the processor clock

errorvars == <<logs, logs_max, held>>
timevars == <<time_logs, time_logs_max, profile_level>>
vars == <<errorvars, timevars, clock>>

\* Broken: does not grow from 0 or 1.
RoomByHalf(n, max) == IF max <= n THEN max + max \div 2 ELSE max

\* Room for one more of n.
Room(n, max) == IF max <= n THEN max + max \div 2 + 1 ELSE max

(***************************************************************************)
(* Errors.                                                                 *)
(***************************************************************************)
\* Broken: ids from 0.
IdFromZero == Len(logs)

\* The id of the next error: 0 is no error.
NextId == Len(logs) + 1

\* Broken: takes the id for an index, which begins at 0.
LookUpByIndex(id) == IF id = 0 \/ id >= Len(logs) THEN Invalid ELSE logs[id + 1]

\* nomp_get_err_no(), nomp_get_err_str()
LookUp(id) == IF id = 0 \/ id > Len(logs) THEN Invalid ELSE logs[id]

\* nomp_log() of an error; warnings and information are printed and forgotten.
LogError(e) ==
  /\ Len(logs) < MaxLogs
  /\ logs_max' = Room(Len(logs), logs_max)
  /\ logs' = Append(logs, e)
  /\ held' = held \cup {<<NextId, e>>}
  /\ UNCHANGED <<timevars, clock>>

(***************************************************************************)
(* Times.                                                                  *)
(***************************************************************************)
\* find_time_log()
Entries(name) == {i \in 1 .. Len(time_logs) : time_logs[i].entry = name}

SetLevel(level) ==
  /\ profile_level' = level
  /\ UNCHANGED <<errorvars, time_logs, time_logs_max, clock>>

Create(name) ==
  /\ Entries(name) = {}
  /\ time_logs_max' = Room(Len(time_logs), time_logs_max)
  /\ time_logs' = Append(time_logs, [entry |-> name, total_calls |-> 0,
                                     total_time |-> 0, last_tick |-> clock])

Restart(name) ==
  /\ \E i \in Entries(name) :
       time_logs' = [time_logs EXCEPT ![i].last_tick = clock]
  /\ UNCHANGED time_logs_max

ToggleOn(name) ==
  /\ profile_level # 0
  /\ Create(name) \/ Restart(name)
  /\ UNCHANGED <<errorvars, profile_level, clock>>

\* Broken: the timer runs on, and what follows is counted again.
ToggleOffRunning(name) ==
  /\ profile_level # 0
  /\ \E i \in Entries(name) :
       /\ time_logs[i].last_tick # 0
       /\ time_logs[i].total_calls < MaxCalls
       /\ time_logs' = [time_logs EXCEPT
            ![i].total_calls = @ + 1,
            ![i].total_time = @ + (clock - time_logs[i].last_tick)]
  /\ UNCHANGED <<errorvars, time_logs_max, profile_level, clock>>

\* A timer that does not run is toggled off by accident: nothing happens, and
\* the step is left out.
ToggleOff(name) ==
  /\ profile_level # 0
  /\ \E i \in Entries(name) :
       /\ time_logs[i].last_tick # 0
       /\ time_logs[i].total_calls < MaxCalls
       /\ time_logs' = [time_logs EXCEPT
            ![i].total_calls = @ + 1,
            ![i].total_time = @ + (clock - time_logs[i].last_tick),
            ![i].last_tick = 0]
  /\ UNCHANGED <<errorvars, time_logs_max, profile_level, clock>>

Tick ==
  /\ clock < MaxTick
  /\ clock' = clock + 1
  /\ UNCHANGED <<errorvars, timevars>>

\* nomp_profile_finalize() and nomp_log_finalize(), which nomp_finalize()
\* calls: the client forgets its ids, and the level stays.
Finalize ==
  /\ time_logs' = <<>> /\ time_logs_max' = 0
  /\ logs' = <<>> /\ logs_max' = 0
  /\ held' = {}
  /\ UNCHANGED <<profile_level, clock>>

Init ==
  /\ logs = <<>> /\ logs_max = 0
  /\ held = {}
  /\ time_logs = <<>> /\ time_logs_max = 0
  /\ profile_level = 0
  /\ clock = FirstTick

Next ==
  \/ \E e \in Errors : LogError(e)
  \/ \E level \in {0, 1} : SetLevel(level)
  \/ \E name \in Names : ToggleOn(name) \/ ToggleOff(name)
  \/ Tick
  \/ Finalize

Spec == Init /\ [][Next]_vars

(***************************************************************************)
(* Safety.                                                                 *)
(***************************************************************************)
TimeLog == [entry : Names, total_calls : Nat, total_time : Nat, last_tick : Nat]

TypeOK ==
  /\ logs \in Seq(Errors) /\ logs_max \in Nat
  /\ held \subseteq (Nat \ {0}) \X Errors
  /\ time_logs \in Seq(TimeLog) /\ time_logs_max \in Nat
  /\ profile_level \in {0, 1}
  /\ clock \in Nat

\* Each id a client was given finds the error it was given for, however many
\* errors, of this or of other calls, were recorded since; every other id is
\* refused.
IdsFindTheirErrors ==
  /\ \A h \in held : LookUp(h[1]) = h[2]
  /\ \A id \in 0 .. MaxLogs + 1 : LookUp(id) # Invalid => <<id, LookUp(id)>> \in held

\* Neither table is written outside what was allocated for it, and no name has
\* two entries, of which nomp_profile() would see only the first.
TablesFit ==
  /\ Len(logs) <= logs_max
  /\ Len(time_logs) <= time_logs_max
  /\ \A i, j \in 1 .. Len(time_logs) :
       time_logs[i].entry = time_logs[j].entry => i = j

\* The table of times acts as a stopwatch for each name.
Watch(name) ==
  IF Entries(name) = {} THEN [calls |-> 0, total |-> 0, since |-> 0]
  ELSE LET t == time_logs[CHOOSE i \in Entries(name) : TRUE]
       IN  [calls |-> t.total_calls, total |-> t.total_time, since |-> t.last_tick]

Timers == INSTANCE Stopwatches WITH
            watch <- [name \in Names |-> Watch(name)], now <- clock, Stopped <- 0
ImplementsStopwatches == Timers!Spec
=============================================================================
