------------------------------- MODULE IwyuTool -------------------------------
(***************************************************************************)
(* The job scheduler of iwyu_tool.py: execute() runs one IWYU process per  *)
(* entry of the compilation database, at most jobs at a time and fewer     *)
(* under load, prints what each one wrote, and returns the worst exit      *)
(* code.  The child processes exit whenever they like: between two polls,  *)
(* between a poll and the report, while others are being started.          *)
(*                                                                         *)
(* The invocations are numbered in the order of the list.  Processes are   *)
(* appended to the list `pending' in that order and leave it without       *)
(* reordering, so that a set of numbers, visited from the least, stands    *)
(* for the list, and for the list `complete'.                              *)
(***************************************************************************)
EXTENDS Integers, FiniteSets

CONSTANTS
  NumInvocations,   \* len(invocations)
  Jobs,             \* -j: any numbers but 0, which _bootstrap replaces
  MaxLoad,          \* -l, in units of 1/LoadUnit; no limit unless positive
  LoadUnit,         \* how finely load averages are modelled
  Loads,            \* the 1min load averages that may be read
  ExitCodes,        \* the exit codes that the processes may have
  NotExited,        \* None: the return code of a process still running
  MayRaise          \* whether starting and reporting may raise an exception

ASSUME ConstantsAssumption ==
  /\ NumInvocations \in Nat
  /\ Jobs \subseteq Int \ {0}
  /\ MaxLoad \in Int
  /\ LoadUnit \in Nat \ {0}
  /\ Loads \subseteq Nat /\ Loads # {}
  /\ ExitCodes \subseteq Int /\ ExitCodes # {}
  /\ NotExited \notin ExitCodes
  /\ MayRaise \in BOOLEAN

Invocations == 1..NumInvocations

VARIABLES
  jobs,         \* the number of jobs of this call
  pc,           \* where execute() stands
  started,      \* the invocations up to here have been started
  to_start,     \* invocations[:capacity] that are still to be started
  unpolled,     \* the processes of `pending' that the poll has yet to visit
  pending,      \* started processes whose report has not begun
  complete,     \* processes found to have exited, not reported yet
  alive,        \* the processes that the operating system is running
  returncode,   \* the exit code of each process
  printed,      \* the processes whose output has been printed
  exit_code     \* the worst exit code so far

vars == <<jobs, pc, started, to_start, unpolled, pending, complete, alive,
          returncode, printed, exit_code>>

IsFirst(i, list) == i \in list /\ \A j \in list : i <= j

Left == NumInvocations - started

-----------------------------------------------------------------------------
(* Faulty variants of the definitions that follow them, here and below:    *)
(* each breaks the property that PROJECT.json names with it.               *)
worst_exit_code_max(worst, cur) == IF cur > worst THEN cur ELSE worst

(* Negative codes, of crashed processes, take precedence. *)
worst_exit_code(worst, cur) ==
  IF cur < 0 THEN (IF cur < worst THEN cur ELSE worst)
  ELSE IF worst < 0 THEN worst
  ELSE IF cur > worst THEN cur ELSE worst

Init ==
  /\ jobs \in Jobs
  /\ pc = IF jobs = 1 THEN "serial" ELSE "loop"
  /\ started = 0
  /\ to_start = 0
  /\ unpolled = {}
  /\ pending = {}
  /\ complete = {}
  /\ alive = {}
  /\ returncode = [i \in Invocations |-> NotExited]
  /\ printed = {}
  /\ exit_code = 0

(* Invocation.start: Popen for the next one. *)
Start ==
  /\ started' = started + 1
  /\ pending' = pending \cup {started + 1}
  /\ alive' = alive \cup {started + 1}
  /\ UNCHANGED <<jobs, returncode, printed, exit_code>>

(* print(formatter(proc.get_output())), and the exit code. *)
Report(i) ==
  /\ pending' = pending \ {i}
  /\ printed' = printed \cup {i}
  /\ exit_code' = worst_exit_code(exit_code, returncode[i])
  /\ UNCHANGED <<jobs, started, alive, returncode>>

(* Uncaught: Popen failed. *)
RaiseOnStart ==
  /\ MayRaise
  /\ pc' = "raised"
  /\ UNCHANGED <<jobs, started, to_start, unpolled, pending, complete, alive,
                 returncode, printed, exit_code>>

(* The output is no UTF-8, or the formatter gives up: the process is no    *)
(* longer pending, but nothing of it is printed or counted.                *)
RaiseOnReport(i) ==
  /\ MayRaise
  /\ pc' = "raised"
  /\ pending' = pending \ {i} /\ complete' = complete \ {i}
  /\ UNCHANGED <<jobs, started, to_start, unpolled, alive, returncode, printed, exit_code>>

-----------------------------------------------------------------------------
(* jobs == 1: one after the other, whatever the load. *)

SerialStart ==
  /\ pc = "serial" /\ Left > 0
  /\ \/ pc' = "wait" /\ Start /\ UNCHANGED <<to_start, unpolled, complete>>
     \/ RaiseOnStart

(* get_output waits for the process. *)
SerialReport ==
  /\ pc = "wait"
  /\ \E i \in pending \ alive :
       \/ pc' = "serial" /\ Report(i) /\ UNCHANGED <<to_start, unpolled, complete>>
       \/ RaiseOnReport(i)

-----------------------------------------------------------------------------
(* Otherwise: the loop over poll, report, schedule and sleep. *)

BeginPoll ==
  /\ pc = "loop" /\ (Left > 0 \/ pending # {})
  /\ pc' = "poll"
  /\ unpolled' = pending
  /\ UNCHANGED <<jobs, started, to_start, pending, complete, alive, returncode,
                 printed, exit_code>>

Poll ==
  /\ pc = "poll"
  /\ \E i \in Invocations :
       /\ IsFirst(i, unpolled)
       /\ unpolled' = unpolled \ {i}
       /\ complete' = complete \cup ({i} \ alive)
  /\ UNCHANGED <<jobs, pc, started, to_start, pending, alive, returncode, printed,
                 exit_code>>

ReportCompleteAtOnce ==
  /\ pc = "poll" /\ unpolled = {}
  /\ \E i \in Invocations :
       /\ IsFirst(i, complete)
       /\ \/ /\ Report(i)
             /\ complete' = complete \ {i}
             /\ UNCHANGED <<pc, to_start, unpolled>>
          \/ /\ MayRaise /\ pc' = "raised"
             /\ pending' = pending \ complete /\ complete' = {}
             /\ UNCHANGED <<jobs, started, to_start, unpolled, alive, returncode, printed,
                            exit_code>>

(* Each is taken from the list before it is reported, the others after it. *)
ReportComplete ==
  /\ pc = "poll" /\ unpolled = {}
  /\ \E i \in Invocations :
       /\ IsFirst(i, complete)
       /\ \/ /\ Report(i)
             /\ complete' = complete \ {i}
             /\ UNCHANGED <<pc, to_start, unpolled>>
          \/ RaiseOnReport(i)

CapacityAll(load) == jobs

CapacityMayBeZero(load) ==
  LET room == jobs - Cardinality(pending)
      load_capacity == IF MaxLoad < load THEN 0 ELSE MaxLoad - load
  IN  IF MaxLoad > 0 /\ load_capacity < LoadUnit * room
      THEN load_capacity \div LoadUnit
      ELSE room

(* The room for new processes, capped by what the load leaves, but with at *)
(* least one job running.                                                  *)
Capacity(load) ==
  LET room == jobs - Cardinality(pending)
      load_capacity == IF MaxLoad < load THEN 0 ELSE MaxLoad - load
      capped == load_capacity \div LoadUnit
  IN  IF MaxLoad > 0 /\ load_capacity < LoadUnit * room
      THEN IF capped = 0 /\ pending = {} THEN 1 ELSE capped
      ELSE room

(* How many invocations[:capacity] are: a negative capacity counts from    *)
(* the end of the list.                                                    *)
Sliced(capacity) ==
  IF capacity < 0 THEN (IF Left + capacity < 0 THEN 0 ELSE Left + capacity)
  ELSE IF capacity < Left THEN capacity ELSE Left

Schedule ==
  /\ pc = "poll" /\ unpolled = {} /\ complete = {}
  /\ \E load \in Loads : to_start' = Sliced(Capacity(load))
  /\ pc' = "schedule"
  /\ UNCHANGED <<jobs, started, unpolled, pending, complete, alive, returncode,
                 printed, exit_code>>

StartScheduled ==
  /\ pc = "schedule" /\ to_start > 0
  /\ \/ /\ Start
        /\ to_start' = to_start - 1
        /\ UNCHANGED <<pc, unpolled, complete>>
     \/ RaiseOnStart

Sleep ==
  /\ pc = "schedule" /\ to_start = 0
  /\ pc' = "loop"
  /\ UNCHANGED <<jobs, started, to_start, unpolled, pending, complete, alive,
                 returncode, printed, exit_code>>

Return ==
  /\ \/ pc = "serial" /\ Left = 0
     \/ pc = "loop" /\ Left = 0 /\ pending = {}
  /\ pc' = "returned"
  /\ UNCHANGED <<jobs, started, to_start, unpolled, pending, complete, alive,
                 returncode, printed, exit_code>>

execute ==
  \/ SerialStart
  \/ SerialReport
  \/ BeginPoll
  \/ Poll
  \/ ReportComplete
  \/ Schedule
  \/ StartScheduled
  \/ Sleep
  \/ Return

(* The environment: a process exits, also when nobody waits for it. *)
Exit(i) ==
  /\ i \in alive
  /\ alive' = alive \ {i}
  /\ \E code \in ExitCodes : returncode' = [returncode EXCEPT ![i] = code]
  /\ UNCHANGED <<jobs, pc, started, to_start, unpolled, pending, complete, printed,
                 exit_code>>

Next == execute \/ \E i \in Invocations : Exit(i)

Spec == Init /\ [][Next]_vars

(* The script keeps running, and every IWYU process ends. *)
FairSpec ==
  /\ Spec
  /\ WF_vars(execute)
  /\ \A i \in Invocations : WF_vars(Exit(i))
-----------------------------------------------------------------------------
TypeOK ==
  /\ jobs \in Jobs
  /\ pc \in {"serial", "wait", "loop", "poll", "schedule", "returned", "raised"}
  /\ started \in 0..NumInvocations
  /\ to_start \in 0..Left
  /\ unpolled \subseteq pending
  /\ complete \subseteq pending
  /\ pending \subseteq Invocations
  /\ alive \subseteq pending
  /\ returncode \in [Invocations -> ExitCodes \cup {NotExited}]
  /\ printed \subseteq Invocations
  /\ exit_code \in ExitCodes \cup {0}

(* "Number of concurrent subprocesses" (help of -j): never more than jobs  *)
(* are started and unreported, while the load comes and goes.              *)
JobsBound == jobs > 0 => Cardinality(pending) + to_start <= jobs

(* Every process that was started is either still pending or had its       *)
(* output printed, never both, whenever it exits.  An exception loses the  *)
(* output of one process at most, one that has exited: the others that had *)
(* been found complete with it, and those that still run, stay pending.    *)
NothingLost ==
  LET lost == (1..started) \ (pending \cup printed)
  IN  /\ pending \cap printed = {} /\ pending \cup printed \subseteq 1..started
      /\ lost # {} => pc = "raised"
      /\ \A i, j \in lost : i = j /\ i \notin alive

(* execute() returns only after all invocations ran and were reported, and *)
(* then what it returns does not depend on the order of their exits: the   *)
(* least code if one is negative, and else the greatest.                   *)
ResultIsWorst ==
  pc = "returned" =>
    LET codes == {returncode[i] : i \in Invocations} \cup {0}
    IN  /\ printed = Invocations
        /\ exit_code \in codes
        /\ IF \E c \in codes : c < 0 THEN \A c \in codes : exit_code <= c
                                     ELSE \A c \in codes : c <= exit_code

(* "Ensure there is at least one job running": the loop never sleeps with  *)
(* work left and nothing running, however high the load.                   *)
NeverIdle == jobs > 1 /\ pc = "loop" /\ Left > 0 /\ started > 0 => pending # {}

(* All invocations are run and reported, and execute() returns, unless an  *)
(* exception ends it.                                                      *)
Terminates == jobs > 0 => <>(pc = "returned" \/ pc = "raised")
=============================================================================
