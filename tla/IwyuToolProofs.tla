---------------------------- MODULE IwyuToolProofs ----------------------------
(***************************************************************************)
(* Proofs about the scheduler of IwyuTool, for every number of             *)
(* invocations, jobs, load limit and set of exit codes.                    *)
(***************************************************************************)
EXTENDS IwyuTool, FiniteSetTheorems, TLAPS

(* What is known of the variables at each place in execute(). *)
ControlOK ==
  /\ pc \in {"serial", "wait"} => jobs = 1
  /\ pc \in {"loop", "poll", "schedule"} => jobs # 1
  /\ pc \notin {"schedule", "raised"} => to_start = 0
  /\ pc = "serial" => pending = {}
  /\ pc = "wait" => pending = {started}
  /\ pc \in {"serial", "wait", "loop", "schedule"} => unpolled = {} /\ complete = {}
  /\ pc = "schedule" /\ jobs > 1 /\ Left > 0 /\ pending = {} => to_start > 0
  /\ pc = "returned" => Left = 0 /\ pending = {}

(* Exactly the processes that have exited have an exit code. *)
ExitsOK ==
  /\ complete \cap alive = {}
  /\ \A i \in Invocations :
       returncode[i] = NotExited <=> i > started \/ i \in alive

IsWorst(codes, worst) ==
  /\ worst \in codes
  /\ IF \E c \in codes : c < 0 THEN \A c \in codes : worst <= c
                               ELSE \A c \in codes : c <= worst

Codes == {returncode[i] : i \in printed} \cup {0}

(* exit_code is at all times the worst of the codes reported. *)
WorstSoFar == IsWorst(Codes, exit_code)

IInv ==
  /\ TypeOK
  /\ NothingLost
  /\ ControlOK
  /\ ExitsOK
  /\ JobsBound
  /\ WorstSoFar
  /\ NeverIdle

USE ConstantsAssumption

-----------------------------------------------------------------------------
(* worst_exit_code keeps the worst of a set when a code joins it.          *)
LEMMA WorstOfOneMore ==
  ASSUME NEW codes \in SUBSET Int, 0 \in codes, NEW worst, IsWorst(codes, worst),
         NEW cur \in Int
  PROVE  IsWorst(codes \cup {cur}, worst_exit_code(worst, cur))
<1>1. worst \in Int
  BY DEF IsWorst
<1>2. CASE cur < 0
  <2>1. worst_exit_code(worst, cur) = IF cur < worst THEN cur ELSE worst
    BY <1>2 DEF worst_exit_code
  <2>2. \A c \in codes : worst_exit_code(worst, cur) <= c
    <3>1. CASE \E c \in codes : c < 0
      <4>1. \A c \in codes : c \in Int /\ worst <= c
        BY <3>1 DEF IsWorst
      <4> QED BY <1>1, <2>1, <4>1
    <3>2. CASE \A c \in codes : c >= 0
      BY <1>1, <1>2, <2>1, <3>2 DEF IsWorst
    <3> QED BY <3>1, <3>2
  <2> QED BY <1>1, <1>2, <2>1, <2>2 DEF IsWorst
<1>3. CASE cur >= 0 /\ worst < 0
  BY <1>1, <1>3 DEF IsWorst, worst_exit_code
<1>4. CASE cur >= 0 /\ worst >= 0
  <2>1. \A c \in codes : c >= 0 /\ c <= worst
    BY <1>1, <1>4 DEF IsWorst
  <2> QED BY <1>1, <1>4, <2>1 DEF IsWorst, worst_exit_code
<1> QED BY <1>1, <1>2, <1>3, <1>4

(* The processes that are pending can be counted. *)
LEMMA PendingFinite ==
  ASSUME TypeOK
  PROVE  IsFiniteSet(pending) /\ Cardinality(pending) \in Nat
<1>1. IsFiniteSet(Invocations)
  BY FS_Interval DEF Invocations
<1>2. IsFiniteSet(pending)
  BY <1>1, FS_Subset DEF TypeOK
<1> QED BY <1>2, FS_CardinalityType

(* The room that the load leaves is no more than the jobs leave, and with  *)
(* nothing running there is always room.                                   *)
LEMMA CapacityBounds ==
  ASSUME TypeOK, NEW load \in Loads
  PROVE  /\ Capacity(load) \in Int
         /\ jobs > 1 /\ Cardinality(pending) <= jobs
              => /\ Capacity(load) <= jobs - Cardinality(pending)
                 /\ Capacity(load) >= 0
                 /\ pending = {} => Capacity(load) > 0
<1> DEFINE room == jobs - Cardinality(pending)
           load_capacity == IF MaxLoad < load THEN 0 ELSE MaxLoad - load
           capped == load_capacity \div LoadUnit
<1>1. /\ Cardinality(pending) \in Nat /\ (pending = {} => Cardinality(pending) = 0)
      /\ jobs \in Int
  BY PendingFinite, FS_EmptySet DEF TypeOK
<1>2. load_capacity \in Nat
  OBVIOUS
<1>3. capped \in Nat
  BY <1>2
<1>4. room \in Int
  BY <1>1
<1>5. Capacity(load) = IF MaxLoad > 0 /\ load_capacity < LoadUnit * room
                       THEN IF capped = 0 /\ pending = {} THEN 1 ELSE capped
                       ELSE room
  BY DEF Capacity
<1>6. ASSUME jobs > 1, Cardinality(pending) <= jobs, load_capacity < LoadUnit * room
      PROVE  capped < room
  <2>1. room \in Nat
    BY <1>1, <1>6
  <2> HIDE DEF room, load_capacity
  <2> QED BY <1>2, <1>6, <2>1
<1> HIDE DEF load_capacity, capped
<1>7. Capacity(load) \in Int
  BY <1>3, <1>4, <1>5
<1>8. ASSUME jobs > 1, Cardinality(pending) <= jobs
      PROVE  /\ Capacity(load) <= room
             /\ Capacity(load) >= 0
             /\ pending = {} => Capacity(load) > 0
  <2>1. room >= 0 /\ (pending = {} => room > 1)
    BY <1>1, <1>8
  <2>2. CASE MaxLoad > 0 /\ load_capacity < LoadUnit * room
    <3>1. capped < room
      BY <1>6, <1>8, <2>2
    <3>2. Capacity(load) = IF capped = 0 /\ pending = {} THEN 1 ELSE capped
      BY <1>5, <2>2
    <3> HIDE DEF room
    <3> QED BY <1>3, <1>4, <2>1, <3>1, <3>2
  <2>3. CASE ~(MaxLoad > 0 /\ load_capacity < LoadUnit * room)
    <3>1. Capacity(load) = room
      BY <1>5, <2>3
    <3> QED BY <1>4, <2>1, <3>1
  <2> QED BY <2>2, <2>3
<1> QED BY <1>7, <1>8

LEMMA SlicedBounds ==
  ASSUME TypeOK, NEW capacity \in Int
  PROVE  /\ Sliced(capacity) \in 0..Left
         /\ capacity >= 0 => Sliced(capacity) <= capacity
         /\ capacity > 0 /\ Left > 0 => Sliced(capacity) > 0
BY DEF Sliced, Left, TypeOK

-----------------------------------------------------------------------------
(* Until an exception ends execute(), each process is pending or printed.  *)
Accounted == pending \cap printed = {} /\ pending \cup printed = 1..started

LEMMA AccountedUnlessRaised ==
  /\ IInv /\ pc # "raised" => Accounted
  /\ Accounted => NothingLost
BY DEF IInv, NothingLost, Accounted

(* A new process is started: it is pending and alive, and counted.         *)
LEMMA StartFacts ==
  ASSUME IInv, pc # "raised", Left > 0, Start
  PROVE  /\ NothingLost'
         /\ complete' = complete => ExitsOK'
         /\ WorstSoFar'
         /\ started' \in 0..NumInvocations
         /\ pending' \subseteq Invocations
         /\ alive' \subseteq pending'
         /\ Cardinality(pending') = Cardinality(pending) + 1
         /\ pending' # {}
         /\ jobs' = jobs /\ jobs \in Int
<1> USE DEF IInv
<1>1. /\ started + 1 \in Invocations
      /\ started + 1 \notin pending
      /\ started + 1 \notin printed
      /\ started + 1 \notin complete
  BY DEF TypeOK, NothingLost, Left, Invocations
<1>2. Cardinality(pending') = Cardinality(pending) + 1
  BY <1>1, PendingFinite, FS_AddElement DEF Start
<1>3. NothingLost'
  <2>1. Accounted'
    BY <1>1, AccountedUnlessRaised DEF Start, Accounted, TypeOK
  <2> QED BY <2>1, AccountedUnlessRaised DEF NothingLost, Accounted
<1>4. ASSUME complete' = complete PROVE ExitsOK'
  <2>1. \A i \in Invocations : i > started' \/ i \in alive' <=> i > started \/ i \in alive
    BY <1>1 DEF Start, Invocations, TypeOK
  <2> QED BY <1>1, <1>4, <2>1 DEF Start, ExitsOK
<1>5. WorstSoFar'
  BY DEF Start, WorstSoFar, Codes
<1> QED BY <1>1, <1>2, <1>3, <1>4, <1>5 DEF Start, TypeOK, Left, Invocations

(* A process that has exited is reported: its code joins the others.       *)
LEMMA ReportFacts ==
  ASSUME IInv, pc # "raised", NEW i \in pending, i \notin alive, Report(i)
  PROVE  /\ NothingLost'
         /\ WorstSoFar'
         /\ exit_code' \in ExitCodes \cup {0}
         /\ pending' \subseteq Invocations
         /\ alive' \subseteq pending'
         /\ printed' \subseteq Invocations
         /\ Cardinality(pending') = Cardinality(pending) - 1
         /\ jobs' = jobs /\ jobs \in Int
<1> USE DEF IInv
<1>1. i \in Invocations /\ i <= started
  BY DEF TypeOK, NothingLost, Invocations
<1>2. returncode[i] \in ExitCodes
  <2>1. ~(i > started \/ i \in alive)
    BY <1>1 DEF TypeOK, Invocations
  <2>2. returncode[i] # NotExited
    BY <1>1, <2>1 DEF ExitsOK
  <2> QED BY <1>1, <2>2 DEF TypeOK
<1>3. Codes \in SUBSET Int /\ 0 \in Codes
  <2>1. \A j \in printed : j \in Invocations /\ j <= started /\ j \notin alive
    BY DEF TypeOK, NothingLost, Invocations
  <2>2. \A j \in printed : returncode[j] \in ExitCodes
    BY <2>1 DEF TypeOK, ExitsOK, Invocations
  <2>3. \A j \in printed : returncode[j] \in Int
    BY <2>2
  <2> QED BY <2>3 DEF Codes
<1>4. WorstSoFar'
  <2>1. IsWorst(Codes \cup {returncode[i]}, exit_code')
    BY <1>2, <1>3, WorstOfOneMore DEF WorstSoFar, Report
  <2>2. Codes' = Codes \cup {returncode[i]}
    BY DEF Codes, Report
  <2> QED BY <2>1, <2>2 DEF WorstSoFar
<1>5. exit_code' \in ExitCodes \cup {0}
  BY <1>2 DEF Report, worst_exit_code, TypeOK
<1>6. Cardinality(pending') = Cardinality(pending) - 1
  BY PendingFinite, FS_RemoveElement DEF Report
<1>7. NothingLost'
  <2>1. Accounted'
    BY AccountedUnlessRaised DEF Report, Accounted
  <2> QED BY <2>1 DEF NothingLost, Accounted
<1> QED BY <1>1, <1>4, <1>5, <1>6, <1>7 DEF Report, TypeOK

(* An exception on a start changes nothing but the place in execute().     *)
LEMMA RaiseOnStartKeepsIInv ==
  ASSUME IInv, pc # "raised", RaiseOnStart
  PROVE  IInv'
<1>1. TypeOK' /\ ExitsOK' /\ JobsBound' /\ WorstSoFar'
  BY DEF IInv, RaiseOnStart, TypeOK, ExitsOK, JobsBound, WorstSoFar, Codes, Left
<1>2. NothingLost'
  BY AccountedUnlessRaised DEF RaiseOnStart, NothingLost, Accounted
<1>3. ControlOK' /\ NeverIdle'
  BY DEF RaiseOnStart, ControlOK, NeverIdle
<1> QED BY <1>1, <1>2, <1>3 DEF IInv

(* One on a report loses the process: it has exited, and is the only one.  *)
LEMMA RaiseOnReportKeepsIInv ==
  ASSUME IInv, pc # "raised", NEW i \in pending, i \notin alive, unpolled = {},
         RaiseOnReport(i)
  PROVE  IInv'
<1>1. TypeOK'
  BY DEF IInv, RaiseOnReport, TypeOK, Left
<1>2. NothingLost'
  <2>1. (1..started') \ (pending' \cup printed') = {i}
    BY AccountedUnlessRaised DEF RaiseOnReport, Accounted
  <2>2. pending' \cap printed' = {} /\ pending' \cup printed' \subseteq 1..started'
    BY AccountedUnlessRaised DEF RaiseOnReport, Accounted
  <2> QED BY <2>1, <2>2 DEF RaiseOnReport, NothingLost
<1>3. Cardinality(pending') = Cardinality(pending) - 1
  BY PendingFinite, FS_RemoveElement DEF IInv, RaiseOnReport
<1>4. JobsBound'
  BY <1>3, PendingFinite DEF IInv, RaiseOnReport, JobsBound, TypeOK, Left
<1>5. ExitsOK' /\ WorstSoFar'
  BY DEF IInv, RaiseOnReport, ExitsOK, WorstSoFar, Codes
<1>6. ControlOK' /\ NeverIdle'
  BY DEF RaiseOnReport, ControlOK, NeverIdle
<1> QED BY <1>1, <1>2, <1>4, <1>5, <1>6 DEF IInv

LEMMA SerialStartKeepsIInv ==
  ASSUME IInv, SerialStart
  PROVE  IInv'
<1>1. CASE RaiseOnStart
  BY <1>1, RaiseOnStartKeepsIInv DEF SerialStart
<1>2. CASE pc' = "wait" /\ Start /\ UNCHANGED <<to_start, unpolled, complete>>
  <2>1. /\ pc = "serial" /\ Left > 0
        /\ jobs = 1 /\ pending = {} /\ to_start = 0 /\ unpolled = {} /\ complete = {}
    BY DEF IInv, SerialStart, ControlOK
  <2>2. TypeOK'
    BY <1>2, <2>1, StartFacts DEF IInv, TypeOK, Start, Left
  <2>3. ControlOK'
    BY <1>2, <2>1 DEF ControlOK, Start
  <2>4. JobsBound'
    BY <1>2, <2>1, StartFacts, FS_EmptySet DEF JobsBound
  <2>5. NeverIdle'
    BY <2>1, <1>2 DEF NeverIdle
  <2> QED BY <1>2, <2>1, <2>2, <2>3, <2>4, <2>5, StartFacts DEF IInv
<1> QED BY <1>1, <1>2 DEF SerialStart

LEMMA SerialReportKeepsIInv ==
  ASSUME IInv, SerialReport
  PROVE  IInv'
<1>1. PICK i \in pending \ alive :
        \/ pc' = "serial" /\ Report(i) /\ UNCHANGED <<to_start, unpolled, complete>>
        \/ RaiseOnReport(i)
  BY DEF SerialReport
<1>2. CASE RaiseOnReport(i)
  BY <1>2, RaiseOnReportKeepsIInv DEF SerialReport, IInv, ControlOK
<1>3. CASE pc' = "serial" /\ Report(i) /\ UNCHANGED <<to_start, unpolled, complete>>
  <2>1. /\ pc = "wait" /\ jobs = 1 /\ pending = {started} /\ i = started
        /\ to_start = 0 /\ unpolled = {} /\ complete = {}
    BY <1>1 DEF IInv, SerialReport, ControlOK
  <2>2. TypeOK'
    BY <1>3, <2>1, ReportFacts DEF IInv, TypeOK, Report, Left
  <2>3. ControlOK'
    BY <1>3, <2>1 DEF ControlOK, Report
  <2>4. ExitsOK'
    BY <1>3 DEF IInv, ExitsOK, Report
  <2>5. JobsBound'
    BY <1>3, <2>1, ReportFacts, PendingFinite DEF IInv, JobsBound
  <2>6. NeverIdle'
    BY <2>1, <1>3 DEF NeverIdle
  <2> QED BY <1>3, <2>1, <2>2, <2>3, <2>4, <2>5, <2>6, ReportFacts DEF IInv
<1> QED BY <1>1, <1>2, <1>3

LEMMA BeginPollKeepsIInv ==
  ASSUME IInv, BeginPoll
  PROVE  IInv'
<1>1. TypeOK'
  BY DEF IInv, BeginPoll, TypeOK, Left
<1>2. ControlOK'
  BY DEF IInv, BeginPoll, ControlOK
<1>3. NothingLost' /\ ExitsOK' /\ JobsBound' /\ WorstSoFar' /\ NeverIdle'
  BY DEF IInv, BeginPoll, NothingLost, ExitsOK, JobsBound, WorstSoFar, Codes, NeverIdle
<1> QED BY <1>1, <1>2, <1>3 DEF IInv

LEMMA PollKeepsIInv ==
  ASSUME IInv, Poll
  PROVE  IInv'
<1>1. PICK i \in Invocations :
        /\ i \in unpolled
        /\ unpolled' = unpolled \ {i}
        /\ complete' = complete \cup ({i} \ alive)
  BY DEF Poll, IsFirst
<1>2. TypeOK'
  BY <1>1 DEF IInv, Poll, TypeOK, Left
<1>3. ControlOK'
  BY <1>1 DEF IInv, Poll, ControlOK, Left
<1>4. ExitsOK'
  BY <1>1 DEF IInv, Poll, ExitsOK
<1>5. NothingLost' /\ JobsBound' /\ WorstSoFar' /\ NeverIdle'
  BY DEF IInv, Poll, NothingLost, JobsBound, WorstSoFar, Codes, NeverIdle
<1> QED BY <1>2, <1>3, <1>4, <1>5 DEF IInv

LEMMA ReportCompleteKeepsIInv ==
  ASSUME IInv, ReportComplete
  PROVE  IInv'
<1>1. PICK i \in Invocations :
        /\ i \in complete
        /\ \/ /\ Report(i)
              /\ complete' = complete \ {i}
              /\ UNCHANGED <<pc, to_start, unpolled>>
           \/ RaiseOnReport(i)
  BY DEF ReportComplete, IsFirst
<1>2. CASE RaiseOnReport(i)
  <2>1. i \in pending /\ i \notin alive
    BY <1>1 DEF IInv, TypeOK, ExitsOK
  <2> QED BY <1>2, <2>1, RaiseOnReportKeepsIInv DEF ReportComplete
<1>3. CASE Report(i) /\ complete' = complete \ {i} /\ UNCHANGED <<pc, to_start, unpolled>>
  <2>1. i \in pending /\ i \notin alive
    BY <1>1 DEF IInv, TypeOK, ExitsOK
  <2>2. pc = "poll" /\ unpolled = {}
    BY DEF ReportComplete
  <2>3. TypeOK'
    <3>1. complete' \subseteq pending' /\ unpolled' \subseteq pending'
      BY <1>3, <2>2 DEF IInv, TypeOK, Report
    <3> QED BY <1>3, <2>1, <2>2, <3>1, ReportFacts DEF IInv, TypeOK, Report, Left
  <2>4. ControlOK'
    BY <1>3, <2>2 DEF IInv, ControlOK, Report, Left
  <2>5. ExitsOK'
    BY <1>3 DEF IInv, ExitsOK, Report
  <2>6. JobsBound'
    BY <1>3, <2>1, <2>2, ReportFacts, PendingFinite DEF IInv, JobsBound, TypeOK, Left
  <2>7. NeverIdle'
    BY <1>3, <2>2 DEF NeverIdle
  <2> QED BY <1>3, <2>1, <2>2, <2>3, <2>4, <2>5, <2>6, <2>7, ReportFacts DEF IInv
<1> QED BY <1>1, <1>2, <1>3

LEMMA ScheduleKeepsIInv ==
  ASSUME IInv, Schedule
  PROVE  IInv'
<1>1. PICK load \in Loads : to_start' = Sliced(Capacity(load))
  BY DEF Schedule
<1>2. /\ TypeOK /\ pc = "poll" /\ jobs # 1 /\ to_start = 0 /\ JobsBound
      /\ jobs' = jobs /\ jobs \in Int \ {0}
  BY DEF IInv, Schedule, ControlOK, TypeOK
<1>3. Capacity(load) \in Int
  BY <1>2, CapacityBounds
<1>4. to_start' \in 0..Left
  BY <1>1, <1>2, <1>3, SlicedBounds
<1>5. TypeOK'
  BY <1>2, <1>4 DEF Schedule, TypeOK, Left
<1>6. ASSUME jobs > 1
      PROVE  /\ Cardinality(pending) + to_start' <= jobs
             /\ Left > 0 /\ pending = {} => to_start' > 0
  <2>1. Cardinality(pending) \in Nat /\ Cardinality(pending) <= jobs
    BY <1>2, <1>6, PendingFinite DEF JobsBound
  <2>2. /\ Capacity(load) <= jobs - Cardinality(pending)
        /\ Capacity(load) >= 0
        /\ pending = {} => Capacity(load) > 0
    BY <1>2, <1>6, <2>1, CapacityBounds
  <2>3. to_start' <= Capacity(load)
    BY <1>1, <1>2, <1>3, <2>2, SlicedBounds
  <2>4. Left > 0 /\ pending = {} => to_start' > 0
    BY <1>1, <1>2, <1>3, <2>2, SlicedBounds
  <2> QED BY <1>2, <1>3, <1>4, <2>1, <2>2, <2>3, <2>4 DEF Left, TypeOK
<1>7. JobsBound'
  BY <1>2, <1>6 DEF JobsBound, Schedule
<1>8. ControlOK'
  BY <1>2, <1>6 DEF ControlOK, Schedule, Left
<1>9. NothingLost' /\ ExitsOK' /\ WorstSoFar' /\ NeverIdle'
  BY DEF IInv, Schedule, NothingLost, ExitsOK, WorstSoFar, Codes, NeverIdle
<1> QED BY <1>5, <1>7, <1>8, <1>9 DEF IInv

LEMMA StartScheduledKeepsIInv ==
  ASSUME IInv, StartScheduled
  PROVE  IInv'
<1>1. CASE RaiseOnStart
  BY <1>1, RaiseOnStartKeepsIInv DEF StartScheduled
<1>2. CASE Start /\ to_start' = to_start - 1 /\ UNCHANGED <<pc, unpolled, complete>>
  <2>1. /\ pc = "schedule" /\ to_start > 0 /\ Left > 0
        /\ jobs # 1 /\ unpolled = {} /\ complete = {}
    BY DEF IInv, StartScheduled, ControlOK, TypeOK, Left
  <2>2. TypeOK'
    <3>1. to_start' \in 0..Left'
      BY <1>2, <2>1 DEF IInv, TypeOK, Start, Left
    <3> QED BY <1>2, <2>1, <3>1, StartFacts DEF IInv, TypeOK, Start
  <2>3. ControlOK'
    BY <1>2, <2>1, StartFacts DEF ControlOK
  <2>4. JobsBound'
    BY <1>2, <2>1, StartFacts, PendingFinite DEF IInv, JobsBound, TypeOK, Left
  <2>5. NeverIdle'
    BY <1>2, <2>1 DEF NeverIdle
  <2> QED BY <1>2, <2>1, <2>2, <2>3, <2>4, <2>5, StartFacts DEF IInv
<1> QED BY <1>1, <1>2 DEF StartScheduled

LEMMA SleepReturnKeepIInv ==
  ASSUME IInv, Sleep \/ Return
  PROVE  IInv'
<1>1. TypeOK'
  BY DEF IInv, Sleep, Return, TypeOK, Left
<1>2. NothingLost' /\ ExitsOK' /\ JobsBound' /\ WorstSoFar'
  BY DEF IInv, Sleep, Return, NothingLost, ExitsOK, JobsBound, WorstSoFar, Codes
<1>3. CASE Sleep
  <2>1. pc' = "loop" /\ pc = "schedule" /\ to_start = 0 /\ jobs # 1
    BY <1>3 DEF IInv, Sleep, ControlOK
  <2>2. ControlOK'
    BY <1>3, <2>1 DEF IInv, Sleep, ControlOK
  <2>3. NeverIdle'
    BY <1>3, <2>1 DEF IInv, Sleep, ControlOK, NeverIdle, Left
  <2> QED BY <1>1, <1>2, <2>2, <2>3 DEF IInv
<1>4. CASE Return
  <2>1. ControlOK' /\ NeverIdle'
    BY <1>4 DEF IInv, Return, ControlOK, NeverIdle, Left
  <2> QED BY <1>1, <1>2, <2>1 DEF IInv
<1> QED BY <1>3, <1>4

LEMMA ExitKeepsIInv ==
  ASSUME IInv, NEW i \in Invocations, Exit(i)
  PROVE  IInv'
<1>1. PICK code \in ExitCodes :
        /\ i \in alive
        /\ alive' = alive \ {i}
        /\ returncode' = [returncode EXCEPT ![i] = code]
  BY DEF Exit
<1>2. TypeOK'
  BY <1>1 DEF IInv, Exit, TypeOK, Left
<1>3. i \in pending /\ i \notin printed /\ i <= started
  BY <1>1 DEF IInv, TypeOK, NothingLost, Invocations
<1>4. ExitsOK'
  BY <1>1, <1>3 DEF IInv, Exit, ExitsOK, TypeOK, Invocations
<1>5. WorstSoFar'
  <2>1. \A j \in printed : returncode'[j] = returncode[j]
    BY <1>1, <1>3 DEF IInv, TypeOK
  <2> QED BY <2>1 DEF IInv, Exit, WorstSoFar, Codes
<1>6. ControlOK' /\ NothingLost' /\ JobsBound' /\ NeverIdle'
  BY DEF IInv, Exit, ControlOK, NothingLost, JobsBound, NeverIdle, Left
<1> QED BY <1>2, <1>4, <1>5, <1>6 DEF IInv

-----------------------------------------------------------------------------
LEMMA InitIInv == Init => IInv
<1> SUFFICES ASSUME Init PROVE IInv
  OBVIOUS
<1>1. TypeOK /\ NothingLost /\ ControlOK
  BY DEF Init, TypeOK, NothingLost, ControlOK, Left
<1>2. ExitsOK
  BY DEF Init, ExitsOK, Invocations
<1>3. JobsBound /\ NeverIdle
  BY FS_EmptySet DEF Init, JobsBound, NeverIdle
<1>4. WorstSoFar
  BY DEF Init, WorstSoFar, Codes, IsWorst
<1> QED BY <1>1, <1>2, <1>3, <1>4 DEF IInv

LEMMA NextKeepsIInv == IInv /\ [Next]_vars => IInv'
<1> SUFFICES ASSUME IInv, [Next]_vars PROVE IInv'
  OBVIOUS
<1>1. CASE UNCHANGED vars
  BY <1>1 DEF vars, IInv, TypeOK, NothingLost, ControlOK, ExitsOK, JobsBound,
              WorstSoFar, Codes, NeverIdle, Left
<1>2. CASE execute
  BY <1>2, SerialStartKeepsIInv, SerialReportKeepsIInv, BeginPollKeepsIInv,
     PollKeepsIInv, ReportCompleteKeepsIInv, ScheduleKeepsIInv,
     StartScheduledKeepsIInv, SleepReturnKeepIInv
     DEF execute
<1>3. CASE \E i \in Invocations : Exit(i)
  BY <1>3, ExitKeepsIInv
<1> QED BY <1>1, <1>2, <1>3 DEF Next

(* The scheduler's inductive invariant, from which the others follow.      *)
THEOREM SchedulerInvariant == Spec => []IInv
BY InitIInv, NextKeepsIInv, PTL DEF Spec

(* The variables keep their types, for any -j and -l.                      *)
THEOREM SchedulerTypeCorrect == Spec => []TypeOK
<1>1. IInv => TypeOK
  BY DEF IInv
<1> QED BY <1>1, SchedulerInvariant, PTL

(* -j bounds the processes that are started and unreported, whatever the   *)
(* load and whenever processes exit.                                       *)
THEOREM AtMostJobs == Spec => []JobsBound
<1>1. IInv => JobsBound
  BY DEF IInv
<1> QED BY <1>1, SchedulerInvariant, PTL

(* No process that was started is forgotten, and none is reported twice;   *)
(* an exception loses one that has exited, and no other.                   *)
THEOREM EveryProcessAccountedFor == Spec => []NothingLost
<1>1. IInv => NothingLost
  BY DEF IInv
<1> QED BY <1>1, SchedulerInvariant, PTL

(* When execute() returns, every invocation has been reported and the      *)
(* result is the worst of all exit codes, whatever order they came in.     *)
THEOREM ReturnsWorst == Spec => []ResultIsWorst
<1>1. IInv => ResultIsWorst
  <2> SUFFICES ASSUME IInv, pc = "returned"
               PROVE  /\ printed = Invocations
                      /\ IsWorst(Codes, exit_code)
    BY DEF ResultIsWorst, IsWorst, Codes
  <2>1. pending = {} /\ started = NumInvocations
    BY DEF IInv, ControlOK, TypeOK, Left
  <2> QED BY <2>1 DEF IInv, NothingLost, Invocations, WorstSoFar
<1> QED BY <1>1, SchedulerInvariant, PTL

(* The loop never sleeps while work is left and nothing runs.              *)
THEOREM WorkWhileLeft == Spec => []NeverIdle
<1>1. IInv => NeverIdle
  BY DEF IInv
<1> QED BY <1>1, SchedulerInvariant, PTL
=============================================================================
