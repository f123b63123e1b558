-------------------------- MODULE DepartmentProofs --------------------------
(***************************************************************************)
(* Departments for any number of schedules, sessions and crashes, and      *)
(* their revenue signals for any number of loops: schedules fire when they *)
(* are due, what is stopped or disabled stays so, and what the signals     *)
(* count was found.                                                        *)
(***************************************************************************)
EXTENDS DepartmentRuntime, DepartmentSignals, TLAPS

(***************************************************************************)
(* The schedules: the inductive invariant                                  *)
(***************************************************************************)
DeptStatus == {NotThere, "active", "paused", "killed"}
Place      == {"idle", "spawn", "plan", "request", "created", "begin", "work", "fire", "reschedule", "stop"}
Schedule   == [there : BOOLEAN, enabled : BOOLEAN, due : BOOLEAN]

DeptTypeOK ==
  /\ status \in DeptStatus
  /\ sched \in [Schedules -> Schedule]
  /\ pc \in [Actors -> Place]
  /\ copy \in [Actors -> DeptStatus]
  /\ todo \subseteq Schedules
  /\ firing \in Schedules \cup {NoSchedule}
  /\ dues \in [Schedules -> Nat] /\ fired \in [Schedules -> Nat]
  /\ crashes \in Nat

(* The department is launched once: the schedules that AddSchedules writes  *)
(* are not there before, and have neither come due nor fired.               *)
LaunchOK ==
  /\ status = NotThere => \A s \in Schedules : ~sched[s].there
  /\ pc[Launcher] \in {"spawn", "plan"} =>
       status # NotThere /\ \A s \in Schedules : ~sched[s].there
  /\ \A s \in Schedules : ~sched[s].there => ~sched[s].due /\ dues[s] = 0 /\ fired[s] = 0

(* What the scheduler has on its list is still due, and so is what it is    *)
(* firing until the new time is committed; nothing is on the list twice.    *)
ListOK ==
  /\ todo # {} => pc[Scheduler] # "idle"
  /\ \A s \in todo : sched[s].there /\ sched[s].due
  /\ pc[Scheduler] = "reschedule" =>
       firing \in Schedules \ todo /\ sched[firing].there /\ sched[firing].due

DeptInv == DeptTypeOK /\ LaunchOK /\ ListOK /\ FiresOncePerDue

(***************************************************************************)
(* The schedules: the invariant is inductive                               *)
(***************************************************************************)
LEMMA DeptInvInit == Init => DeptInv
<1> SUFFICES ASSUME Init PROVE DeptInv
  OBVIOUS
<1>1. Launcher \in Actors /\ Scheduler \in Actors
  BY DEF Actors, Runners
<1> QED BY <1>1 DEF Init, DeptInv, DeptTypeOK, LaunchOK, ListOK, FiresOncePerDue, DeptStatus, Place, Schedule, NotThere

(* Most steps leave which schedules are there and due as it is; they move   *)
(* somebody on, the scheduler between other places than that where it is    *)
(* about to commit a new time.                                              *)
LEMMA OthersKeep ==
  ASSUME DeptInv, DeptTypeOK', UNCHANGED <<dues, fired>>,
         \A s \in Schedules : sched'[s].there = sched[s].there /\ sched'[s].due = sched[s].due,
         status' = NotThere => status = NotThere,
         pc'[Launcher] \in {"spawn", "plan"} =>
           status' # NotThere /\ (pc[Launcher] \in {"spawn", "plan"} \/ status = NotThere),
         todo' \subseteq todo, todo' # {} => pc'[Scheduler] # "idle",
         \/ pc'[Scheduler] = pc[Scheduler] /\ todo' = todo /\ firing' = firing
         \/ pc'[Scheduler] # "reschedule",
         crashes' = 0 => crashes = 0 /\ (pc[Scheduler] = "reschedule" => pc'[Scheduler] = "reschedule")
  PROVE  DeptInv'
<1>1. LaunchOK'
  BY DEF DeptInv, LaunchOK
<1>2. ListOK'
  BY DEF DeptInv, DeptTypeOK, ListOK
<1>3. FiresOncePerDue'
  BY DEF DeptInv, FiresOncePerDue
<1> QED BY <1>1, <1>2, <1>3 DEF DeptInv

(* Who is who: everybody who acts is an actor, and the launcher and the     *)
(* scheduler are no others.                                                 *)
LEMMA Cast ==
  /\ Launcher \in Actors /\ Scheduler \in Actors /\ Launcher # Scheduler
  /\ Runners \subseteq Actors /\ Operators \subseteq Actors
  /\ Requests \subseteq Actors /\ Pollers \subseteq Actors
  /\ \A a \in Requests \cup Pollers \cup Operators : a # Launcher /\ a # Scheduler
BY ConstantsOK DEF Actors, Runners

(* The steps of the launch that do not write the schedules. *)
LEMMA LaunchKeeps ==
  ASSUME DeptInv, Launch \/ SpawnAgents \/ CreateFirstRun \/ LaunchOnly PROVE DeptInv'
<1>1. DeptTypeOK'
  BY Cast DEF DeptInv, DeptTypeOK, DeptStatus, Place, NotThere, Launch, SpawnAgents, CreateFirstRun, LaunchOnly,
              Goto, table
<1>2. pc'[Scheduler] = pc[Scheduler]
  BY Cast DEF DeptInv, DeptTypeOK, Launch, SpawnAgents, CreateFirstRun, LaunchOnly, Goto
<1>3. /\ UNCHANGED <<sched, todo, firing, dues, fired, crashes>>
      /\ \/ status = NotThere /\ status' = "active" /\ pc'[Launcher] = "spawn"
         \/ status' = status /\ pc[Launcher] = "spawn" /\ pc'[Launcher] = "plan"
         \/ status' = status /\ pc'[Launcher] \in {"created", "idle"}
  BY Cast DEF DeptInv, DeptTypeOK, Launch, SpawnAgents, CreateFirstRun, LaunchOnly, Goto, table
<1>4. status' = NotThere => status = NotThere
  BY <1>3 DEF NotThere
<1>5. pc'[Launcher] \in {"spawn", "plan"} =>
        status' # NotThere /\ (pc[Launcher] \in {"spawn", "plan"} \/ status = NotThere)
  BY <1>3 DEF DeptInv, LaunchOK, NotThere
<1>6. todo' # {} => pc'[Scheduler] # "idle"
  BY <1>2, <1>3 DEF DeptInv, ListOK
<1> QED BY <1>1, <1>2, <1>3, <1>4, <1>5, <1>6, OthersKeep

(* All schedules are written at once; none was there.                       *)
LEMMA AddKeeps ==
  ASSUME DeptInv, AddSchedules PROVE DeptInv'
<1>1. /\ pc[Launcher] = "plan" /\ pc' = [pc EXCEPT ![Launcher] = "request"]
      /\ \A s \in Schedules : /\ sched'[s].there /\ (sched'[s].due <=> s \in DueAtOnce)
                              /\ dues'[s] = IF s \in DueAtOnce THEN 1 ELSE 0
      /\ UNCHANGED <<status, copy, todo, firing, fired, crashes>>
  BY DEF AddSchedules, Goto
<1>2. /\ status # NotThere /\ \A s \in Schedules : ~sched[s].there /\ fired[s] = 0
  BY <1>1 DEF DeptInv, LaunchOK
<1>3. pc[Scheduler] # "reschedule" /\ todo = {} /\ pc'[Scheduler] = pc[Scheduler]
  BY <1>1, <1>2, Cast DEF DeptInv, DeptTypeOK, ListOK
<1>4. DeptTypeOK'
  <2>1. sched' \in [Schedules -> Schedule] /\ dues' \in [Schedules -> Nat]
    BY DEF AddSchedules, Schedule
  <2>2. pc' \in [Actors -> Place]
    BY <1>1 DEF DeptInv, DeptTypeOK, Place
  <2> QED BY <1>1, <2>1, <2>2 DEF DeptInv, DeptTypeOK
<1>5. LaunchOK'
  BY <1>1, <1>2, Cast DEF DeptInv, DeptTypeOK, LaunchOK
<1>6. ListOK'
  BY <1>1, <1>3 DEF ListOK
<1>7. FiresOncePerDue'
  BY <1>1, <1>2, <1>3 DEF FiresOncePerDue
<1> QED BY <1>4, <1>5, <1>6, <1>7 DEF DeptInv

LEMMA ComesDueKeeps ==
  ASSUME DeptInv, NEW s \in Schedules, ComesDue(s) PROVE DeptInv'
<1>1. /\ sched[s].there /\ ~sched[s].due
      /\ sched' = [sched EXCEPT ![s].due = TRUE] /\ dues' = [dues EXCEPT ![s] = @ + 1]
      /\ UNCHANGED <<status, pc, copy, todo, firing, fired, crashes>>
  BY DEF ComesDue
<1>a. /\ dues' \in [Schedules -> Nat] /\ dues'[s] = dues[s] + 1
      /\ \A t \in Schedules : t # s => dues'[t] = dues[t]
  BY <1>1 DEF DeptInv, DeptTypeOK
<1>b. /\ sched' \in [Schedules -> Schedule] /\ sched'[s].due
      /\ \A t \in Schedules : sched'[t].there = sched[t].there
      /\ \A t \in Schedules : t # s => sched'[t] = sched[t]
  BY <1>1 DEF DeptInv, DeptTypeOK, Schedule
<1>2. /\ sched' \in [Schedules -> Schedule] /\ dues' \in [Schedules -> Nat]
      /\ sched'[s].due /\ dues'[s] = dues[s] + 1
      /\ \A t \in Schedules : sched'[t].there = sched[t].there
      /\ \A t \in Schedules : t # s => sched'[t] = sched[t] /\ dues'[t] = dues[t]
  BY <1>a, <1>b
<1>3. DeptTypeOK'
  BY <1>1, <1>2 DEF DeptInv, DeptTypeOK
<1>4. LaunchOK'
  BY <1>1, <1>2 DEF DeptInv, LaunchOK
<1>5. ListOK'
  BY <1>1, <1>2 DEF DeptInv, DeptTypeOK, ListOK
<1>6. FiresOncePerDue'
  <2> SUFFICES ASSUME crashes = 0, NEW t \in Schedules
               PROVE  fired[t] + (IF sched'[t].due /\ ~(firing = t /\ pc[Scheduler] = "reschedule") THEN 1 ELSE 0)
                        = dues'[t]
    BY <1>1 DEF FiresOncePerDue
  <2>1. /\ fired[t] \in Nat /\ dues[t] \in Nat
        /\ fired[t] + (IF sched[t].due /\ ~(firing = t /\ pc[Scheduler] = "reschedule") THEN 1 ELSE 0) = dues[t]
    BY DEF DeptInv, DeptTypeOK, FiresOncePerDue
  <2>2. ~(firing = s /\ pc[Scheduler] = "reschedule")
    BY <1>1 DEF DeptInv, ListOK
  <2> QED BY <1>1, <1>2, <2>1, <2>2
<1> QED BY <1>3, <1>4, <1>5, <1>6 DEF DeptInv

(* The query: what is due goes on the list. *)
LEMMA FindDueKeeps ==
  ASSUME DeptInv, FindDue PROVE DeptInv'
<1>1. /\ pc[Scheduler] = "idle" /\ pc' = [pc EXCEPT ![Scheduler] = "fire"]
      /\ todo' \subseteq Schedules /\ \A s \in todo' : sched[s].there /\ sched[s].due
      /\ UNCHANGED <<status, sched, copy, firing, dues, fired, crashes>>
  BY DEF FindDue, Goto, table
<1>2. DeptTypeOK'
  BY <1>1 DEF DeptInv, DeptTypeOK, Place
<1>3. pc'[Scheduler] = "fire" /\ pc'[Launcher] = pc[Launcher]
  BY <1>1, Cast DEF DeptInv, DeptTypeOK
<1>4. LaunchOK' /\ ListOK' /\ FiresOncePerDue'
  BY <1>1, <1>3 DEF DeptInv, LaunchOK, ListOK, FiresOncePerDue
<1> QED BY <1>2, <1>4 DEF DeptInv

(* A schedule fires: the workflow is created, the new time not committed.   *)
LEMMA FireKeeps ==
  ASSUME DeptInv, NEW s \in Schedules, Fire(s) PROVE DeptInv'
<1>1. /\ s \in todo /\ pc[Scheduler] = "fire" /\ pc' = [pc EXCEPT ![Scheduler] = "reschedule"]
      /\ todo' = todo \ {s} /\ firing' = s /\ fired' = [fired EXCEPT ![s] = @ + 1]
      /\ copy' = [copy EXCEPT ![Scheduler] = Loaded(Scheduler)]
      /\ UNCHANGED <<status, sched, dues, crashes>>
  BY DEF Fire, Goto, table
<1>2. sched[s].there /\ sched[s].due
  BY <1>1 DEF DeptInv, ListOK
<1>3. DeptTypeOK'
  <2>1. pc' \in [Actors -> Place]
    BY <1>1 DEF DeptInv, DeptTypeOK, Place
  <2>2. copy' \in [Actors -> DeptStatus]
    BY <1>1, Cast DEF DeptInv, DeptTypeOK, Loaded
  <2>3. fired' \in [Schedules -> Nat]
    BY <1>1 DEF DeptInv, DeptTypeOK
  <2> QED BY <1>1, <2>1, <2>2, <2>3 DEF DeptInv, DeptTypeOK
<1>4. /\ pc'[Scheduler] = "reschedule" /\ pc'[Launcher] = pc[Launcher]
      /\ fired'[s] = fired[s] + 1 /\ \A t \in Schedules : t # s => fired'[t] = fired[t]
  BY <1>1, Cast DEF DeptInv, DeptTypeOK
<1>5. LaunchOK' /\ ListOK'
  BY <1>1, <1>2, <1>4 DEF DeptInv, LaunchOK, ListOK
<1>6. FiresOncePerDue'
  BY <1>1, <1>2, <1>4 DEF DeptInv, DeptTypeOK, FiresOncePerDue
<1> QED BY <1>3, <1>5, <1>6 DEF DeptInv

LEMMA RescheduleKeeps ==
  ASSUME DeptInv, Reschedule PROVE DeptInv'
<1>1. /\ pc[Scheduler] = "reschedule" /\ pc' = [pc EXCEPT ![Scheduler] = "created"]
      /\ sched' = [sched EXCEPT ![firing].due = FALSE]
      /\ UNCHANGED <<status, copy, todo, firing, dues, fired, crashes>>
  BY DEF Reschedule, Goto
<1>2. firing \in Schedules /\ firing \notin todo /\ sched[firing].there
  BY <1>1 DEF DeptInv, ListOK
<1>3. /\ sched' \in [Schedules -> Schedule] /\ ~sched'[firing].due
      /\ \A t \in Schedules : sched'[t].there = sched[t].there
      /\ \A t \in Schedules : t # firing => sched'[t] = sched[t]
  BY <1>1, <1>2 DEF DeptInv, DeptTypeOK, Schedule
<1>4. DeptTypeOK'
  BY <1>1, <1>3 DEF DeptInv, DeptTypeOK, Place
<1>5. pc'[Scheduler] = "created" /\ pc'[Launcher] = pc[Launcher]
  BY <1>1, Cast DEF DeptInv, DeptTypeOK
<1>6. LaunchOK' /\ FiresOncePerDue'
  BY <1>1, <1>2, <1>3, <1>5 DEF DeptInv, LaunchOK, FiresOncePerDue
<1>7. ListOK'
  BY <1>1, <1>2, <1>3, <1>5 DEF DeptInv, DeptTypeOK, ListOK
<1> QED BY <1>4, <1>6, <1>7 DEF DeptInv

LEMMA ListDoneKeeps ==
  ASSUME DeptInv, ListDone PROVE DeptInv'
<1>1. DeptTypeOK'
  BY Cast DEF DeptInv, DeptTypeOK, DeptStatus, Place, NotThere, ListDone, Goto, table
<1>2. /\ UNCHANGED <<status, sched, todo, firing, dues, fired, crashes>>
      /\ todo = {} /\ pc[Scheduler] = "fire" /\ pc'[Scheduler] = "idle" /\ pc'[Launcher] = pc[Launcher]
  BY Cast DEF DeptInv, DeptTypeOK, ListDone, Goto, table
<1> QED BY <1>1, <1>2, OthersKeep DEF DeptInv, LaunchOK

(* Requests and pollers begin a run. *)
LEMMA BeginningsKeep ==
  ASSUME DeptInv, (\E q \in Requests : RequestRun(q)) \/ (\E p \in Pollers : TakePending(p)) PROVE DeptInv'
<1>1. ASSUME NEW a \in Requests \cup Pollers, pc' = [pc EXCEPT ![a] = "created"],
             copy' \in [Actors -> DeptStatus],
             UNCHANGED <<status, sched, todo, firing, dues, fired, crashes>>
      PROVE  DeptInv'
  <2>1. DeptTypeOK'
    BY <1>1 DEF DeptInv, DeptTypeOK, Place
  <2>2. pc'[Launcher] = pc[Launcher] /\ pc'[Scheduler] = pc[Scheduler]
    BY <1>1, Cast DEF DeptInv, DeptTypeOK
  <2> QED BY <1>1, <2>1, <2>2, OthersKeep DEF DeptInv, LaunchOK, ListOK
<1>2. ASSUME NEW q \in Requests, RequestRun(q) PROVE DeptInv'
  <2>1. copy' \in [Actors -> DeptStatus]
    BY <1>2, Cast DEF RequestRun, DeptInv, DeptTypeOK
  <2> QED BY <1>1, <1>2, <2>1 DEF RequestRun, Goto, table
<1>3. ASSUME NEW p \in Pollers, TakePending(p) PROVE DeptInv'
  BY <1>1, <1>3 DEF TakePending, Goto, DeptInv, DeptTypeOK
<1> QED BY <1>2, <1>3

(* The operating loop, of whoever runs it. *)
LEMMA LoopKeeps ==
  ASSUME DeptInv, NEW r \in Runners, LoopStep(r) PROVE DeptInv'
<1>1. /\ UNCHANGED <<status, sched, todo, dues, fired, crashes>>
      /\ pc[r] \in {"created", "begin", "work"}
      /\ \/ pc' = [pc EXCEPT ![r] = "begin"] /\ copy' = [copy EXCEPT ![r] = Loaded(r)] /\ firing' = firing
         \/ pc' = [pc EXCEPT ![r] = "work"] /\ copy' = copy /\ firing' = firing
         \/ LeaveLoop(r)
  BY DEF LoopStep, MarkRunning, SkipLoop, BeginLoop, EndLoop, RetryLoop, FailLoop, Goto, table
<1>2. DeptTypeOK'
  <2>1. Loaded(r) \in DeptStatus /\ NotThere \in DeptStatus /\ r \in Actors
    BY Cast DEF DeptInv, DeptTypeOK, Loaded, DeptStatus
  <2>2. pc' \in [Actors -> Place]
    BY <1>1, <2>1 DEF DeptInv, DeptTypeOK, Place, LeaveLoop
  <2>3. copy' \in [Actors -> DeptStatus]
    BY <1>1, <2>1 DEF DeptInv, DeptTypeOK, LeaveLoop
  <2>4. firing' \in Schedules \cup {NoSchedule}
    BY <1>1 DEF DeptInv, DeptTypeOK, LeaveLoop
  <2> QED BY <1>1, <2>2, <2>3, <2>4 DEF DeptInv, DeptTypeOK
<1>3. CASE r = Scheduler
  <2>1. pc'[Scheduler] \in {"begin", "work", "fire"} /\ pc'[Launcher] = pc[Launcher]
    BY <1>1, <1>3, Cast DEF DeptInv, DeptTypeOK, LeaveLoop
  <2> QED BY <1>1, <1>2, <1>3, <2>1, OthersKeep DEF DeptInv, LaunchOK
<1>4. CASE r # Scheduler
  <2>1. pc'[Scheduler] = pc[Scheduler] /\ firing' = firing
    BY <1>1, <1>4, Cast DEF DeptInv, DeptTypeOK, LeaveLoop
  <2>2. pc'[Launcher] = pc[Launcher] \/ pc'[Launcher] \in {"begin", "work", "idle"}
    BY <1>1, <1>4, Cast DEF DeptInv, DeptTypeOK, LeaveLoop
  <2> QED BY <1>1, <1>2, <2>1, <2>2, OthersKeep DEF DeptInv, LaunchOK, ListOK
<1> QED BY <1>3, <1>4

(* Pause and kill; a kill writes what the schedules owe back as it is.      *)
LEMMA OperatorsKeep ==
  ASSUME DeptInv, NEW o \in Operators, LoadToStop(o) \/ Pause(o) \/ Kill(o) PROVE DeptInv'
<1>0. o \in Actors /\ o # Launcher /\ o # Scheduler
  BY Cast
<1>1. /\ UNCHANGED <<todo, firing, dues, fired, crashes>>
      /\ \/ pc' = [pc EXCEPT ![o] = "stop"] /\ copy' = [copy EXCEPT ![o] = status] /\ status' = status
         \/ /\ pc' = [pc EXCEPT ![o] = "idle"] /\ copy' = [copy EXCEPT ![o] = NotThere]
            /\ status' \in {status, "paused", "killed"}
      /\ sched' = sched \/ sched' = [s \in Schedules |-> [sched[s] EXCEPT !.enabled = FALSE]]
  BY DEF LoadToStop, Pause, Kill, Stop, Goto, table
<1>2. /\ sched' \in [Schedules -> Schedule]
      /\ \A s \in Schedules : sched'[s].there = sched[s].there /\ sched'[s].due = sched[s].due
  <2>1. sched \in [Schedules -> Schedule]
    BY DEF DeptInv, DeptTypeOK
  <2>2. CASE sched' = [s \in Schedules |-> [sched[s] EXCEPT !.enabled = FALSE]]
    <3>1. \A x \in Schedule : /\ [x EXCEPT !.enabled = FALSE] \in Schedule
                             /\ [x EXCEPT !.enabled = FALSE].there = x.there
                             /\ [x EXCEPT !.enabled = FALSE].due = x.due
      BY DEF Schedule
    <3> QED BY <2>1, <2>2, <3>1
  <2> QED BY <1>1, <2>1, <2>2
<1>3. pc' \in [Actors -> Place] /\ pc'[Launcher] = pc[Launcher] /\ pc'[Scheduler] = pc[Scheduler]
  BY <1>0, <1>1, Cast DEF DeptInv, DeptTypeOK, Place
<1>4. copy' \in [Actors -> DeptStatus] /\ status' \in DeptStatus
  BY <1>0, <1>1 DEF DeptInv, DeptTypeOK, DeptStatus
<1>5. DeptTypeOK'
  BY <1>1, <1>2, <1>3, <1>4 DEF DeptInv, DeptTypeOK
<1>6. status' = NotThere => status = NotThere
  BY <1>1 DEF NotThere
<1>7. /\ pc'[Launcher] \in {"spawn", "plan"} => status' # NotThere /\ pc[Launcher] \in {"spawn", "plan"}
      /\ todo' # {} => pc'[Scheduler] # "idle"
  BY <1>1, <1>3, <1>6 DEF DeptInv, LaunchOK, ListOK
<1> QED BY <1>1, <1>2, <1>3, <1>5, <1>6, <1>7, OthersKeep

(* A session is lost, and with it the scheduler's list: from then on        *)
(* nothing is promised of the number of firings.                            *)
LEMMA CrashKeeps ==
  ASSUME DeptInv, NEW a \in Actors, Crash(a) PROVE DeptInv'
<1>1. /\ pc' = [pc EXCEPT ![a] = "idle"] /\ copy' = [copy EXCEPT ![a] = NotThere]
      /\ crashes' = crashes + 1
      /\ IF a = Scheduler THEN todo' = {} /\ firing' = NoSchedule ELSE UNCHANGED <<todo, firing>>
      /\ UNCHANGED <<status, sched, dues, fired>>
  BY DEF Crash
<1>2. crashes' \in Nat /\ crashes' # 0
  BY <1>1 DEF DeptInv, DeptTypeOK
<1>3. pc' \in [Actors -> Place] /\ copy' \in [Actors -> DeptStatus]
  BY <1>1 DEF DeptInv, DeptTypeOK, Place, DeptStatus
<1>4. DeptTypeOK'
  BY <1>1, <1>2, <1>3 DEF DeptInv, DeptTypeOK
<1>5. /\ pc'[Launcher] \in {"idle", pc[Launcher]}
      /\ a = Scheduler => pc'[Scheduler] = "idle" /\ todo' = {}
      /\ a # Scheduler => pc'[Scheduler] = pc[Scheduler] /\ todo' = todo /\ firing' = firing
  BY <1>1, Cast DEF DeptInv, DeptTypeOK
<1>6. LaunchOK'
  BY <1>1, <1>5 DEF DeptInv, LaunchOK
<1>7. ListOK'
  BY <1>1, <1>5 DEF DeptInv, ListOK
<1> QED BY <1>2, <1>4, <1>6, <1>7 DEF DeptInv, FiresOncePerDue

LEMMA DeptInvNext == DeptInv /\ [Next]_vars => DeptInv'
<1> SUFFICES ASSUME DeptInv, [Next]_vars PROVE DeptInv'
  OBVIOUS
<1>1. CASE UNCHANGED vars
  BY <1>1 DEF vars, DeptInv, DeptTypeOK, LaunchOK, ListOK, FiresOncePerDue
<1> QED BY <1>1, LaunchKeeps, AddKeeps, ComesDueKeeps, FindDueKeeps, FireKeeps, RescheduleKeeps, ListDoneKeeps,
           BeginningsKeep, LoopKeeps, OperatorsKeep, CrashKeeps DEF Next, LaunchStep, ScheduleStep

LEMMA DeptInvAlways == Spec => []DeptInv
BY DeptInvInit, DeptInvNext, PTL DEF Spec

(***************************************************************************)
(* The schedules: theorems                                                 *)
(***************************************************************************)

(* process_due_department_schedules fires every schedule once each time it  *)
(* comes due, however many schedules, requests, pauses and kills there are, *)
(* as long as no session is lost.                                           *)
THEOREM NoFiringLostOrRepeated == Spec => []FiresOncePerDue
BY DeptInvAlways, PTL DEF DeptInv

(* No session that loaded the department before it was paused or killed     *)
(* makes it active again.                                                   *)
THEOREM NoLoopUndoesAStop == Spec => StoppedStaysStopped
<1>1. [Next]_vars => [(status \in Stopped) => (status' \in Stopped)]_vars
  <2> SUFFICES ASSUME Next, status \in Stopped PROVE status' \in Stopped
    OBVIOUS
  <2>1. CASE Launch
    BY <2>1 DEF Launch, Stopped, NotThere
  <2>2. ASSUME NEW o \in Operators, Pause(o) \/ Kill(o) PROVE status' \in Stopped
    BY <2>2 DEF Pause, Kill, Stop, Stopped
  <2>3. ASSUME NEW r \in Runners, LoopStep(r) PROVE status' = status
    BY <2>3 DEF LoopStep, MarkRunning, SkipLoop, BeginLoop, EndLoop, RetryLoop, FailLoop, table
  <2>4. CASE LaunchStep \/ ScheduleStep
    BY <2>4 DEF LaunchStep, ScheduleStep, SpawnAgents, AddSchedules, CreateFirstRun, LaunchOnly, FindDue, Fire,
                Reschedule, ListDone, table
  <2> QED BY <2>1, <2>2, <2>3, <2>4 DEF Next, RequestRun, TakePending, LoadToStop, ComesDue, Crash, table
<1> QED BY <1>1, PTL DEF Spec, StoppedStaysStopped

(* What a kill has disabled no step enables again: the schedules are        *)
(* written as a whole once, when none is there, and by the column after.    *)
THEOREM NothingEnablesAgain == Spec => DisabledStaysDisabled
<1>1. DeptInv /\ [Next]_vars =>
        [\A s \in Schedules : sched[s].there /\ ~sched[s].enabled => ~sched'[s].enabled]_vars
  <2> SUFFICES ASSUME DeptInv, Next, NEW s \in Schedules, sched[s].there, ~sched[s].enabled
               PROVE  ~sched'[s].enabled
    OBVIOUS
  <2>0. sched \in [Schedules -> Schedule]
    BY DEF DeptInv, DeptTypeOK
  <2>1. ~AddSchedules
    BY DEF AddSchedules, Goto, DeptInv, LaunchOK
  <2>2. ASSUME NEW t \in Schedules, ComesDue(t) PROVE ~sched'[s].enabled
    BY <2>0, <2>2 DEF ComesDue, Schedule
  <2>3. CASE Reschedule
    BY <2>0, <2>3 DEF Reschedule, Schedule
  <2>4. ASSUME NEW o \in Operators, Kill(o) PROVE ~sched'[s].enabled
    BY <2>0, <2>4 DEF Kill, Schedule
  <2>5. ASSUME NEW r \in Runners, LoopStep(r) PROVE sched' = sched
    BY <2>5 DEF LoopStep, MarkRunning, SkipLoop, BeginLoop, EndLoop, RetryLoop, FailLoop, table
  <2>6. CASE Launch \/ SpawnAgents \/ CreateFirstRun \/ LaunchOnly \/ FindDue \/ ListDone
    BY <2>6 DEF Launch, SpawnAgents, CreateFirstRun, LaunchOnly, FindDue, ListDone, table
  <2> QED BY <2>1, <2>2, <2>3, <2>4, <2>5, <2>6
      DEF Next, LaunchStep, ScheduleStep, Fire, RequestRun, TakePending, LoadToStop, Pause, Crash, table
<1> QED BY <1>1, DeptInvAlways, PTL DEF Spec, DisabledStaysDisabled

(***************************************************************************)
(* The revenue signals                                                     *)
(***************************************************************************)
Signals == [lead_count : Nat, pipeline_value : Nat, content_outputs : Nat]

Counted(s) == s.lead_count + s.content_outputs

(* Signals that are worth what they count, and count what was found.        *)
Sound(s) == s \in Signals /\ s.pipeline_value = 5000 * s.lead_count /\ Counted(s) <= found

(* The inductive invariant: the objects sessions hold are as sound as the   *)
(* column; and as long as no two sessions ever held one at once, the one    *)
(* that does holds what is in the column, and that counts all that was      *)
(* found.                                                                   *)
SignalsInv ==
  /\ kind \in {"sales", "content", "other"} /\ found \in Nat /\ overlapped \in BOOLEAN
  /\ Sound(signals) /\ health \in Nat
  /\ held \in [LoopSessions -> SUBSET [signals : Signals, health : Nat]]
  /\ \A s \in LoopSessions : \A d \in held[s] : Sound(d.signals)
  /\ \A s \in LoopSessions : \A d, e \in held[s] : d = e
  /\ ~overlapped =>
       /\ \A s, t \in LoopSessions : Holds(s) /\ Holds(t) => s = t
       /\ \A s \in LoopSessions : \A d \in held[s] : d.signals = signals
       /\ kind # "other" => Counted(signals) = found

(* A health score is a natural number.                                     *)
LEMMA HealthIsCounted == \A approvals : Health(TRUE, approvals) \in Nat
<1> SUFFICES ASSUME NEW approvals PROVE Health(TRUE, approvals) \in Nat
  OBVIOUS
<1>1. CASE approvals > 10
  <2>1. Health(TRUE, approvals) = 95 - 10
    BY <1>1 DEF Health
  <2>2. 95 - 10 \in Nat
    OBVIOUS
  <2> QED BY <2>1, <2>2, Zenon
<1>2. CASE ~(approvals > 10)
  <2>1. Health(TRUE, approvals) = 95 - 0
    BY <1>2 DEF Health
  <2>2. 95 - 0 \in Nat
    OBVIOUS
  <2> QED BY <2>1, <2>2, Zenon
<1> QED BY <1>1, <1>2, Zenon

(* department_metrics of bridge.rs keeps signals sound, and counts all of n *)
(* in the departments that count anything.                                  *)
LEMMA MetricsSound ==
  ASSUME NEW type \in {"sales", "content", "other"}, NEW n \in Nat, NEW old, Sound(old), found \in Nat,
         NEW new, new = DepartmentMetrics(type, old, n)
  PROVE  /\ new \in Signals /\ new.pipeline_value = 5000 * new.lead_count
         /\ Counted(new) <= found + n
         /\ type # "other" => Counted(new) = Counted(old) + n
  <1>0. old \in Signals
    BY DEF Sound
  <1>1. CASE type = "sales"
    <2> DEFINE a == old.lead_count + n
               b == old.pipeline_value + n * 5000
    <2>1. new = [old EXCEPT !.lead_count = a, !.pipeline_value = b]
      BY <1>1 DEF DepartmentMetrics
    <2>2. a \in Nat /\ b \in Nat
      <3>1. n * 5000 \in Nat
        OBVIOUS
      <3> QED BY <1>0, <3>1 DEF Signals
    <2>3. /\ new.lead_count = a /\ new.pipeline_value = b
          /\ new.content_outputs = old.content_outputs /\ new \in Signals
      <3> HIDE DEF a, b
      <3>1. old \in Signals /\ a \in Nat /\ b \in Nat /\ new = [old EXCEPT !.lead_count = a, !.pipeline_value = b]
        BY <1>0, <2>1, <2>2
      <3> QED BY ONLY <3>1 DEF Signals
    <2> QED BY <1>0, <2>3 DEF Sound, Signals, Counted
  <1>2. CASE type = "content"
    <2>1. new = [old EXCEPT !.content_outputs = @ + n]
      BY <1>2 DEF DepartmentMetrics
    <2>2. /\ new.lead_count = old.lead_count /\ new.pipeline_value = old.pipeline_value
          /\ new.content_outputs = old.content_outputs + n /\ new \in Signals
      BY <2>1 DEF Sound, Signals
    <2> QED BY <1>2, <2>2 DEF Sound, Signals, Counted
  <1>3. CASE type = "other"
    <2>1. new = old
      BY <1>3 DEF DepartmentMetrics
    <2> QED BY <1>3, <2>1 DEF Sound, Signals, Counted
  <1> QED BY <1>1, <1>2, <1>3

LEMMA SignalsInvInit == SignalsInit => SignalsInv
  <1> SUFFICES ASSUME SignalsInit PROVE SignalsInv
    OBVIOUS
  <1>1. Sound(signals) /\ Counted(signals) = found /\ health \in Nat
    BY DEF SignalsInit, Sound, Signals, Counted, NoSignals
  <1>2. /\ held \in [LoopSessions -> SUBSET [signals : Signals, health : Nat]]
        /\ \A s \in LoopSessions : held[s] = {}
    BY DEF SignalsInit
  <1>3. kind \in {"sales", "content", "other"} /\ found \in Nat /\ overlapped \in BOOLEAN
    BY DEF SignalsInit
  <1> QED BY <1>1, <1>2, <1>3 DEF SignalsInv, Holds

LEMMA SignalsInvStep == SignalsInv /\ [SignalsNext]_signalsVars => SignalsInv'
  <1> SUFFICES ASSUME SignalsInv, [SignalsNext]_signalsVars PROVE SignalsInv'
    OBVIOUS
  <1> DEFINE Object == [signals : Signals, health : Nat]
  <1>1. ASSUME NEW s \in LoopSessions, LoadDepartment(s) PROVE SignalsInv'
    <2> DEFINE d == [signals |-> signals, health |-> health]
    <2>1. /\ held' = [held EXCEPT ![s] = {d}] /\ ~Holds(s)
          /\ overlapped' = (overlapped \/ \E other \in LoopSessions : Holds(other))
          /\ UNCHANGED <<kind, signals, health, found>>
      BY <1>1 DEF LoadDepartment
    <2>2. d \in Object /\ d.signals = signals
      BY DEF SignalsInv, Sound
    <2> HIDE DEF d
    <2>3. held' \in [LoopSessions -> SUBSET Object]
      BY <2>1, <2>2 DEF SignalsInv
    <2>4. \A t \in LoopSessions : held'[t] = IF t = s THEN {d} ELSE held[t]
      BY <2>1 DEF SignalsInv
    <2>5. \A t \in LoopSessions : \A e \in held'[t] : Sound(e.signals)'
      BY <2>1, <2>2, <2>4 DEF SignalsInv, Sound, Counted
    <2>6. ASSUME ~overlapped' PROVE \A t \in LoopSessions : held'[t] = IF t = s THEN {d} ELSE {}
      BY <2>1, <2>4, <2>6 DEF Holds
    <2>7. overlapped' \in BOOLEAN
      BY <2>1 DEF SignalsInv
    <2>8. ~overlapped' => ~overlapped
      BY <2>1
    <2> QED BY <2>1, <2>2, <2>3, <2>4, <2>5, <2>6, <2>7, <2>8 DEF SignalsInv, Sound, Counted, Holds
  <1>2. ASSUME NEW s \in LoopSessions, CloseSession(s) PROVE SignalsInv'
    <2>1. /\ held' = [held EXCEPT ![s] = {}] /\ UNCHANGED <<kind, signals, health, found, overlapped>>
      BY <1>2 DEF CloseSession
    <2>2. /\ held' \in [LoopSessions -> SUBSET Object]
          /\ \A t \in LoopSessions : held'[t] \subseteq held[t]
      BY <2>1 DEF SignalsInv
    <2> QED BY <2>1, <2>2 DEF SignalsInv, Sound, Counted, Holds
  <1>3. ASSUME NEW s \in LoopSessions, NEW n \in Found, EndSignals(s, n) PROVE SignalsInv'
    <2>1. PICK old \in held[s] :
            LET new == [signals |-> DepartmentMetrics(kind, old.signals, n),
                        health |-> Health(TRUE, IF kind = "other" THEN 0 ELSE n)]
            IN /\ signals' = Flushed(signals, old.signals, new.signals)
               /\ health' = Flushed(health, old.health, new.health)
               /\ held' = [held EXCEPT ![s] = {new}]
               /\ found' = found + n
               /\ UNCHANGED <<kind, overlapped>>
      BY <1>3 DEF EndSignals
    <2> DEFINE m == DepartmentMetrics(kind, old.signals, n)
               h == Health(TRUE, IF kind = "other" THEN 0 ELSE n)
               new == [signals |-> m, health |-> h]
    <2>2. n \in Nat /\ Sound(old.signals) /\ found \in Nat /\ kind \in {"sales", "content", "other"}
      BY SignalsOK DEF SignalsInv
    <2>3. /\ m \in Signals /\ m.pipeline_value = 5000 * m.lead_count
          /\ Counted(m) <= found + n
          /\ kind # "other" => Counted(m) = Counted(old.signals) + n
      BY <2>2, MetricsSound
    <2>4. h \in Nat /\ new \in Object /\ new.signals = m
      <3>1. h \in Nat
        BY HealthIsCounted
      <3> HIDE DEF m, h
      <3> QED BY <2>3, <3>1
    <2>5. /\ signals' = (IF m = old.signals THEN signals ELSE m) /\ health' \in {health, h}
          /\ held' = [held EXCEPT ![s] = {new}] /\ found' = found + n
          /\ kind' = kind /\ overlapped' = overlapped
      BY <2>1 DEF Flushed
    <2> HIDE DEF m, h, new
    <2>6. Sound(signals)'
      BY <2>2, <2>3, <2>5 DEF SignalsInv, Sound, Counted, Signals
    <2>7. /\ held' \in [LoopSessions -> SUBSET Object] /\ found' \in Nat /\ health' \in Nat
          /\ \A t \in LoopSessions : held'[t] = IF t = s THEN {new} ELSE held[t]
      BY <2>2, <2>4, <2>5 DEF SignalsInv
    <2>8. ASSUME NEW t \in LoopSessions, NEW d \in held'[t] PROVE Sound(d.signals)'
      <3>1. CASE t = s
        BY <2>3, <2>4, <2>5, <2>7, <3>1 DEF Sound, Counted
      <3>2. CASE t # s
        BY <2>2, <2>5, <2>7, <3>2 DEF SignalsInv, Sound, Counted, Signals
      <3> QED BY <3>1, <3>2
    <2>9. ASSUME ~overlapped' PROVE /\ old.signals = signals /\ signals' = m
                                   /\ \A t \in LoopSessions : held'[t] = IF t = s THEN {new} ELSE {}
      <3>1. old.signals = signals /\ \A t \in LoopSessions : t # s => held[t] = {}
        BY <2>5, <2>9 DEF SignalsInv, Holds
      <3> QED BY <2>5, <2>7, <3>1
    <2>10. ASSUME ~overlapped', kind' # "other" PROVE Counted(signals') = found'
      BY <2>3, <2>5, <2>9, <2>10 DEF SignalsInv
    <2> QED BY <2>2, <2>4, <2>5, <2>6, <2>7, <2>8, <2>9, <2>10 DEF SignalsInv, Holds
  <1>4. CASE UNCHANGED signalsVars
    BY <1>4 DEF signalsVars, SignalsInv, Sound, Counted, Holds
  <1> QED BY <1>1, <1>2, <1>3, <1>4 DEF SignalsNext

(* However many sessions hold the department at once, run several loops     *)
(* each and are lost, the pipeline is worth what the counted leads are and  *)
(* nothing is counted that was not found; and nothing found is lost while   *)
(* sessions take turns.                                                     *)
THEOREM SignalsStayConsistent == SignalsSpec => []SignalsConsistent
  <1>1. SignalsInv => SignalsConsistent
    BY DEF SignalsInv, SignalsConsistent, Sound, Counted
  <1> QED BY <1>1, SignalsInvInit, SignalsInvStep, PTL DEF SignalsSpec
=============================================================================
