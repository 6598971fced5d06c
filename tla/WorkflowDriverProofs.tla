------------------------- MODULE WorkflowDriverProofs -------------------------
(***************************************************************************)
(* The workflow runtime under a careful application, proved for any runs,  *)
(* service calls, events and crashes.  The application advances a run only *)
(* when nobody has it in hand, so one service call at most works on a run, *)
(* and what may wake a run (a timer, a subscription, a scheduled call)     *)
(* exists only while the run waits at the step that armed it, one at a     *)
(* time: DrivenInv.  From it follows that the calls the runtime loses      *)
(* track of are bounded by the crashes and the runs given up, for any      *)
(* definition.  That a wake-up is never missing needs a definition without *)
(* a cycle through a wait, that the retry policy bounds the calls one      *)
(* without a cycle through a call other than its own retry.                *)
(***************************************************************************)
EXTENDS WorkflowDriver, WorkflowProofs, FiniteSetTheorems

-----------------------------------------------------------------------------
(* The invariant *)

\* A service call is under way for the run, or is due.
Live(r) == run[r].status \in {"pending", "running"}

WaitsAt(r, s) == run[r].status = "waiting" /\ run[r].step = s

\* What may wake a run exists while it waits at the step that armed it, and
\* there is one timer at most, and none beside a scheduled call.
RowsInv(r) ==
    /\ \A k \in TimerKeys : k.run = r /\ timers[k] = "pending" =>
          WaitsAt(r, k.step) /\ WakeStep(k) # NoStep
    /\ \A k, l \in TimerKeys :
          k.run = r /\ l.run = r /\ timers[k] = "pending" /\ timers[l] = "pending" => k = l
    /\ \A s \in EventSteps : subs[r][s].status = "pending" => WaitsAt(r, s)
    /\ \A s \in CallSteps : \A n \in DOMAIN attempts[r][s] :
          attempts[r][s][n].status = "scheduled" =>
              /\ WaitsAt(r, s)
              /\ \A k \in TimerKeys : k.run = r => timers[k] # "pending"

\* Nothing can wake the run.
Quiet(r) ==
    /\ \A k \in TimerKeys : k.run = r => timers[k] # "pending"
    /\ \A s \in EventSteps : subs[r][s].status # "pending"
    /\ \A s \in CallSteps : \A n \in DOMAIN attempts[r][s] :
          attempts[r][s][n].status # "scheduled"

\* A run is in one place of one service call at most.
Once ==
    \A v, w \in Workers :
        \A i \in DOMAIN workers[v].queue, j \in DOMAIN workers[w].queue :
            workers[v].queue[i] = workers[w].queue[j] => v = w /\ i = j

HandsInv == Once /\ \A r \in Runs : ~ Unattended(r) => Live(r)

Dials(w) == workers[w].pc \in {"dial", "bind", "unwind"}

LastAttempt(r, s) == attempts[r][s][Len(attempts[r][s])]

\* Between its transactions advance_run leaves the run at the call it dials for,
\* whose last attempt has no call yet.
DialInv(w) ==
    Dials(w) =>
        /\ run[Job(w)].status = "running"
        /\ run[Job(w)].step = workers[w].step
        /\ LastAttempt(Job(w), workers[w].step) = NewAttempt
        /\ workers[w].pc = "bind" =>
              calls[workers[w].call] = [run |-> Job(w), step |-> workers[w].step]

DrivenInv ==
    /\ HandsInv
    /\ \A r \in Runs : RowsInv(r)
    /\ \A w \in Workers : DialInv(w)

-----------------------------------------------------------------------------
(* What a step leaves alone *)

\* A step concerns the rows of one run only.
Only(r) ==
    \A q \in Runs \ {r} :
        /\ run'[q] = run[q]
        /\ attempts'[q] = attempts[q]
        /\ subs'[q] = subs[q]
        /\ \A k \in TimerKeys : k.run = q => timers'[k] = timers[k]

CallsKept == \A c \in DOMAIN calls : c \in DOMAIN calls' /\ calls'[c] = calls[c]

\* A run that does not wait is quiet.
LEMMA QuietUnlessWaiting ==
    ASSUME NEW r \in Runs, RowsInv(r), run[r].status # "waiting"
    PROVE  Quiet(r)
BY DEF RowsInv, Quiet, WaitsAt

\* A quiet run satisfies the invariant of its rows.
LEMMA QuietRows ==
    ASSUME NEW r \in Runs, Quiet(r)
    PROVE  RowsInv(r)
BY DEF RowsInv, Quiet

\* A run whose rows stay as they are keeps the invariant of its rows.
LEMMA KeptRows ==
    ASSUME NEW q \in Runs, RowsInv(q),
           run'[q] = run[q], attempts'[q] = attempts[q], subs'[q] = subs[q],
           \A k \in TimerKeys : k.run = q => timers'[k] = timers[k]
    PROVE  RowsInv(q)'
BY ZenonT(60) DEF RowsInv, WaitsAt, WakeStep, CallbackStep

\* So do the other runs when a step concerns one run only.
LEMMA OtherRows ==
    ASSUME NEW r \in Runs, Only(r), NEW q \in Runs \ {r}, RowsInv(q)
    PROVE  RowsInv(q)'
BY KeptRows DEF Only

\* A service call in the middle of advance_run has its run in hand.
LEMMA DiallerHolds ==
    ASSUME Base, NEW w \in Workers, workers[w].pc # "idle"
    PROVE  /\ workers[w].queue \in Seq(Runs)
           /\ 1 \in DOMAIN workers[w].queue
           /\ workers[w].queue[1] = Job(w)
           /\ Job(w) \in Runs
           /\ ~ Unattended(Job(w))
<1>1. workers[w].queue \in Seq(Runs) /\ workers[w].queue # <<>> /\ Job(w) \in Runs
  BY JobType DEF Base, DialledStepHasAttempt
<1>2. 1 \in DOMAIN workers[w].queue
  BY <1>1, LenProperties, EmptySeq
<1> QED
  BY <1>1, <1>2 DEF Job, Unattended

\* Who dials is left alone by a step that does not touch its run.
LEMMA DialKept ==
    ASSUME Base, NEW v \in Workers, DialInv(v), workers'[v] = workers[v],
           NEW r \in Runs, Only(r), Dials(v) => Job(v) # r, CallsKept
    PROVE  DialInv(v)'
<1> SUFFICES ASSUME Dials(v)' PROVE DialInv(v)'
  BY DEF DialInv
<1>1. Dials(v) /\ Job(v)' = Job(v)
  BY DEF Dials, Job
<1>2. Job(v) \in Runs \ {r}
  BY <1>1, DiallerHolds DEF Dials
<1>3. run'[Job(v)] = run[Job(v)] /\ attempts'[Job(v)] = attempts[Job(v)]
  BY <1>2 DEF Only
<1>4. workers[v].pc = "bind" => calls'[workers[v].call] = calls[workers[v].call]
  BY DEF CallsKept, Base, DialledStepHasAttempt
<1> QED
  BY <1>1, <1>3, <1>4 DEF DialInv, LastAttempt

\* A step on the rows of one run keeps the invariant if it does so for that run
\* and for the service calls.
LEMMA OneRun ==
    ASSUME Base, DrivenInv, NEW r \in Runs, Only(r), RowsInv(r)', HandsInv', CallsKept,
           \A v \in Workers :
              DialInv(v)' \/ (workers'[v] = workers[v] /\ (Dials(v) => Job(v) # r))
    PROVE  DrivenInv'
<1>1. ASSUME NEW q \in Runs PROVE RowsInv(q)'
  BY OtherRows DEF DrivenInv
<1>2. ASSUME NEW v \in Workers PROVE DialInv(v)'
  BY DialKept DEF DrivenInv
<1> QED
  BY <1>1, <1>2 DEF DrivenInv

-----------------------------------------------------------------------------
(* Service calls and the runs they have in hand *)

\* What a service call has in hand when it is given runs to advance.
LEMMA AdvancingHolds ==
    /\ \A q : Advancing(q).queue = q /\ Advancing(q).pc \in {"idle", "advance"}
    /\ Idle.queue = <<>> /\ Idle.pc = "idle"
BY DEF Advancing, Idle

\* A service call that is done with its run leaves it unattended.
LEMMA Released ==
    ASSUME Base, HandsInv, NEW w \in Workers, workers[w].pc # "idle",
           workers' = Advanced(w) \/ workers' = Raised(w)
    PROVE  /\ Once'
           /\ \A r \in Runs : r = Job(w) \/ Unattended(r) => Unattended(r)'
           /\ \A v \in Workers \ {w} : workers'[v] = workers[v] /\ (Dials(v) => Job(v) # Job(w))
           /\ ~ Dials(w)'
<1> DEFINE old == workers[w].queue
           new == workers'[w].queue
<1>0. Once
  BY DEF HandsInv
<1>1. old \in Seq(Runs) /\ old # <<>> /\ 1 \in DOMAIN old /\ old[1] = Job(w) /\ Job(w) \in Runs
  BY DiallerHolds DEF Base, DialledStepHasAttempt
<1>2. /\ workers \in [Workers -> Worker]
      /\ \A v \in Workers \ {w} : workers'[v] = workers[v]
      /\ workers'[w] = Advancing(Tail(old)) \/ workers'[w] = Idle
  BY DEF Base, TypeOK, Advanced, Raised
<1>3. /\ new = Tail(old) \/ new = <<>>
      /\ ~ Dials(w)'
  BY <1>2, AdvancingHolds DEF Dials
<1>4. \A i \in DOMAIN new : i + 1 \in DOMAIN old /\ i + 1 # 1 /\ new[i] = old[i + 1]
  <2>1. CASE new = <<>>
    BY <2>1
  <2>2. CASE new = Tail(old)
    <3>1. /\ Tail(old) \in Seq(Runs) /\ Len(Tail(old)) = Len(old) - 1
          /\ \A i \in 1 .. Len(Tail(old)) : Tail(old)[i] = old[i + 1]
      BY <1>1, HeadTailProperties
    <3>2. Len(old) \in Nat /\ DOMAIN old = 1 .. Len(old) /\ DOMAIN new = 1 .. Len(new)
      BY <1>1, <2>2, <3>1, LenProperties
    <3> QED
      BY <2>2, <3>1, <3>2
  <2> QED
    BY <1>3, <2>1, <2>2
<1> HIDE DEF new
<1>5. \A v \in Workers : \A i \in DOMAIN workers'[v].queue :
         \E j \in DOMAIN workers[v].queue :
            /\ workers'[v].queue[i] = workers[v].queue[j]
            /\ j = IF v = w THEN i + 1 ELSE i
  BY <1>2, <1>4 DEF new
<1>6. Once'
  <2> SUFFICES ASSUME NEW v \in Workers, NEW u \in Workers,
                      NEW i \in DOMAIN workers'[v].queue, NEW j \in DOMAIN workers'[u].queue,
                      workers'[v].queue[i] = workers'[u].queue[j]
               PROVE  v = u /\ i = j
    BY DEF Once
  <2>1. PICK x \in DOMAIN workers[v].queue :
           workers'[v].queue[i] = workers[v].queue[x] /\ x = IF v = w THEN i + 1 ELSE i
    BY <1>5
  <2>2. PICK y \in DOMAIN workers[u].queue :
           workers'[u].queue[j] = workers[u].queue[y] /\ y = IF u = w THEN j + 1 ELSE j
    BY <1>5
  <2>5. workers[v].queue[x] = workers[u].queue[y]
    BY <2>1, <2>2
  <2>3. v = u /\ x = y
    BY <1>0, <2>5 DEF Once
  <2>4. CASE v = w
    <3>0. x = i + 1 /\ y = j + 1
      BY <2>1, <2>2, <2>3, <2>4
    <3>4. i \in DOMAIN workers'[w].queue
      BY <2>4
    <3>5. j \in DOMAIN workers'[w].queue
      BY <2>3, <2>4
    <3>6. i + 1 = j + 1
      BY <2>3, <3>0
    <3>1. i \in DOMAIN new /\ j \in DOMAIN new /\ i + 1 = j + 1
      BY <3>4, <3>5, <3>6, Zenon DEF new
    <3>7. Tail(old) \in Seq(Runs) /\ <<>> \in Seq(Runs)
      BY <1>1, HeadTailProperties
    <3>2. new \in Seq(Runs)
      BY <1>3, <3>7
    <3>3. i \in Nat /\ j \in Nat
      BY <3>1, <3>2, LenProperties
    <3> QED
      BY <2>3, <3>1, <3>3
  <2> QED
    BY <2>1, <2>2, <2>3, <2>4
<1>7. ASSUME NEW r \in Runs, r = Job(w) PROVE Unattended(r)'
  <2> SUFFICES ASSUME NEW v \in Workers, NEW i \in DOMAIN workers'[v].queue,
                      workers'[v].queue[i] = r
               PROVE  FALSE
    BY DEF Unattended
  <2>1. PICK j \in DOMAIN workers[v].queue :
           r = workers[v].queue[j] /\ j = IF v = w THEN i + 1 ELSE i
    BY <1>5
  <2>2. workers[v].queue[j] = workers[w].queue[1] /\ 1 \in DOMAIN workers[w].queue
    BY <2>1, <1>1, <1>7
  <2>3. v = w /\ j = 1
    BY <1>0, <2>2 DEF Once
  <2>4. i \in DOMAIN new
    BY <2>3 DEF new
  <2> QED
    BY <2>1, <2>3, <2>4, <1>4
<1>8. \A r \in Runs : Unattended(r) => Unattended(r)'
  BY <1>5 DEF Unattended
<1>9. ASSUME NEW v \in Workers \ {w}, Dials(v) PROVE Job(v) # Job(w)
  <2>1. 1 \in DOMAIN workers[v].queue /\ workers[v].queue[1] = Job(v)
    BY <1>9, DiallerHolds DEF Dials
  <2> QED
    BY <1>0, <1>1, <2>1 DEF Once
<1> QED
  BY <1>2, <1>3, <1>6, <1>7, <1>8, <1>9

\* A service call that is given runs nobody has in hand, each once.
LEMMA Taken ==
    ASSUME Base, HandsInv, NEW w \in Workers, IsIdle(w), NEW q \in Seq(Runs),
           workers' = [workers EXCEPT ![w] = Advancing(q)],
           \A i, j \in DOMAIN q : q[i] = q[j] => i = j,
           \A i \in DOMAIN q : Unattended(q[i])
    PROVE  /\ Once'
           /\ \A r \in Runs :
                 Unattended(r) /\ (\A i \in DOMAIN q : q[i] # r) => Unattended(r)'
           /\ \A v \in Workers \ {w} : workers'[v] = workers[v]
           /\ ~ Dials(w)'
<1>1. /\ workers'[w].queue = q /\ ~ Dials(w)'
      /\ \A v \in Workers \ {w} : workers'[v] = workers[v]
  BY AdvancingHolds DEF Base, TypeOK, Dials
<1>2. Once'
  <2> SUFFICES ASSUME NEW v \in Workers, NEW u \in Workers,
                      NEW i \in DOMAIN workers'[v].queue, NEW j \in DOMAIN workers'[u].queue,
                      workers'[v].queue[i] = workers'[u].queue[j]
               PROVE  v = u /\ i = j
    BY DEF Once
  <2>0. Once
    BY DEF HandsInv
  <2>1. CASE v = w /\ u = w
    <3>1. i \in DOMAIN q /\ j \in DOMAIN q /\ q[i] = q[j]
      BY <1>1, <2>1
    <3> QED
      BY <2>1, <3>1
  <2>2. CASE v = w /\ u # w
    <3>1. i \in DOMAIN q /\ j \in DOMAIN workers[u].queue /\ q[i] = workers[u].queue[j]
      BY <1>1, <2>2
    <3> QED
      BY <3>1 DEF Unattended
  <2>3. CASE v # w /\ u = w
    <3>1. j \in DOMAIN q /\ i \in DOMAIN workers[v].queue /\ q[j] = workers[v].queue[i]
      BY <1>1, <2>3
    <3> QED
      BY <3>1 DEF Unattended
  <2>4. CASE v # w /\ u # w
    <3>1. /\ i \in DOMAIN workers[v].queue /\ j \in DOMAIN workers[u].queue
          /\ workers[v].queue[i] = workers[u].queue[j]
      BY <1>1, <2>4
    <3> QED
      BY <2>0, <3>1 DEF Once
  <2> QED
    BY <2>1, <2>2, <2>3, <2>4
<1>3. ASSUME NEW r \in Runs, Unattended(r), \A i \in DOMAIN q : q[i] # r
      PROVE  Unattended(r)'
  BY <1>1, <1>3 DEF Unattended
<1> QED
  BY <1>1, <1>2, <1>3

\* The run a service call works on is live.
LEMMA JobLive ==
    ASSUME Base, HandsInv, NEW w \in Workers, workers[w].pc # "idle"
    PROVE  Live(Job(w)) /\ Job(w) \in Runs
BY DiallerHolds DEF HandsInv

\* Rows that stay as they are keep the invariant.
LEMMA SameRows ==
    ASSUME NEW r \in Runs, RowsInv(r), UNCHANGED <<run, attempts, timers, subs>>
    PROVE  RowsInv(r)'
BY DEF RowsInv, WaitsAt, WakeStep, CallbackStep

\* A step that ends or suspends the work of a service call on its run.
LEMMA ReleasedStep ==
    ASSUME Base, DrivenInv, NEW w \in Workers, workers[w].pc # "idle",
           workers' = Advanced(w) \/ workers' = Raised(w),
           NEW r \in Runs, r = Job(w), Only(r), RowsInv(r)', CallsKept
    PROVE  DrivenInv'
<1>1. /\ Once' /\ ~ Dials(w)'
      /\ \A q \in Runs : q = Job(w) \/ Unattended(q) => Unattended(q)'
      /\ \A v \in Workers \ {w} : workers'[v] = workers[v] /\ (Dials(v) => Job(v) # r)
  BY Released DEF DrivenInv
<1>2. ASSUME NEW q \in Runs, ~ Unattended(q)' PROVE Live(q)'
  <2>1. q # r /\ ~ Unattended(q)
    BY <1>1, <1>2
  <2>2. Live(q) /\ run'[q] = run[q]
    BY <2>1 DEF DrivenInv, HandsInv, Only
  <2> QED
    BY <2>2 DEF Live
<1>3. HandsInv'
  BY <1>1, <1>2 DEF HandsInv
<1>4. DialInv(w)'
  BY <1>1 DEF DialInv
<1> QED
  BY <1>1, <1>3, <1>4, OneRun

\* A step within advance_run, whose run stays in hand.
LEMMA HeldStep ==
    ASSUME Base, DrivenInv, NEW w \in Workers, workers[w].pc # "idle",
           workers'[w].queue = workers[w].queue,
           \A v \in Workers \ {w} : workers'[v] = workers[v],
           NEW r \in Runs, r = Job(w), Only(r), RowsInv(r)', Live(r)', DialInv(w)', CallsKept
    PROVE  DrivenInv'
<1>1. \A v \in Workers : workers'[v].queue = workers[v].queue
  OBVIOUS
<1>2. Once'
  BY <1>1 DEF DrivenInv, HandsInv, Once
<1>3. ASSUME NEW q \in Runs, ~ Unattended(q)' PROVE Live(q)'
  <2>1. ~ Unattended(q)
    BY <1>1, <1>3 DEF Unattended
  <2>2. q # r => Live(q) /\ run'[q] = run[q]
    BY <2>1 DEF DrivenInv, HandsInv, Only
  <2> QED
    BY <2>2 DEF Live
<1>4. HandsInv'
  BY <1>2, <1>3 DEF HandsInv
<1>5. ASSUME NEW v \in Workers \ {w}, Dials(v) PROVE Job(v) # r
  <2>1. /\ 1 \in DOMAIN workers[v].queue /\ workers[v].queue[1] = Job(v)
        /\ 1 \in DOMAIN workers[w].queue /\ workers[w].queue[1] = r
    BY <1>5, DiallerHolds DEF Dials
  <2> QED
    BY <2>1 DEF DrivenInv, HandsInv, Once
<1> QED
  BY <1>4, <1>5, OneRun

\* A step on a run that nobody has in hand.
LEMMA UnattendedStep ==
    ASSUME Base, DrivenInv, workers' = workers,
           NEW r \in Runs, ~ Live(r), Only(r), RowsInv(r)', CallsKept
    PROVE  DrivenInv'
<1>1. Once'
  BY DEF DrivenInv, HandsInv, Once
<1>2. ASSUME NEW q \in Runs, ~ Unattended(q)' PROVE Live(q)'
  <2>1. ~ Unattended(q)
    BY <1>2 DEF Unattended
  <2>2. Live(q) /\ q # r
    BY <2>1 DEF DrivenInv, HandsInv
  <2>3. run'[q] = run[q]
    BY <2>2 DEF Only
  <2> QED
    BY <2>2, <2>3 DEF Live
<1>3. HandsInv'
  BY <1>1, <1>2 DEF HandsInv
<1>4. ASSUME NEW v \in Workers, Dials(v) PROVE Job(v) # r
  BY <1>4, JobLive DEF Dials, DrivenInv
<1> QED
  BY <1>3, <1>4, OneRun

\* An idle service call takes a run that nobody has in hand.
LEMMA TakenStep ==
    ASSUME Base, DrivenInv, NEW w \in Workers, IsIdle(w), NEW r \in Runs,
           workers' = [workers EXCEPT ![w] = Advancing(<<r>>)],
           Unattended(r), Only(r), RowsInv(r)', Live(r)', CallsKept
    PROVE  DrivenInv'
<1> DEFINE q == <<r>>
<1>1. q \in Seq(Runs) /\ DOMAIN q = {1} /\ q[1] = r
  OBVIOUS
<1> HIDE DEF q
<1>2. workers' = [workers EXCEPT ![w] = Advancing(q)]
  BY DEF q
<1>3. /\ Once' /\ ~ Dials(w)'
      /\ \A x \in Runs : Unattended(x) /\ (\A i \in DOMAIN q : q[i] # x) => Unattended(x)'
      /\ \A v \in Workers \ {w} : workers'[v] = workers[v]
  <2>1. /\ \A i, j \in DOMAIN q : q[i] = q[j] => i = j
        /\ \A i \in DOMAIN q : Unattended(q[i])
    BY <1>1
  <2> QED
    BY <1>1, <1>2, <2>1, Taken DEF DrivenInv
<1>4. ASSUME NEW x \in Runs \ {r}, ~ Unattended(x)' PROVE Live(x)'
  <2>1. ~ Unattended(x)
    BY <1>1, <1>3, <1>4
  <2>2. Live(x) /\ run'[x] = run[x]
    BY <2>1 DEF DrivenInv, HandsInv, Only
  <2> QED
    BY <2>2 DEF Live
<1>5. HandsInv'
  BY <1>3, <1>4 DEF HandsInv
<1>6. ASSUME NEW v \in Workers \ {w}, Dials(v) PROVE Job(v) # r
  <2>1. ~ Unattended(Job(v))
    BY <1>6, DiallerHolds DEF Dials
  <2> QED
    BY <2>1
<1>7. DialInv(w)'
  BY <1>3 DEF DialInv
<1> QED
  BY <1>3, <1>5, <1>6, <1>7, OneRun

-----------------------------------------------------------------------------
(* The steps of advance_run *)

\* A run that is live is quiet, and stays so if its rows stay.
LEMMA LiveIsQuiet ==
    ASSUME DrivenInv, NEW r \in Runs, Live(r)
    PROVE  Quiet(r)
BY QuietUnlessWaiting DEF DrivenInv, Live

\* Arming a timer of a run that has none pending leaves that one only.
LEMMA ArmedAlone ==
    ASSUME Base, NEW r \in Runs, NEW k \in TimerKeys, k.run = r, timers' = Armed(k),
           \A l \in TimerKeys : l.run = r => timers[l] # "pending"
    PROVE  /\ \A l \in TimerKeys : l.run = r /\ timers'[l] = "pending" => l = k
           /\ \A l \in TimerKeys : l.run # r => timers'[l] = timers[l]
BY ArmedFrame

\* The preparation ends in this transaction, or it is refused.
LEMMA PrepareEnds ==
    ASSUME Base, DrivenInv, NEW w \in Workers,
           \/ PrepareRejected(w)
           \/ PrepareComplete(w)
           \/ PrepareScheduledCall(w)
    PROVE  DrivenInv'
<1>1. workers[w].pc # "idle"
  BY DEF PrepareRejected, PrepareComplete, PrepareScheduledCall, Preparing
<1>2. PICK r \in Runs : r = Job(w) /\ Quiet(r)
  BY <1>1, JobLive, LiveIsQuiet DEF DrivenInv
<1>3. /\ UNCHANGED <<attempts, timers, subs, calls>>
      /\ workers' = Advanced(w) \/ workers' = Raised(w)
      /\ \A q \in Runs \ {r} : run'[q] = run[q]
  BY <1>2 DEF Base, TypeOK, PrepareRejected, PrepareComplete, PrepareScheduledCall, store
<1>4. Quiet(r)'
  BY <1>2, <1>3 DEF Quiet
<1>5. Only(r) /\ RowsInv(r)' /\ CallsKept
  BY <1>2, <1>3, <1>4, QuietRows DEF Only, CallsKept, RowsInv, Quiet
<1> QED
  BY <1>1, <1>2, <1>3, <1>5, ReleasedStep

\* A run that begins to wait has armed what will wake it, and nothing else.
LEMMA PrepareWaits ==
    ASSUME Base, DrivenInv, NEW w \in Workers, PrepareWait(w) \/ PrepareEventWait(w)
    PROVE  DrivenInv'
<1>1. workers[w].pc # "idle"
  BY DEF PrepareWait, PrepareEventWait, Preparing
<1>2. PICK r \in Runs, s \in Steps : r = Job(w) /\ s = run[r].step /\ Quiet(r)
  BY <1>1, JobLive, JobType, LiveIsQuiet DEF DrivenInv
<1>3. /\ UNCHANGED <<attempts, calls>>
      /\ workers' = Advanced(w)
      /\ \A q \in Runs \ {r} : run'[q] = run[q]
      /\ WaitsAt(r, s)'
  <2>1. /\ UNCHANGED <<attempts, calls>>
        /\ workers' = Advanced(w)
        /\ run' = [run EXCEPT ![r].status = "waiting"]
    BY <1>2 DEF PrepareWait, PrepareEventWait
  <2>2. run \in [Runs -> RunRow]
    BY DEF Base, TypeOK
  <2>3. run'[r].status = "waiting" /\ run'[r].step = s
    BY <1>2, <2>1, <2>2 DEF RunRow
  <2> QED
    BY <1>2, <2>1, <2>2, <2>3 DEF WaitsAt
<1>4. /\ \A q \in Runs \ {r} : subs'[q] = subs[q]
      /\ \A x \in EventSteps : subs'[r][x].status = "pending" => x = s
      /\ \A k \in TimerKeys : k.run # r => timers'[k] = timers[k]
      /\ \A k \in TimerKeys : k.run = r /\ timers'[k] = "pending" =>
            k.step = s /\ WakeStep(k) # NoStep
      /\ \A k, l \in TimerKeys :
            k.run = r /\ l.run = r /\ timers'[k] = "pending" /\ timers'[l] = "pending" => k = l
  <2>1. CASE PrepareWait(w)
    <3> DEFINE k == WaitKey(r, s)
    <3>1. s \in WaitSteps /\ timers' = Armed(k) /\ subs' = subs
      BY <2>1, <1>2 DEF PrepareWait, Step, WaitSteps
    <3>2. k \in TimerKeys /\ k.run = r /\ k.step = s /\ WakeStep(k) # NoStep
      BY <1>2, <3>1, KeyType, DefinitionAssumption DEF WaitKey, WakeStep
    <3> HIDE DEF k
    <3>3. /\ \A l \in TimerKeys : l.run = r /\ timers'[l] = "pending" => l = k
          /\ \A l \in TimerKeys : l.run # r => timers'[l] = timers[l]
      BY <1>2, <3>1, <3>2, ArmedAlone DEF Quiet
    <3> QED
      BY <1>2, <3>1, <3>2, <3>3 DEF Quiet
  <2>2. CASE PrepareEventWait(w)
    <3> DEFINE k == TimeoutKey(r, s)
    <3>1. /\ s \in EventSteps /\ subs' = Subscribed(r, s)
          /\ timers' = IF Definition[s].onTimeout = NoStep THEN timers ELSE Armed(k)
      BY <2>2, <1>2 DEF PrepareEventWait, Step, EventSteps
    <3>2. /\ k \in TimerKeys /\ k.run = r /\ k.step = s
          /\ WakeStep(k) = Definition[s].onTimeout
      BY <1>2, <3>1, KeyType DEF TimeoutKey, WakeStep
    <3>3. subs \in [Runs -> [EventSteps -> SubRow]]
      BY DEF Base, TypeOK
    <3> HIDE DEF k
    <3>4. /\ \A q \in Runs \ {r} : subs'[q] = subs[q]
          /\ \A x \in EventSteps : subs'[r][x].status = "pending" => x = s
      BY <1>2, <3>1, <3>3 DEF Subscribed, Quiet
    <3>5. CASE Definition[s].onTimeout = NoStep
      BY <1>2, <3>1, <3>4, <3>5 DEF Quiet
    <3>6. CASE Definition[s].onTimeout # NoStep
      <4>1. /\ \A l \in TimerKeys : l.run = r /\ timers'[l] = "pending" => l = k
            /\ \A l \in TimerKeys : l.run # r => timers'[l] = timers[l]
        BY <1>2, <3>1, <3>2, <3>6, ArmedAlone DEF Quiet
      <4> QED
        BY <3>2, <3>4, <3>6, <4>1
    <3> QED
      BY <3>5, <3>6
  <2> QED
    BY <2>1, <2>2
<1>5. RowsInv(r)'
  BY <1>2, <1>3, <1>4 DEF RowsInv, Quiet, WaitsAt, WakeStep, CallbackStep
<1>6. Only(r) /\ CallsKept
  BY <1>3, <1>4 DEF Only, CallsKept
<1> QED
  BY <1>1, <1>2, <1>3, <1>5, <1>6, ReleasedStep

\* Row n of a step was rewritten; the other rows are left alone.
Rewritten(r, s, n, row) ==
    /\ \A q \in Runs \ {r} : attempts'[q] = attempts[q]
    /\ \A x \in CallSteps \ {s} : attempts'[r][x] = attempts[r][x]
    /\ DOMAIN attempts'[r][s] = DOMAIN attempts[r][s]
    /\ Len(attempts'[r][s]) = Len(attempts[r][s])
    /\ \A m \in DOMAIN attempts[r][s] :
          attempts'[r][s][m] = IF m = n THEN row ELSE attempts[r][s][m]

\* An assignment to one row does that.
LEMMA RowRewritten ==
    ASSUME Base, NEW r \in Runs, NEW s \in CallSteps, NEW n \in DOMAIN attempts[r][s],
           NEW row \in AttemptRow, attempts' = [attempts EXCEPT ![r][s][n] = row]
    PROVE  Rewritten(r, s, n, row)
<1> DEFINE old == attempts[r][s]
           new == [old EXCEPT ![n] = row]
<1>1. /\ old \in Seq(AttemptRow) /\ DOMAIN old = 1 .. Len(old) /\ Len(old) \in Nat
      /\ attempts \in [Runs -> [CallSteps -> Seq(AttemptRow)]]
  BY BaseParts, RowNumbers DEF StoreOK
<1>2. attempts' = [attempts EXCEPT ![r][s] = new]
  OBVIOUS
<1>3. /\ DOMAIN new = DOMAIN old /\ new[n] = row
      /\ \A m \in DOMAIN old \ {n} : new[m] = old[m]
  BY <1>1
<1>4. new = [m \in 1 .. Len(old) |-> new[m]]
  BY <1>1
<1> DEFINE S == {new[m] : m \in 1 .. Len(old)}
<1> HIDE DEF new
<1>8. new \in [1 .. Len(old) -> S]
  BY <1>4
<1> HIDE DEF S
<1>5. Len(new) = Len(old)
  <2>1. new \in Seq(S)
    BY <1>1, <1>8, SeqDef
  <2>2. Len(new) \in Nat /\ DOMAIN new = 1 .. Len(new)
    BY <2>1, LenProperties
  <2> QED
    BY <1>1, <1>3, <2>2
<1>6. attempts'[r][s] = new
  BY <1>1, <1>2
<1>7. /\ \A q \in Runs \ {r} : attempts'[q] = attempts[q]
      /\ \A x \in CallSteps \ {s} : attempts'[r][x] = attempts[r][x]
  BY <1>1, <1>2
<1> QED
  BY <1>3, <1>5, <1>6, <1>7 DEF Rewritten

\* A new attempt is the last row of its step and leaves the others alone.
LEMMA RowAdded ==
    ASSUME Base, NEW r \in Runs, NEW s \in CallSteps,
           attempts' = [attempts EXCEPT ![r][s] = Append(@, NewAttempt)]
    PROVE  /\ \A q \in Runs \ {r} : attempts'[q] = attempts[q]
           /\ \A x \in CallSteps \ {s} : attempts'[r][x] = attempts[r][x]
           /\ Len(attempts'[r][s]) = Len(attempts[r][s]) + 1
           /\ LastAttempt(r, s)' = NewAttempt
           /\ \A n \in DOMAIN attempts'[r][s] :
                 \/ n \in DOMAIN attempts[r][s] /\ attempts'[r][s][n] = attempts[r][s][n]
                 \/ n = Len(attempts[r][s]) + 1 /\ attempts'[r][s][n] = NewAttempt
           /\ \A n \in DOMAIN attempts[r][s] :
                 n \in DOMAIN attempts'[r][s] /\ attempts'[r][s][n] = attempts[r][s][n]
<1> DEFINE old == attempts[r][s]
           new == Append(old, NewAttempt)
<1>1. /\ old \in Seq(AttemptRow) /\ DOMAIN old = 1 .. Len(old) /\ Len(old) \in Nat
      /\ attempts \in [Runs -> [CallSteps -> Seq(AttemptRow)]]
      /\ NewAttempt \in AttemptRow
  BY BaseParts, RowNumbers DEF StoreOK, NewAttempt, AttemptRow
<1>2. /\ new \in Seq(AttemptRow) /\ Len(new) = Len(old) + 1
      /\ \A i \in 1 .. Len(old) : new[i] = old[i]
      /\ new[Len(old) + 1] = NewAttempt
      /\ DOMAIN new = 1 .. Len(old) + 1
  BY <1>1, AppendProperties, LenProperties
<1>3. attempts' = [attempts EXCEPT ![r][s] = new]
  OBVIOUS
<1> HIDE DEF new
<1>4. /\ attempts'[r][s] = new
      /\ \A q \in Runs \ {r} : attempts'[q] = attempts[q]
      /\ \A x \in CallSteps \ {s} : attempts'[r][x] = attempts[r][x]
  BY <1>1, <1>3
<1> QED
  BY <1>1, <1>2, <1>4 DEF LastAttempt

\* Closing the only scheduled attempt of a run leaves it without one.
LEMMA LastScheduledClosed ==
    ASSUME NEW r \in Runs, NEW s \in CallSteps, NEW n \in DOMAIN attempts[r][s],
           NEW row, row.status # "scheduled", Rewritten(r, s, n, row),
           \A x \in CallSteps : \A m \in DOMAIN attempts[r][x] :
              attempts[r][x][m].status = "scheduled" => x = s /\ m = n
    PROVE  /\ \A q \in Runs \ {r} : attempts'[q] = attempts[q]
           /\ \A x \in CallSteps : \A m \in DOMAIN attempts'[r][x] :
                 attempts'[r][x][m].status # "scheduled"
<1>1. ASSUME NEW x \in CallSteps, NEW m \in DOMAIN attempts'[r][x]
      PROVE  attempts'[r][x][m].status # "scheduled"
  <2>1. CASE x = s /\ m = n
    BY <2>1 DEF Rewritten
  <2>2. CASE x # s \/ m # n
    <3>1. m \in DOMAIN attempts[r][x] /\ attempts'[r][x][m] = attempts[r][x][m]
      BY <2>2 DEF Rewritten
    <3> QED
      BY <2>2, <3>1
  <2> QED
    BY <2>1, <2>2
<1> QED
  BY <1>1 DEF Rewritten

\* The preparation of a call: a new attempt, for which the service call dials.
LEMMA PrepareDials ==
    ASSUME Base, DrivenInv, NEW w \in Workers, PrepareAttempt(w)
    PROVE  DrivenInv'
<1>1. workers[w].pc # "idle"
  BY DEF PrepareAttempt, Preparing
<1>2. PICK r \in Runs, s \in CallSteps :
         r = Job(w) /\ s = run[r].step /\ Quiet(r) /\ Live(r)
  BY <1>1, JobLive, JobType, LiveIsQuiet DEF DrivenInv, PrepareAttempt, Step, CallSteps
<1>3. /\ attempts' = [attempts EXCEPT ![r][s] = Append(@, NewAttempt)]
      /\ run' = [run EXCEPT ![r].status = "running"]
      /\ workers' = [workers EXCEPT ![w].pc = "dial", ![w].step = s]
      /\ UNCHANGED <<timers, subs, calls>>
  BY <1>2 DEF PrepareAttempt, AttemptCreated, Begun, Live
<1>4. /\ run'[r].status = "running" /\ run'[r].step = s
      /\ \A q \in Runs \ {r} : run'[q] = run[q]
  BY <1>2, <1>3 DEF Base, TypeOK, RunRow
<1>5. /\ workers'[w].queue = workers[w].queue
      /\ workers'[w].pc = "dial" /\ workers'[w].step = s
      /\ \A v \in Workers \ {w} : workers'[v] = workers[v]
  BY <1>3 DEF Base, TypeOK, Worker
<1>6. Quiet(r)' /\ Only(r) /\ LastAttempt(r, s)' = NewAttempt
  <2>1. /\ \A q \in Runs \ {r} : attempts'[q] = attempts[q]
        /\ \A x \in CallSteps \ {s} : attempts'[r][x] = attempts[r][x]
        /\ LastAttempt(r, s)' = NewAttempt
        /\ \A n \in DOMAIN attempts'[r][s] :
              \/ n \in DOMAIN attempts[r][s] /\ attempts'[r][s][n] = attempts[r][s][n]
              \/ n = Len(attempts[r][s]) + 1 /\ attempts'[r][s][n] = NewAttempt
    BY <1>3, RowAdded, ZenonT(60)
  <2>2. Only(r)
    BY <1>3, <1>4, <2>1 DEF Only
  <2>3. NewAttempt.status # "scheduled"
    BY DEF NewAttempt
  <2>4. ASSUME NEW x \in CallSteps, NEW n \in DOMAIN attempts'[r][x]
        PROVE  attempts'[r][x][n].status # "scheduled"
    <3>1. CASE x = s
      BY <1>2, <2>1, <2>3, <3>1 DEF Quiet
    <3>2. CASE x # s
      BY <1>2, <2>1, <3>2 DEF Quiet
    <3> QED
      BY <3>1, <3>2
  <2> QED
    BY <1>2, <1>3, <2>1, <2>2, <2>4 DEF Quiet
<1>7. DialInv(w)'
  BY <1>2, <1>4, <1>5, <1>6 DEF DialInv, Job
<1>8. RowsInv(r)' /\ Live(r)' /\ CallsKept
  BY <1>3, <1>4, <1>6 DEF RowsInv, Quiet, Live, CallsKept
<1> QED
  BY <1>1, <1>2, <1>5, <1>6, <1>7, <1>8, HeldStep

\* The provider takes the call of the step that was prepared, after those it has.
LEMMA CallAdded ==
    ASSUME Base, NEW w \in Workers, workers[w].pc = "dial", Placed(w)
    PROVE  /\ CallsKept
           /\ DOMAIN calls' = DOMAIN calls \cup {Len(calls) + 1}
           /\ calls'[Len(calls) + 1] = [run |-> Job(w), step |-> workers[w].step]
<1> DEFINE call == [run |-> Job(w), step |-> workers[w].step]
<1>1. calls \in Seq([run : Runs, step : CallSteps]) /\ call \in [run : Runs, step : CallSteps]
  BY JobType DEF Base, TypeOK, DialledStepHasAttempt
<1>2. calls' = Append(calls, call)
  BY DEF Placed
<1> HIDE DEF call
<1>3. /\ \A i \in 1 .. Len(calls) : calls'[i] = calls[i]
      /\ calls'[Len(calls) + 1] = call
      /\ DOMAIN calls = 1 .. Len(calls) /\ DOMAIN calls' = 1 .. Len(calls) + 1
      /\ Len(calls) \in Nat
  BY <1>1, <1>2, AppendProperties, LenProperties
<1>4. DOMAIN calls' = DOMAIN calls \cup {Len(calls) + 1}
  BY <1>3
<1> QED
  BY <1>3, <1>4 DEF CallsKept, call

\* The telephony request, whether the provider takes the call or not.
LEMMA DialSteps ==
    ASSUME Base, DrivenInv, NEW w \in Workers, Dial(w) \/ DialFails(w)
    PROVE  DrivenInv'
<1>1. workers[w].pc = "dial"
  BY DEF Dial, DialFails
<1>2. PICK r \in Runs : r = Job(w) /\ Live(r)
  BY <1>1, JobLive DEF DrivenInv
<1>3. /\ UNCHANGED <<run, attempts, timers, subs>>
      /\ \A v \in Workers \ {w} : workers'[v] = workers[v]
      /\ workers'[w].queue = workers[w].queue
      /\ workers'[w].step = workers[w].step
  BY DEF Dial, DialFails, store, Base, TypeOK, Worker
<1>4. CallsKept /\ (workers'[w].pc = "bind" =>
         calls'[workers'[w].call] = [run |-> r, step |-> workers[w].step])
  <2>1. CASE Dial(w)
    <3>1. workers'[w].call = Len(calls) + 1 /\ Placed(w)
      BY <2>1 DEF Dial, Base, TypeOK, Worker
    <3> QED
      BY <1>1, <1>2, <3>1, CallAdded
  <2>2. CASE DialFails(w)
    <3>1. workers'[w].pc = "unwind"
      BY <2>2 DEF DialFails, Base, TypeOK, Worker
    <3>2. CASE calls' = calls
      BY <3>1, <3>2 DEF CallsKept
    <3>3. CASE Placed(w)
      BY <1>1, <3>1, <3>3, CallAdded
    <3> QED
      BY <2>2, <3>2, <3>3 DEF DialFails
  <2> QED
    BY <2>1, <2>2
<1>5. DialInv(w)'
  <2>1. Job(w)' = r
    BY <1>2, <1>3 DEF Job
  <2>2. Dials(w) /\ DialInv(w)
    BY <1>1 DEF Dials, DrivenInv
  <2> QED
    BY <1>2, <1>3, <1>4, <2>1, <2>2 DEF DialInv, LastAttempt
<1>6. Only(r) /\ Live(r)' /\ RowsInv(r)'
  BY <1>2, <1>3, SameRows DEF Only, Live, DrivenInv
<1> QED
  BY <1>1, <1>2, <1>3, <1>4, <1>5, <1>6, HeldStep

\* The call is recorded with the last attempt, which had none.
LEMMA BindStep ==
    ASSUME Base, DrivenInv, NEW w \in Workers, Bind(w)
    PROVE  DrivenInv'
<1>1. workers[w].pc = "bind" /\ Dials(w)
  BY DEF Bind, Dials
<1>2. PICK r \in Runs, s \in CallSteps :
         r = Job(w) /\ s = workers[w].step /\ run[r].step = s /\ Quiet(r)
  BY <1>1, JobLive, LiveIsQuiet DEF DrivenInv, DialInv, Base, DialledStepHasAttempt
<1> DEFINE n == Len(attempts[r][s])
           row == [status |-> "scheduled", call |-> workers[w].call]
<1>3. n \in DOMAIN attempts[r][s] /\ row \in AttemptRow
  <2>1. n \in DOMAIN attempts[r][s]
    <3>1. /\ attempts[r][s] \in Seq(AttemptRow)
          /\ DOMAIN attempts[r][s] = 1 .. Len(attempts[r][s])
      BY BaseParts, RowNumbers
    <3>2. attempts[r][s] # <<>>
      BY <1>1, <1>2 DEF Dials, Base, DialledStepHasAttempt
    <3> QED
      BY <3>1, <3>2, LastIsRow
  <2>2. row \in AttemptRow
    BY DEF AttemptRow, Base, TypeOK, Worker
  <2> QED
    BY <2>1, <2>2
<1>4. /\ attempts' = [attempts EXCEPT ![r][s][n] = row]
      /\ run' = [run EXCEPT ![r].status = "waiting", ![r].lastCall = workers[w].call]
      /\ workers' = Advanced(w)
      /\ UNCHANGED <<timers, subs, calls>>
  BY <1>2 DEF Bind, AttemptBound
<1> HIDE DEF n, row
<1>5. /\ WaitsAt(r, s)'
      /\ \A q \in Runs \ {r} : run'[q] = run[q]
  BY <1>2, <1>4 DEF WaitsAt, Base, TypeOK, RunRow
<1>9. Rewritten(r, s, n, row)
  BY <1>3, <1>4, RowRewritten
<1>6. Only(r) /\ CallsKept
  BY <1>4, <1>5, <1>9 DEF Rewritten, Only, CallsKept
<1>7. /\ \A x \in CallSteps \ {s} : attempts'[r][x] = attempts[r][x]
  BY <1>9 DEF Rewritten
<1>8. RowsInv(r)'
  BY <1>2, <1>4, <1>5, <1>7 DEF RowsInv, Quiet
<1> QED
  BY <1>1, <1>2, <1>4, <1>6, <1>8, ReleasedStep

\* A failed dial ends the run; its attempt is marked.
LEMMA UnwindStep ==
    ASSUME Base, DrivenInv, NEW w \in Workers, Unwind(w)
    PROVE  DrivenInv'
<1>1. workers[w].pc = "unwind" /\ Dials(w)
  BY DEF Unwind, Dials
<1>2. PICK r \in Runs, s \in CallSteps :
         r = Job(w) /\ s = workers[w].step /\ Quiet(r)
  BY <1>1, JobLive, LiveIsQuiet DEF DrivenInv, DialInv, Base, DialledStepHasAttempt
<1> DEFINE n == Len(attempts[r][s])
           row == [attempts[r][s][n] EXCEPT !.status = "failed"]
<1>3. n \in DOMAIN attempts[r][s] /\ attempts[r][s][n] \in AttemptRow
  BY <1>1, <1>2, LastIsRow, LenProperties, ElementOfSeq DEF Base, TypeOK, DialledStepHasAttempt
<1>4. /\ attempts' = [attempts EXCEPT ![r][s][n] = row] \/ attempts' = attempts
      /\ run' = [run EXCEPT ![r].status = "failed"] \/ run' = run
      /\ workers' = Raised(w)
      /\ UNCHANGED <<timers, subs, calls>>
  BY <1>2 DEF Unwind
<1>5. row.status = "failed" /\ row \in AttemptRow
  BY <1>3 DEF AttemptRow
<1> HIDE DEF n, row
<1>6. \A q \in Runs \ {r} : run'[q] = run[q]
  BY <1>4 DEF Base, TypeOK
<1>7. /\ \A q \in Runs \ {r} : attempts'[q] = attempts[q]
      /\ \A x \in CallSteps : \A m \in DOMAIN attempts'[r][x] :
            attempts'[r][x][m].status # "scheduled"
  <2>1. CASE attempts' = attempts
    BY <1>2, <2>1 DEF Quiet
  <2>2. CASE attempts' = [attempts EXCEPT ![r][s][n] = row]
    <3>1. Rewritten(r, s, n, row)
      BY <1>3, <1>5, <2>2, RowRewritten
    <3> QED
      BY <1>2, <1>3, <1>5, <3>1, LastScheduledClosed DEF Quiet
  <2> QED
    BY <1>4, <2>1, <2>2
<1>8. Only(r) /\ CallsKept /\ RowsInv(r)'
  BY <1>2, <1>4, <1>6, <1>7 DEF Only, CallsKept, RowsInv, Quiet
<1> QED
  BY <1>1, <1>2, <1>4, <1>8, ReleasedStep

\* A service call that dies, or cannot record its call, changes no row.
LEMMA DropStep ==
    ASSUME Base, DrivenInv, NEW w \in Workers, BindRejected(w) \/ Crash(w)
    PROVE  DrivenInv'
<1>1. workers[w].pc # "idle" /\ workers' = Raised(w) /\ UNCHANGED store
  BY DEF BindRejected, Crash, IsIdle
<1>2. PICK r \in Runs : r = Job(w)
  BY <1>1, JobLive DEF DrivenInv
<1>3. Only(r) /\ CallsKept /\ RowsInv(r)'
  BY <1>1, SameRows DEF store, Only, CallsKept, DrivenInv
<1> QED
  BY <1>1, <1>2, <1>3, ReleasedStep

-----------------------------------------------------------------------------
(* The steps of the application and of the provider *)

\* A step that touches nothing the invariant speaks of.
LEMMA UntouchedStep ==
    ASSUME DrivenInv, UNCHANGED <<run, attempts, timers, subs, calls, workers>>
    PROVE  DrivenInv'
<1>1. \A r \in Runs : RowsInv(r)'
  BY SameRows DEF DrivenInv
<1>2. HandsInv'
  BY DEF DrivenInv, HandsInv, Once, Unattended, Live
<1>3. \A w \in Workers : DialInv(w)'
  BY DEF DrivenInv, DialInv, Dials, Job, LastAttempt
<1> QED
  BY <1>1, <1>2, <1>3 DEF DrivenInv

\* A run is started.
LEMMA BeginStep ==
    ASSUME Base, DrivenInv, NEW r \in Runs, StartRun(r)
    PROVE  DrivenInv'
<1>1. run[r].status = "absent" /\ ~ Live(r) /\ Quiet(r)
  BY QuietUnlessWaiting DEF StartRun, Started, Live, DrivenInv
<1>2. /\ \A q \in Runs \ {r} : run'[q] = run[q]
      /\ UNCHANGED <<attempts, timers, subs, calls, workers>>
  BY DEF StartRun, Base, TypeOK
<1>3. Only(r) /\ CallsKept /\ Quiet(r)'
  BY <1>1, <1>2 DEF Only, CallsKept, Quiet
<1>4. RowsInv(r)'
  BY <1>3 DEF RowsInv, Quiet
<1> QED
  BY <1>1, <1>2, <1>3, <1>4, UnattendedStep

\* The application advances a run nobody has in hand.
LEMMA DriveStep ==
    ASSUME Base, DrivenInv, NEW w \in Workers, NEW r \in Runs, DriveRun(w, r)
    PROVE  DrivenInv'
<1>1. /\ Live(r) /\ Unattended(r) /\ IsIdle(w) /\ UNCHANGED store
      /\ workers' = [workers EXCEPT ![w] = Advancing(<<r>>)]
  BY DEF DriveRun, RequestAdvance, Live
<1>2. Only(r) /\ CallsKept /\ RowsInv(r)' /\ Live(r)'
  BY <1>1, SameRows DEF store, Only, CallsKept, DrivenInv, Live
<1> QED
  BY <1>1, <1>2, TakenStep

\* The report of a call finds its run waiting for it, and leaves at most one
\* timer to wake it.
LEMMA ReportStep ==
    ASSUME Base, ScheduledAttemptIsLast, DrivenInv, NEW r \in Runs, CompleteCallActivity(r)
    PROVE  DrivenInv'
<1>1. PICK c \in DOMAIN calls, n \in 1 .. MaxAttemptRows, report \in Reports :
         /\ Completing(r, c, n)
         /\ \/ CompleteCallback(r, c, n, report)
            \/ CompleteRetry(r, c, n, report)
            \/ CompleteFailed(r, c, n, report)
            \/ CompleteMoved(r, c, n, report)
  BY DEF CompleteCallActivity
<1>2. PICK s \in CallSteps : s = run[r].step
  <2>1. run[r].step \in Steps
    BY DEF Base, TypeOK, RunRow
  <2> QED
    BY <1>1, <2>1 DEF Completing, Step, CallSteps
<1>3. n \in DOMAIN attempts[r][s] /\ attempts[r][s][n].status = "scheduled"
  BY <1>1, <1>2 DEF Completing, IsScheduledAttempt
<1>4. /\ WaitsAt(r, s)
      /\ \A k \in TimerKeys : k.run = r => timers[k] # "pending"
  BY <1>3 DEF DrivenInv, RowsInv
<1>5. \A x \in EventSteps : subs[r][x].status # "pending"
  BY <1>2, <1>4 DEF DrivenInv, RowsInv, WaitsAt, EventSteps, CallSteps
<1>6. \A x \in CallSteps : \A m \in DOMAIN attempts[r][x] :
         attempts[r][x][m].status = "scheduled" => x = s /\ m = n
  <2>1. ASSUME NEW x \in CallSteps, NEW m \in DOMAIN attempts[r][x],
               attempts[r][x][m].status = "scheduled"
        PROVE  x = s /\ m = n
    <3>1. x = s
      BY <1>4, <2>1 DEF DrivenInv, RowsInv, WaitsAt
    <3>2. m = Len(attempts[r][s]) /\ n = Len(attempts[r][s])
      BY <1>3, <2>1, <3>1 DEF ScheduledAttemptIsLast
    <3> QED
      BY <3>1, <3>2
  <2> QED
    BY <2>1
<1> DEFINE row == [attempts[r][s][n] EXCEPT !.status = "completed"]
<1>7. attempts' = [attempts EXCEPT ![r][s][n] = row] /\ UNCHANGED <<subs, calls, workers>>
  BY <1>1, <1>2 DEF CompleteCallback, CompleteRetry, CompleteFailed, CompleteMoved,
     AttemptCompleted
<1>8. row.status = "completed" /\ row \in AttemptRow
  <2>1. attempts[r][s][n] \in AttemptRow
    BY <1>3, BaseParts, RowNumbers
  <2> QED
    BY <2>1 DEF AttemptRow
<1> HIDE DEF row
<1>9. /\ \A q \in Runs \ {r} : attempts'[q] = attempts[q]
      /\ \A x \in CallSteps : \A m \in DOMAIN attempts'[r][x] :
            attempts'[r][x][m].status # "scheduled"
  <2>1. Rewritten(r, s, n, row)
    BY <1>3, <1>7, <1>8, RowRewritten
  <2> QED
    BY <1>3, <1>6, <1>8, <2>1, LastScheduledClosed
<1>10. \A q \in Runs \ {r} : run'[q] = run[q]
  BY <1>1 DEF CompleteCallback, CompleteRetry, CompleteFailed, CompleteMoved,
     Rescheduled, Moved, Base, TypeOK
<1>11. /\ \A k \in TimerKeys : k.run # r => timers'[k] = timers[k]
       /\ RowsInv(r)'
  <2>1. CASE timers' = timers
    BY <1>4, <1>5, <1>7, <1>9, <2>1 DEF RowsInv
  <2>2. ASSUME NEW k \in TimerKeys, k.run = r, k.step = s, WakeStep(k) # NoStep,
               timers' = Armed(k), run' = Rescheduled(r, c)
        PROVE  /\ \A l \in TimerKeys : l.run # r => timers'[l] = timers[l]
               /\ RowsInv(r)'
    <3>1. WaitsAt(r, s)'
      BY <1>2, <2>2 DEF Rescheduled, WaitsAt, Base, TypeOK, RunRow
    <3>2. /\ \A l \in TimerKeys : l.run = r /\ timers'[l] = "pending" => l = k
          /\ \A l \in TimerKeys : l.run # r => timers'[l] = timers[l]
      BY <1>4, <2>2, ArmedAlone
    <3>3. WakeStep(k)' # NoStep
      BY <2>2 DEF WakeStep, CallbackStep
    <3> QED
      BY <1>5, <1>7, <1>9, <2>2, <3>1, <3>2, <3>3 DEF RowsInv
  <2>3. CASE CompleteCallback(r, c, n, report)
    <3>1. PICK k \in TimerKeys : k = CallbackKey(r, s, c)
      BY KeyType, BaseParts, CallNumbers
    <3>2. k.run = r /\ k.step = s /\ WakeStep(k) # NoStep
      BY <3>1, DefinitionAssumption DEF CallbackKey, WakeStep, CallbackStep, CallSteps
    <3>3. timers' = Armed(k) /\ run' = Rescheduled(r, c)
      BY <1>2, <2>3, <3>1 DEF CompleteCallback
    <3> QED
      BY <2>2, <3>2, <3>3
  <2>4. CASE CompleteRetry(r, c, n, report)
    <3>1. PICK k \in TimerKeys : k = RetryKey(r, s, n)
      BY KeyType
    <3>2. k.run = r /\ k.step = s /\ WakeStep(k) # NoStep
      BY <3>1, DefinitionAssumption DEF RetryKey, WakeStep, CallSteps
    <3>3. timers' = Armed(k) /\ run' = Rescheduled(r, c)
      BY <1>2, <2>4, <3>1 DEF CompleteRetry
    <3> QED
      BY <2>2, <3>2, <3>3
  <2> QED
    BY <1>1, <2>1, <2>3, <2>4 DEF CompleteFailed, CompleteMoved
<1>12. Only(r) /\ CallsKept
  BY <1>7, <1>9, <1>10, <1>11 DEF Only, CallsKept
<1>13. ~ Live(r)
  BY <1>4 DEF WaitsAt, Live
<1> QED
  BY <1>7, <1>11, <1>12, <1>13, UnattendedStep

\* An event resumes a waiting run and silences what else could wake it.
LEMMA ResumeStep ==
    ASSUME Base, DrivenInv, NEW w \in Workers, NEW e \in Events, IngestMatched(w, e)
    PROVE  DrivenInv'
<1>1. PICK r \in Runs, s \in EventSteps :
         /\ IsIdle(w)
         /\ subs[r][s].status = "pending"
         /\ subs' = [subs EXCEPT ![r][s] = [status |-> "consumed", event |-> e]]
         /\ timers' = TimersCancelled(r)
         /\ run' = [run EXCEPT ![r].status = "running",
                               ![r].step = Definition[s].next,
                               ![r].completed = @ \cup {s}]
         /\ workers' = [workers EXCEPT ![w] = Advancing(<<r>>)]
         /\ UNCHANGED <<attempts, calls>>
  BY DEF IngestMatched, Waiting, SubKeys
<1>2. WaitsAt(r, s) /\ ~ Live(r) /\ Unattended(r)
  BY <1>1 DEF DrivenInv, RowsInv, WaitsAt, Live, HandsInv
<1>3. \A x \in CallSteps : \A m \in DOMAIN attempts[r][x] :
         attempts[r][x][m].status # "scheduled"
  BY <1>2 DEF DrivenInv, RowsInv, WaitsAt, EventSteps, CallSteps
<1>4. /\ \A q \in Runs \ {r} : subs'[q] = subs[q]
      /\ \A x \in EventSteps : subs'[r][x].status # "pending"
  <2>1. subs \in [Runs -> [EventSteps -> SubRow]]
    BY DEF Base, TypeOK
  <2>2. \A x \in EventSteps \ {s} : subs[r][x].status # "pending"
    BY <1>2 DEF DrivenInv, RowsInv, WaitsAt
  <2> QED
    BY <1>1, <2>1, <2>2
<1>5. /\ \A k \in TimerKeys : k.run = r => timers'[k] # "pending"
      /\ \A k \in TimerKeys : k.run # r => timers'[k] = timers[k]
  BY <1>1 DEF TimersCancelled
<1>6. Live(r)' /\ \A q \in Runs \ {r} : run'[q] = run[q]
  BY <1>1 DEF Live, Base, TypeOK, RunRow
<1>7. Only(r) /\ CallsKept /\ RowsInv(r)'
  BY <1>1, <1>3, <1>4, <1>5, <1>6 DEF Only, CallsKept, RowsInv
<1> QED
  BY <1>1, <1>2, <1>6, <1>7, TakenStep

\* The timers of a batch are of different runs, all waiting; each wakes its run,
\* which nobody has in hand, and nothing else can wake it then.
LEMMA BatchStep ==
    ASSUME Base, DrivenInv, NEW w \in Workers, FireDueTimers(w)
    PROVE  DrivenInv'
<1>1. PICK batch \in SUBSET DueTimers, n \in 0 .. BatchLimit :
         LET wakes == Wakes(batch)
             woken == {k.run : k \in wakes} IN
         /\ timers' = [k \in TimerKeys |-> IF k \in batch THEN "fired" ELSE timers[k]]
         /\ subs' = TimedOut(wakes)
         /\ \E final \in [woken -> wakes] :
              /\ \A r \in woken : final[r].run = r
              /\ run' = [r \in Runs |->
                   IF r \in woken
                   THEN [run[r] EXCEPT
                           !.status = "running",
                           !.step = WakeStep(final[r]),
                           !.completed = @ \cup
                               {k.step : k \in {x \in wakes : x.run = r}}]
                   ELSE run[r]]
         /\ \E order \in Bijection(1 .. n, wakes) :
              workers' = [workers EXCEPT ![w] = Advancing([i \in 1 .. n |-> order[i].run])]
  BY Zenon DEF FireDueTimers
<1>2. IsIdle(w) /\ UNCHANGED <<attempts, events, calls>>
  BY DEF FireDueTimers
<1> DEFINE wakes == Wakes(batch)
           woken == {k.run : k \in wakes}
<1>3. /\ \A k \in batch : /\ k \in TimerKeys /\ timers[k] = "pending"
                         /\ k.run \in Runs
                         /\ WaitsAt(k.run, k.step) /\ WakeStep(k) # NoStep
      /\ \A k, l \in batch : k.run = l.run => k = l
  <2>1. \A k \in batch : k \in TimerKeys /\ timers[k] = "pending" /\ k.run \in Runs
    BY WakeType DEF DueTimers
  <2> QED
    BY <2>1 DEF DrivenInv, RowsInv
<1>4. wakes = batch
  BY <1>3 DEF Wakes, Terminated, WaitsAt, TerminalStatuses
<1>5. PICK order \in Bijection(1 .. n, wakes) :
         workers' = [workers EXCEPT ![w] = Advancing([i \in 1 .. n |-> order[i].run])]
  BY <1>1
<1> DEFINE q == [i \in 1 .. n |-> order[i].run]
<1>6. /\ DOMAIN q = 1 .. n
      /\ \A i \in DOMAIN q : order[i] \in batch /\ q[i] = order[i].run
      /\ \A i, j \in DOMAIN q : order[i] = order[j] => i = j
  BY <1>4, <1>5 DEF Bijection, Injection, Surjection, IsInjective
<1> HIDE DEF q
<1>7. q \in Seq(Runs) /\ (\A i \in DOMAIN q : Unattended(q[i]))
      /\ \A i, j \in DOMAIN q : q[i] = q[j] => i = j
  <2>1. \A i \in DOMAIN q : q[i] \in Runs
    BY <1>3, <1>6
  <2>2. q \in [1 .. n -> Runs]
    BY <1>6, <2>1 DEF q
  <2>3. n \in Nat
    BY WorkflowAssumption
  <2>4. q \in Seq(Runs)
    BY <2>2, <2>3, SeqDef
  <2>5. ASSUME NEW i \in DOMAIN q PROVE Unattended(q[i])
    <3>1. q[i] \in Runs /\ ~ Live(q[i])
      BY <1>3, <1>6, <2>1 DEF WaitsAt, Live
    <3> QED
      BY <3>1 DEF DrivenInv, HandsInv
  <2>6. \A i, j \in DOMAIN q : q[i] = q[j] => i = j
    BY <1>3, <1>6
  <2> QED
    BY <2>4, <2>5, <2>6
<1>8. workers' = [workers EXCEPT ![w] = Advancing(q)]
  BY <1>5 DEF q
<1>9. /\ Once' /\ ~ Dials(w)'
      /\ \A r \in Runs : Unattended(r) /\ (\A i \in DOMAIN q : q[i] # r) => Unattended(r)'
      /\ \A v \in Workers \ {w} : workers'[v] = workers[v]
  BY <1>2, <1>7, <1>8, Taken DEF DrivenInv
<1>10. \A r \in Runs \ woken :
          /\ run'[r] = run[r]
          /\ subs'[r] = subs[r]
          /\ \A k \in TimerKeys : k.run = r => timers'[k] = timers[k]
  <2> SUFFICES ASSUME NEW r \in Runs \ woken
               PROVE  /\ run'[r] = run[r]
                      /\ subs'[r] = subs[r]
                      /\ \A k \in TimerKeys : k.run = r => timers'[k] = timers[k]
    OBVIOUS
  <2>1. run'[r] = run[r]
    BY <1>1
  <2>2. \A k \in TimerKeys : k.run = r => timers'[k] = timers[k]
    BY <1>1, <1>4
  <2>3. subs[r] = [s \in EventSteps |-> subs[r][s]]
    BY DEF Base, TypeOK
  <2>4. \A s \in EventSteps : TimeoutKey(r, s) \notin wakes
    BY DEF TimeoutKey
  <2>5. subs'[r] = [s \in EventSteps |-> subs[r][s]]
    BY <1>1, <2>4 DEF TimedOut
  <2> QED
    BY <2>1, <2>2, <2>3, <2>5
<1>11. ASSUME NEW r \in woken PROVE r \in Runs /\ Live(r)' /\ RowsInv(r)'
  <2>1. PICK k \in batch : k.run = r
    BY <1>4
  <2>2. /\ r \in Runs /\ k \in TimerKeys /\ timers[k] = "pending"
        /\ WaitsAt(r, k.step) /\ RowsInv(r)
    BY <1>3, <2>1 DEF DrivenInv
  <2>3. run'[r].status = "running"
    <3>1. PICK final :
             run' = [x \in Runs |->
                IF x \in woken
                THEN [run[x] EXCEPT
                        !.status = "running",
                        !.step = WakeStep(final[x]),
                        !.completed = @ \cup {l.step : l \in {y \in wakes : y.run = x}}]
                ELSE run[x]]
      BY <1>1, ZenonT(60)
    <3> DEFINE done == {l.step : l \in {y \in wakes : y.run = r}}
               target == WakeStep(final[r])
    <3>2. run'[r] = [run[r] EXCEPT !.status = "running", !.step = target,
                                   !.completed = @ \cup done]
      BY <1>11, <2>2, <3>1
    <3> HIDE DEF done, target
    <3>3. run[r] \in RunRow
      BY <2>2 DEF Base, TypeOK
    <3> QED
      BY <3>2, <3>3 DEF RunRow
  <2>4. \A l \in TimerKeys : l.run = r => timers'[l] # "pending"
    BY <1>1, <2>1, <2>2 DEF RowsInv
  <2>5. \A x \in CallSteps : \A m \in DOMAIN attempts'[r][x] :
           attempts'[r][x][m].status # "scheduled"
    BY <1>2, <2>1, <2>2 DEF RowsInv
  <2>6. ASSUME NEW s \in EventSteps PROVE subs'[r][s].status # "pending"
    <3>1. subs'[r][s] = IF TimeoutKey(r, s) \in wakes /\ subs[r][s].status = "pending"
                        THEN [subs[r][s] EXCEPT !.status = "timed_out"]
                        ELSE subs[r][s]
      BY <1>1, <2>2 DEF TimedOut
    <3>2. CASE subs[r][s].status # "pending"
      BY <3>1, <3>2
    <3>3. CASE subs[r][s].status = "pending"
      <4>1. k.step = s
        BY <2>2, <3>3 DEF RowsInv, WaitsAt
      <4>2. k = TimeoutKey(r, s)
        BY <2>1, <2>2, <4>1 DEF TimerKeys, TimeoutKey, EventSteps, WaitSteps, CallSteps
      <4>3. subs[r][s] \in SubRow
        BY <2>2 DEF Base, TypeOK
      <4> QED
        BY <1>4, <2>1, <3>1, <3>3, <4>2, <4>3 DEF SubRow
    <3> QED
      BY <3>2, <3>3
  <2> QED
    BY <2>2, <2>3, <2>4, <2>5, <2>6 DEF RowsInv, Live
<1> HIDE DEF wakes, woken
<1>12. \A r \in Runs : RowsInv(r)'
  <2>1. ASSUME NEW r \in Runs \ woken PROVE RowsInv(r)'
    <3>1. RowsInv(r) /\ attempts'[r] = attempts[r]
      BY <1>2 DEF DrivenInv
    <3> QED
      BY <1>10, <3>1, KeptRows
  <2> QED
    BY <1>11, <2>1
<1>13. \A i \in DOMAIN q : q[i] \in woken
  BY <1>4, <1>6 DEF woken
<1>14. ASSUME NEW r \in Runs, ~ Unattended(r)' PROVE Live(r)'
  <2>1. CASE r \in woken
    BY <1>11, <2>1
  <2>2. CASE r \notin woken
    <3>1. ~ Unattended(r)
      BY <1>9, <1>13, <1>14, <2>2
    <3>2. Live(r) /\ run'[r] = run[r]
      BY <1>10, <2>2, <3>1 DEF DrivenInv, HandsInv
    <3> QED
      BY <3>2 DEF Live
  <2> QED
    BY <2>1, <2>2
<1>15. HandsInv'
  BY <1>9, <1>14 DEF HandsInv
<1>16. ASSUME NEW v \in Workers PROVE DialInv(v)'
  <2>1. CASE v = w \/ ~ Dials(v)
    <3>1. ~ Dials(v)'
      BY <1>9, <2>1 DEF Dials
    <3> QED
      BY <3>1 DEF DialInv
  <2>2. CASE v # w /\ Dials(v)
    <3>1. workers'[v] = workers[v] /\ Dials(v) /\ DialInv(v)
      BY <1>9, <2>2 DEF DrivenInv
    <3>2. PICK r \in Runs : r = Job(v) /\ Live(r)
      BY <3>1, JobLive DEF Dials, DrivenInv
    <3>3. r \notin woken
      BY <1>3, <1>4, <3>2 DEF woken, WaitsAt, Live
    <3>4. run'[r] = run[r] /\ UNCHANGED <<attempts, calls>>
      BY <1>2, <1>10, <3>2, <3>3
    <3>5. Job(v)' = r
      BY <3>1, <3>2 DEF Job
    <3> QED
      BY <3>1, <3>2, <3>4, <3>5 DEF DialInv, Dials, LastAttempt
  <2> QED
    BY <2>1, <2>2
<1> QED
  BY <1>12, <1>15, <1>16 DEF DrivenInv

\* The runtime starts with nothing in hand and nothing that could wake a run.
LEMMA DrivenInit == Init => DrivenInv
<1> SUFFICES ASSUME Init PROVE DrivenInv
  OBVIOUS
<1>1. \A w \in Workers : workers[w].queue = <<>> /\ workers[w].pc = "idle"
  BY DEF Init, Idle
<1>2. HandsInv
  BY <1>1 DEF HandsInv, Once, Unattended
<1>3. \A w \in Workers : DialInv(w)
  BY <1>1 DEF DialInv, Dials
<1>4. ASSUME NEW r \in Runs PROVE Quiet(r)
  BY DEF Init, Quiet
<1> QED
  BY <1>2, <1>3, <1>4, QuietRows DEF DrivenInv

\* The driver takes steps of the runtime only.
LEMMA DriverSteps ==
    ASSUME [DriverNext]_driverVars
    PROVE  [Next]_vars
BY DEF DriverNext, driverVars, Begin, Report, Proceed, PollTimers, Die, DriveRun, Receive, Next

\* Every step of the driver keeps the invariant.
LEMMA DrivenNext ==
    ASSUME Base, ScheduledAttemptIsLast, DrivenInv, [DriverNext]_driverVars
    PROVE  DrivenInv'
<1>1. ASSUME NEW r \in Runs, Begin(r) PROVE DrivenInv'
  BY <1>1, BeginStep DEF Begin
<1>2. ASSUME NEW r \in Runs, Report(r) PROVE DrivenInv'
  BY <1>2, ReportStep DEF Report
<1>3. ASSUME NEW w \in Workers, Proceed(w) PROVE DrivenInv'
  BY <1>3, PrepareEnds, PrepareWaits, PrepareDials, DialSteps, BindStep, UnwindStep, DropStep
     DEF Proceed, AdvanceStep, Prepare
<1>4. ASSUME NEW w \in Workers, PollTimers(w) PROVE DrivenInv'
  BY <1>4, BatchStep DEF PollTimers
<1>5. ASSUME NEW w \in Workers, Die(w) PROVE DrivenInv'
  BY <1>5, DropStep DEF Die
<1>6. ASSUME NEW w \in Workers, NEW r \in Runs, DriveRun(w, r) PROVE DrivenInv'
  BY <1>6, DriveStep
<1>7. ASSUME NEW w \in Workers, NEW e \in Events, Receive(w, e) PROVE DrivenInv'
  BY <1>7, ResumeStep, UntouchedStep DEF Receive, IngestUnmatched
<1>8. CASE UNCHANGED driverVars
  BY <1>8, UntouchedStep DEF driverVars, vars
<1> QED
  BY <1>1, <1>2, <1>3, <1>4, <1>5, <1>6, <1>7, <1>8 DEF DriverNext

-----------------------------------------------------------------------------
(* The calls the runtime knows, and those it loses track of *)

\* An attempt knows the call, or a service call is about to record it.
Tracked(c) ==
    \/ \E n \in DOMAIN attempts[calls[c].run][calls[c].step] :
          attempts[calls[c].run][calls[c].step][n].call = c
    \/ \E w \in Workers : workers[w].pc = "bind" /\ workers[w].call = c

\* Who dials has an attempt to record the call with.
LEMMA DialledRow ==
    ASSUME Base, NEW w \in Workers, Dials(w)
    PROVE  \E r \in Runs : \E s \in CallSteps : \E n \in DOMAIN attempts[r][s] :
              r = Job(w) /\ s = workers[w].step /\ n = Len(attempts[r][s])
<1>1. PICK r \in Runs, s \in CallSteps :
         r = Job(w) /\ s = workers[w].step /\ attempts[r][s] # <<>>
  BY JobType DEF Base, DialledStepHasAttempt, Dials
<1>2. attempts[r][s] \in Seq(AttemptRow) /\ DOMAIN attempts[r][s] = 1 .. Len(attempts[r][s])
  BY BaseParts, RowNumbers
<1>3. Len(attempts[r][s]) \in DOMAIN attempts[r][s]
  BY <1>1, <1>2, LastIsRow
<1> QED
  BY <1>1, <1>3

\* Once an attempt has its call it keeps it.
AttemptsKeepCalls ==
    \A r \in Runs : \A s \in CallSteps : \A n \in DOMAIN attempts[r][s] :
        /\ n \in DOMAIN attempts'[r][s]
        /\ attempts[r][s][n].call # NoCall =>
              attempts'[r][s][n].call = attempts[r][s][n].call

\* A new attempt follows the rows of its step, which stay, as do all others.
Appended(r, s) ==
    /\ \A q \in Runs \ {r} : attempts'[q] = attempts[q]
    /\ \A x \in CallSteps \ {s} : attempts'[r][x] = attempts[r][x]
    /\ Len(attempts'[r][s]) = Len(attempts[r][s]) + 1
    /\ \A n \in DOMAIN attempts[r][s] :
          n \in DOMAIN attempts'[r][s] /\ attempts'[r][s][n] = attempts[r][s][n]
    /\ \A n \in DOMAIN attempts'[r][s] \ DOMAIN attempts[r][s] :
          n = Len(attempts[r][s]) + 1 /\ attempts'[r][s][n] = NewAttempt

\* What a step does to the attempts: it adds one, or rewrites one that has no
\* call yet or is scheduled.
LEMMA AttemptsStep ==
    ASSUME Base, DrivenInv, [Next]_vars
    PROVE  \/ attempts' = attempts
           \/ \E w \in Workers : \E r \in Runs : \E s \in CallSteps :
                 /\ PrepareAttempt(w) /\ r = Job(w) /\ s = run[r].step
                 /\ Appended(r, s)
           \/ \E w \in Workers : \E r \in Runs : \E s \in CallSteps :
                 \E n \in DOMAIN attempts[r][s] : \E row \in AttemptRow :
                    /\ r = Job(w) /\ s = workers[w].step /\ Dials(w)
                    /\ attempts[r][s][n] = NewAttempt
                    /\ Rewritten(r, s, n, row)
                    /\ \/ Bind(w) /\ row = [status |-> "scheduled", call |-> workers[w].call]
                       \/ Unwind(w) /\ row = [status |-> "failed", call |-> NoCall]
           \/ \E r \in Runs : \E s \in CallSteps :
                 \E n \in DOMAIN attempts[r][s] : \E row \in AttemptRow :
                    /\ CompleteCallActivity(r) /\ s = run[r].step
                    /\ attempts[r][s][n].status = "scheduled"
                    /\ Rewritten(r, s, n, row)
                    /\ row = [status |-> "completed", call |-> attempts[r][s][n].call]
<1>1. ASSUME NEW w \in Workers, PrepareAttempt(w)
      PROVE  \E r \in Runs : \E s \in CallSteps : r = Job(w) /\ s = run[r].step /\ Appended(r, s)
  <2>1. workers[w].pc # "idle"
    BY <1>1 DEF PrepareAttempt, Preparing
  <2>2. PICK r \in Runs, s \in CallSteps : r = Job(w) /\ s = run[r].step
    BY <1>1, <2>1, JobType DEF PrepareAttempt, Step, CallSteps
  <2>3. attempts' = [attempts EXCEPT ![r][s] = Append(@, NewAttempt)]
    BY <1>1, <2>2 DEF PrepareAttempt, AttemptCreated
  <2>4. /\ \A q \in Runs \ {r} : attempts'[q] = attempts[q]
        /\ \A x \in CallSteps \ {s} : attempts'[r][x] = attempts[r][x]
        /\ Len(attempts'[r][s]) = Len(attempts[r][s]) + 1
    BY <2>3, RowAdded, Zenon
  <2>5. /\ \A n \in DOMAIN attempts'[r][s] :
              \/ n \in DOMAIN attempts[r][s] /\ attempts'[r][s][n] = attempts[r][s][n]
              \/ n = Len(attempts[r][s]) + 1 /\ attempts'[r][s][n] = NewAttempt
        /\ \A n \in DOMAIN attempts[r][s] :
              n \in DOMAIN attempts'[r][s] /\ attempts'[r][s][n] = attempts[r][s][n]
    BY <2>3, RowAdded, Zenon
  <2>6. Appended(r, s)
    BY <2>4, <2>5, Zenon DEF Appended
  <2> QED
    BY <2>2, <2>6
<1>2. ASSUME NEW w \in Workers, Bind(w) \/ Unwind(w), attempts' # attempts
      PROVE  \E r \in Runs : \E s \in CallSteps :
                \E n \in DOMAIN attempts[r][s] : \E row \in AttemptRow :
                    /\ r = Job(w) /\ s = workers[w].step /\ Dials(w)
                    /\ attempts[r][s][n] = NewAttempt
                    /\ Rewritten(r, s, n, row)
                    /\ \/ Bind(w) /\ row = [status |-> "scheduled", call |-> workers[w].call]
                       \/ Unwind(w) /\ row = [status |-> "failed", call |-> NoCall]
  <2>1. Dials(w) /\ workers[w].pc # "idle"
    BY <1>2 DEF Bind, Unwind, Dials
  <2>2. PICK r \in Runs : \E s \in CallSteps : \E n \in DOMAIN attempts[r][s] :
           r = Job(w) /\ s = workers[w].step /\ n = Len(attempts[r][s])
    BY <2>1, DialledRow
  <2>3. PICK s \in CallSteps : \E n \in DOMAIN attempts[r][s] :
           r = Job(w) /\ s = workers[w].step /\ n = Len(attempts[r][s])
    BY <2>2
  <2>4. PICK n \in DOMAIN attempts[r][s] : n = Len(attempts[r][s])
    BY <2>3
  <2>5. r = Job(w) /\ s = workers[w].step
    BY <2>3
  <2>6. attempts[r][s][n] = NewAttempt
    BY <2>1, <2>4, <2>5 DEF DrivenInv, DialInv, LastAttempt
  <2>7. PICK row \in AttemptRow :
           /\ attempts' = [attempts EXCEPT ![r][s][n] = row]
           /\ \/ Bind(w) /\ row = [status |-> "scheduled", call |-> workers[w].call]
              \/ Unwind(w) /\ row = [status |-> "failed", call |-> NoCall]
    <3>1. CASE Bind(w)
      <4>1. [status |-> "scheduled", call |-> workers[w].call] \in AttemptRow
        BY DEF AttemptRow, Base, TypeOK, Worker
      <4> QED
        BY <2>4, <2>5, <3>1, <4>1 DEF Bind, AttemptBound
    <3>2. CASE Unwind(w)
      <4>1. attempts' = [attempts EXCEPT ![r][s][n].status = "failed"]
        BY <1>2, <2>4, <2>5, <3>2 DEF Unwind
      <4>2. [attempts[r][s][n] EXCEPT !.status = "failed"] = [status |-> "failed", call |-> NoCall]
        BY <2>6 DEF NewAttempt
      <4>3. [status |-> "failed", call |-> NoCall] \in AttemptRow
        BY DEF AttemptRow
      <4> QED
        BY <3>2, <4>1, <4>2, <4>3
    <3> QED
      BY <1>2, <3>1, <3>2
  <2>8. Rewritten(r, s, n, row)
    BY <2>7, RowRewritten
  <2> QED
    BY <2>1, <2>5, <2>6, <2>7, <2>8
<1>3. ASSUME NEW r \in Runs, CompleteCallActivity(r)
      PROVE  \E s \in CallSteps : \E n \in DOMAIN attempts[r][s] : \E row \in AttemptRow :
                    /\ s = run[r].step
                    /\ attempts[r][s][n].status = "scheduled"
                    /\ Rewritten(r, s, n, row)
                    /\ row = [status |-> "completed", call |-> attempts[r][s][n].call]
  <2>1. PICK n \in 1 .. MaxAttemptRows :
           /\ Step(r).kind = "call" /\ IsScheduledAttempt(r, run[r].step, n)
           /\ attempts' = AttemptCompleted(r, n)
    BY <1>3 DEF CompleteCallActivity, Completing, CompleteCallback, CompleteRetry,
       CompleteFailed, CompleteMoved
  <2>2. PICK s \in CallSteps : s = run[r].step
    <3>1. run[r].step \in Steps
      BY DEF Base, TypeOK, RunRow
    <3> QED
      BY <2>1, <3>1 DEF Step, CallSteps
  <2>3. n \in DOMAIN attempts[r][s] /\ attempts[r][s][n].status = "scheduled"
    BY <2>1, <2>2 DEF IsScheduledAttempt
  <2>4. attempts[r][s][n] \in AttemptRow
    BY <2>3, BaseParts, RowNumbers
  <2>5. PICK row \in AttemptRow :
           row = [status |-> "completed", call |-> attempts[r][s][n].call]
    BY <2>4 DEF AttemptRow
  <2>6. attempts' = [attempts EXCEPT ![r][s][n] = row]
    <3>1. [attempts[r][s][n] EXCEPT !.status = "completed"] = row
      BY <2>4, <2>5 DEF AttemptRow
    <3> QED
      BY <2>1, <2>2, <3>1 DEF AttemptCompleted
  <2>7. Rewritten(r, s, n, row)
    BY <2>3, <2>6, RowRewritten
  <2> QED
    BY <2>2, <2>3, <2>5, <2>7
<1> QED
  BY <1>1, <1>2, <1>3, AttemptsFrame, ZenonT(60)

\* A rewritten row keeps its call if it had one.
LEMMA RewrittenKeepsCalls ==
    ASSUME NEW r \in Runs, NEW s \in CallSteps, NEW n \in DOMAIN attempts[r][s],
           NEW row, Rewritten(r, s, n, row),
           attempts[r][s][n].call # NoCall => row.call = attempts[r][s][n].call
    PROVE  AttemptsKeepCalls
<1>1. ASSUME NEW q \in Runs, NEW x \in CallSteps, NEW m \in DOMAIN attempts[q][x]
      PROVE  /\ m \in DOMAIN attempts'[q][x]
             /\ attempts[q][x][m].call # NoCall =>
                   attempts'[q][x][m].call = attempts[q][x][m].call
  <2>1. CASE q = r /\ x = s
    <3>1. /\ m \in DOMAIN attempts'[q][x]
          /\ attempts'[q][x][m] = IF m = n THEN row ELSE attempts[q][x][m]
      BY <2>1 DEF Rewritten
    <3> QED
      BY <2>1, <3>1
  <2>2. CASE q # r \/ x # s
    BY <2>2 DEF Rewritten
  <2> QED
    BY <2>1, <2>2
<1> QED
  BY <1>1 DEF AttemptsKeepCalls

\* No step takes a call from its attempt: advance_run records one with an attempt
\* that has none.
LEMMA CallsStay ==
    ASSUME Base, DrivenInv, [Next]_vars
    PROVE  AttemptsKeepCalls
<1>1. CASE attempts' = attempts
  BY <1>1 DEF AttemptsKeepCalls
<1>2. ASSUME NEW r \in Runs, NEW s \in CallSteps, Appended(r, s) PROVE AttemptsKeepCalls
  <2>1. ASSUME NEW q \in Runs, NEW x \in CallSteps, NEW m \in DOMAIN attempts[q][x]
        PROVE  m \in DOMAIN attempts'[q][x] /\ attempts'[q][x][m] = attempts[q][x][m]
    <3>1. CASE q = r /\ x = s
      BY <1>2, <3>1 DEF Appended
    <3>2. CASE q # r \/ x # s
      BY <1>2, <3>2 DEF Appended
    <3> QED
      BY <3>1, <3>2
  <2> QED
    BY <2>1 DEF AttemptsKeepCalls
<1>3. ASSUME NEW r \in Runs, NEW s \in CallSteps, NEW n \in DOMAIN attempts[r][s],
             NEW row \in AttemptRow, Rewritten(r, s, n, row),
             attempts[r][s][n] = NewAttempt \/ row.call = attempts[r][s][n].call
      PROVE  AttemptsKeepCalls
  <2>1. NewAttempt.call = NoCall
    BY DEF NewAttempt
  <2> QED
    BY <1>3, <2>1, RewrittenKeepsCalls
<1> QED
  BY <1>1, <1>2, <1>3, AttemptsStep

\* Only a telephony request adds a call, be its answer a success or not.
LEMMA CallsByDial ==
    ASSUME [Next]_vars
    PROVE  \/ calls' = calls
           \/ \E w \in Workers : Placed(w) /\ (Dial(w) \/ DialFails(w))
<1>1. ASSUME NEW r \in Runs, StartRun(r) \/ CompleteCallActivity(r) \/ CancelRun(r) \/ PauseRun(r)
      PROVE  calls' = calls
  BY <1>1, CompletionFrame, SMTT(30) DEF StartRun, CancelRun, PauseRun
<1>2. ASSUME NEW w \in Workers, AdvanceStep(w)
      PROVE  calls' = calls \/ (Placed(w) /\ (Dial(w) \/ DialFails(w)))
  <2>1. CASE Dial(w) \/ DialFails(w)
    BY <2>1, SMTT(30) DEF Dial, DialFails
  <2>2. CASE Prepare(w) \/ Bind(w) \/ BindRejected(w) \/ Unwind(w)
    BY <2>2 DEF Prepare, PrepareRejected, PrepareComplete, PrepareWait, PrepareEventWait,
       PrepareScheduledCall, PrepareAttempt, Bind, BindRejected, Unwind, store
  <2> QED
    BY <1>2, <2>1, <2>2 DEF AdvanceStep
<1>3. ASSUME NEW w \in Workers, FireDueTimers(w) \/ Crash(w) PROVE calls' = calls
  BY <1>3 DEF FireDueTimers, Crash, store
<1>4. ASSUME NEW w \in Workers, NEW r \in Runs, RequestAdvance(w, r) \/ ResumeRun(w, r)
      PROVE  calls' = calls
  BY <1>4 DEF RequestAdvance, ResumeRun, store
<1>5. ASSUME NEW w \in Workers, NEW e \in Events, IngestMatched(w, e) \/ IngestUnmatched(w, e)
      PROVE  calls' = calls
  BY <1>5 DEF IngestMatched, IngestUnmatched
<1>6. CASE UNCHANGED vars
  BY <1>6 DEF vars
<1> QED
  BY <1>1, <1>2, <1>3, <1>4, <1>5, <1>6 DEF Next

\* A service call that dials is there to do so.
LEMMA DialledFrom ==
    ASSUME NEW w \in Workers, Dial(w) \/ DialFails(w)
    PROVE  workers[w].pc = "dial" /\ attempts' = attempts
BY DEF Dial, DialFails

\* A new call is about to be recorded, or its request failed.
LEMMA CallsFrame ==
    ASSUME Base, [Next]_vars
    PROVE  /\ CallsKept
           /\ \A c \in DOMAIN calls' \ DOMAIN calls :
                 \E w \in Workers :
                    \/ workers'[w].pc = "bind" /\ workers'[w].call = c
                    \/ DialFails(w) /\ Placed(w) /\ c = Len(calls) + 1
<1>1. CASE calls' = calls
  BY <1>1 DEF CallsKept
<1>2. ASSUME NEW w \in Workers, Placed(w), Dial(w) \/ DialFails(w)
      PROVE  /\ CallsKept
             /\ \A c \in DOMAIN calls' \ DOMAIN calls :
                   \/ workers'[w].pc = "bind" /\ workers'[w].call = c
                   \/ DialFails(w) /\ Placed(w) /\ c = Len(calls) + 1
  <2>1. CallsKept /\ DOMAIN calls' = DOMAIN calls \cup {Len(calls) + 1}
    BY <1>2, DialledFrom, CallAdded
  <2>2. Dial(w) => workers'[w].pc = "bind" /\ workers'[w].call = Len(calls) + 1
    BY DEF Dial, Base, TypeOK, Worker
  <2> QED
    BY <1>2, <2>1, <2>2
<1> QED
  BY <1>1, <1>2, CallsByDial

\* A service call in flight goes on by its own steps only.
LEMMA BusyFrame ==
    ASSUME Base, [DriverNext]_driverVars, NEW v \in Workers, workers[v].pc # "idle"
    PROVE  workers'[v] = workers[v] \/ Proceed(v) \/ Die(v)
<1>1. workers \in [Workers -> Worker]
  BY DEF Base, TypeOK
<1>2. ASSUME NEW w \in Workers, Proceed(w) PROVE workers'[v] = workers[v] \/ Proceed(v)
  <2>1. CASE v = w
    BY <1>2, <2>1
  <2>2. CASE v # w
    <3>1. PICK x : workers' = [workers EXCEPT ![w] = x]
      <4>1. CASE Prepare(w)
        BY <4>1 DEF Prepare, PrepareRejected, PrepareComplete, PrepareWait, PrepareEventWait,
           PrepareScheduledCall, PrepareAttempt, Advanced, Raised
      <4>2. CASE Dial(w) \/ DialFails(w) \/ Bind(w) \/ BindRejected(w) \/ Unwind(w)
        BY <4>2 DEF Dial, DialFails, Bind, BindRejected, Unwind, Advanced, Raised
      <4> QED
        BY <1>2, <4>1, <4>2 DEF Proceed, AdvanceStep
    <3> QED
      BY <1>1, <2>2, <3>1
  <2> QED
    BY <2>1, <2>2
<1>3. ASSUME NEW w \in Workers, Die(w) PROVE workers'[v] = workers[v] \/ Die(v)
  BY <1>1, <1>3 DEF Die, Crash, Raised
<1>4. ASSUME NEW w \in Workers, PollTimers(w) PROVE workers'[v] = workers[v]
  <2>1. v # w
    BY <1>4 DEF PollTimers, FireDueTimers, IsIdle
  <2>2. PICK q : workers' = [workers EXCEPT ![w] = q]
    BY <1>4 DEF PollTimers, FireDueTimers
  <2> QED
    BY <1>1, <2>1, <2>2
<1>5. ASSUME NEW w \in Workers, NEW r \in Runs, DriveRun(w, r) PROVE workers'[v] = workers[v]
  BY <1>1, <1>5 DEF DriveRun, RequestAdvance, IsIdle
<1>6. ASSUME NEW w \in Workers, NEW e \in Events, Receive(w, e) PROVE workers'[v] = workers[v]
  BY <1>1, <1>6 DEF Receive, IngestMatched, IngestUnmatched, IsIdle
<1>7. ASSUME NEW r \in Runs, Begin(r) \/ Report(r) PROVE workers'[v] = workers[v]
  BY <1>7, CompletionFrame DEF Begin, Report, StartRun
<1>8. CASE UNCHANGED driverVars
  BY <1>8 DEF driverVars, vars
<1> QED
  BY <1>2, <1>3, <1>4, <1>5, <1>6, <1>7, <1>8 DEF DriverNext

\* A service call that is about to record its call does so, unless it dies.
LEMMA BinderFrame ==
    ASSUME Base, DrivenInv, [DriverNext]_driverVars,
           NEW v \in Workers, workers[v].pc = "bind"
    PROVE  workers'[v] = workers[v] \/ Bind(v) \/ Die(v)
<1>1. CanMove(run[Job(v)].status, "waiting")
  <2>1. run[Job(v)].status = "running"
    BY DEF DrivenInv, DialInv, Dials
  <2> QED
    BY <2>1 DEF CanMove, LegalTransitions, RunStatuses
<1>2. ASSUME Proceed(v) PROVE Bind(v)
  BY <1>1, <1>2 DEF Proceed, AdvanceStep, Prepare, PrepareRejected, PrepareComplete,
     PrepareWait, PrepareEventWait, PrepareScheduledCall, PrepareAttempt, Preparing,
     Dial, DialFails, BindRejected, Unwind
<1> QED
  BY <1>2, BusyFrame

\* A service call in the middle of advance_run works on for its run, and leaves it
\* only when the call is recorded, when the dial failed, or when it dies.
LEMMA DiallerFrame ==
    ASSUME Base, DrivenInv, [DriverNext]_driverVars, NEW v \in Workers, Dials(v)
    PROVE  \/ Dials(v)' /\ Job(v)' = Job(v)
           \/ Bind(v) \/ Unwind(v) \/ Die(v)
<1>1. workers \in [Workers -> Worker]
  BY DEF Base, TypeOK
<1>2. CanMove(run[Job(v)].status, "waiting")
  <2>1. run[Job(v)].status = "running"
    BY DEF DrivenInv, DialInv
  <2> QED
    BY <2>1 DEF CanMove, LegalTransitions, RunStatuses
<1>3. CASE workers'[v] = workers[v]
  BY <1>3 DEF Dials, Job
<1>4. ASSUME Proceed(v)
      PROVE  Bind(v) \/ Unwind(v) \/ (Dials(v)' /\ Job(v)' = Job(v))
  <2>1. Dial(v) \/ DialFails(v) \/ Bind(v) \/ Unwind(v)
    BY <1>2, <1>4 DEF Dials, Proceed, AdvanceStep, Prepare, PrepareRejected, PrepareComplete,
       PrepareWait, PrepareEventWait, PrepareScheduledCall, PrepareAttempt, Preparing,
       BindRejected
  <2>2. CASE Dial(v) \/ DialFails(v)
    <3>1. workers'[v].pc \in {"bind", "unwind"} /\ workers'[v].queue = workers[v].queue
      BY <1>1, <2>2, SMTT(30) DEF Dial, DialFails, Worker
    <3> QED
      BY <3>1 DEF Dials, Job
  <2> QED
    BY <2>1, <2>2
<1> QED
  BY <1>3, <1>4, BusyFrame DEF Dials

\* A call is one of a run and of a call activity.
LEMMA CallType ==
    ASSUME Base, NEW c \in DOMAIN calls
    PROVE  calls[c].run \in Runs /\ calls[c].step \in CallSteps
<1>1. calls \in Seq([run : Runs, step : CallSteps]) /\ c \in 1 .. Len(calls)
  BY BaseParts, CallNumbers DEF StoreOK
<1>2. calls[c] \in [run : Runs, step : CallSteps]
  BY <1>1, ElementOfSeq
<1> QED
  BY <1>2

\* A call that is tracked stays so, unless the service call that made it dies.
LEMMA TrackedNext ==
    ASSUME Base, DrivenInv, [DriverNext]_driverVars, NEW c \in DOMAIN calls, Tracked(c),
           \A w \in Workers : Die(w) => ~ (workers[w].pc = "bind" /\ workers[w].call = c)
    PROVE  Tracked(c)'
<1>0. [Next]_vars
  BY DriverSteps
<1>1. /\ CallsKept /\ AttemptsKeepCalls
      /\ c \in Nat \ {NoCall}
      /\ calls[c].run \in Runs /\ calls[c].step \in CallSteps
  <2>1. c \in Nat \ {NoCall}
    BY BaseParts, CallNumbers DEF StoreOK, NoCall
  <2> QED
    BY <1>0, <2>1, CallType, CallsStay, CallsFrame
<1> DEFINE r == calls[c].run
           s == calls[c].step
<1>2. calls'[c].run = r /\ calls'[c].step = s
  BY <1>1 DEF CallsKept
<1> HIDE DEF r, s
<1>3. CASE \E n \in DOMAIN attempts[r][s] : attempts[r][s][n].call = c
  <2>1. PICK n \in DOMAIN attempts[r][s] : attempts[r][s][n].call = c
    BY <1>3
  <2>2. n \in DOMAIN attempts'[r][s] /\ attempts'[r][s][n].call = c
    BY <1>1, <2>1 DEF AttemptsKeepCalls, r, s
  <2> QED
    BY <1>2, <2>2 DEF Tracked
<1>4. CASE \E w \in Workers : workers[w].pc = "bind" /\ workers[w].call = c
  <2>1. PICK w \in Workers : workers[w].pc = "bind" /\ workers[w].call = c
    BY <1>4, Zenon
  <2>2. CASE workers'[w] = workers[w]
    BY <2>1, <2>2 DEF Tracked
  <2>3. CASE Bind(w)
    <3>1. r = Job(w) /\ s = workers[w].step
      <4>1. calls[c] = [run |-> Job(w), step |-> workers[w].step]
        BY <2>1 DEF DrivenInv, DialInv, Dials
      <4> QED
        BY <4>1 DEF r, s
    <3>2. PICK n \in DOMAIN attempts[r][s] : n = Len(attempts[r][s])
      BY <2>1, <3>1, DialledRow DEF Dials
    <3> DEFINE row == [status |-> "scheduled", call |-> c]
    <3>3. row \in AttemptRow
      BY <2>1 DEF AttemptRow, Base, TypeOK, Worker
    <3>4. attempts' = [attempts EXCEPT ![r][s][n] = row]
      BY <2>1, <2>3, <3>1, <3>2 DEF Bind, AttemptBound
    <3>5. row.call = c
      OBVIOUS
    <3> HIDE DEF row
    <3>6. Rewritten(r, s, n, row)
      BY <1>1, <3>3, <3>4, RowRewritten DEF r, s
    <3>7. n \in DOMAIN attempts'[r][s] /\ attempts'[r][s][n].call = c
      BY <3>5, <3>6 DEF Rewritten
    <3> QED
      BY <1>2, <3>7 DEF Tracked
  <2> QED
    BY <2>1, <2>2, <2>3, BinderFrame
<1> QED
  BY <1>3, <1>4 DEF Tracked, r, s

\* One service call dies at a time, and no call is placed then.
LEMMA OneDies ==
    ASSUME Base, NEW w \in Workers, Die(w)
    PROVE  /\ \A v \in Workers : Die(v) => v = w
           /\ \A v \in Workers : ~ (DialFails(v) /\ Placed(v))
<1>1. ASSUME NEW v \in Workers, Die(v), v # w PROVE FALSE
  <2>1. workers'[w] = Idle /\ workers'[w] = workers[w] /\ workers[w].pc # "idle"
    BY <1>1 DEF Die, Crash, IsIdle, Raised, Base, TypeOK
  <2> QED
    BY <2>1 DEF Idle
<1>2. ASSUME NEW v \in Workers, DialFails(v), Placed(v) PROVE FALSE
  <2>1. DOMAIN calls' = DOMAIN calls \cup {Len(calls) + 1}
    BY <1>2, DialledFrom, CallAdded
  <2>2. DOMAIN calls = 1 .. Len(calls) /\ Len(calls) \in Nat /\ calls' = calls
    BY BaseParts, CallNumbers, LenProperties DEF Die, Crash, store, StoreOK
  <2> QED
    BY <2>1, <2>2, SMTT(30)
<1> QED
  BY <1>1, <1>2

\* What is untracked after a step was so before, was in the hands of the service
\* call that died, or was placed by a request that failed.
LEMMA UntrackedNext ==
    ASSUME Base, DrivenInv, [DriverNext]_driverVars
    PROVE  \/ Untracked' \subseteq Untracked
           \/ \E w \in Workers : /\ Die(w) /\ workers[w].pc = "bind"
                              /\ Untracked' \subseteq Untracked \cup {workers[w].call}
           \/ \E w \in Workers : /\ DialFails(w) /\ Placed(w)
                              /\ Untracked' \subseteq Untracked \cup {Len(calls) + 1}
<1> DEFINE Dropped(w, c) == Die(w) /\ workers[w].pc = "bind" /\ workers[w].call = c
           Unheard(w) == DialFails(w) /\ Placed(w)
<1>0. /\ Untracked = {c \in DOMAIN calls : ~ Tracked(c)}
      /\ Untracked' = {c \in DOMAIN calls' : ~ Tracked(c)'}
  BY DEF Untracked, Tracked
<1>1. ASSUME NEW c \in Untracked', c \notin Untracked
      PROVE  \E w \in Workers : Dropped(w, c) \/ (Unheard(w) /\ c = Len(calls) + 1)
  <2>1. CASE c \in DOMAIN calls
    BY <1>0, <1>1, <2>1, TrackedNext
  <2>2. CASE c \notin DOMAIN calls
    <3>1. \A w \in Workers : ~ (workers'[w].pc = "bind" /\ workers'[w].call = c)
      BY DEF Untracked
    <3>2. c \in DOMAIN calls' \ DOMAIN calls
      BY <1>0, <2>2
    <3> QED
      BY <3>1, <3>2, DriverSteps, CallsFrame
  <2> QED
    BY <2>1, <2>2
<1>2. ASSUME NEW w \in Workers, Die(w), NEW c \in Untracked', c \notin Untracked
      PROVE  workers[w].pc = "bind" /\ workers[w].call = c
  BY <1>1, <1>2, OneDies
<1>3. CASE \E w \in Workers : Die(w)
  BY <1>2, <1>3
<1>4. CASE ~ \E w \in Workers : Die(w)
  BY <1>1, <1>4
<1> QED
  BY <1>3, <1>4

-----------------------------------------------------------------------------
(* A call is recorded with one attempt *)

\* The attempts of a step know different calls, all of them accepted ones.
RowCalls(r) ==
    \A s \in CallSteps :
        /\ \A n \in DOMAIN attempts[r][s] :
              attempts[r][s][n].call # NoCall => attempts[r][s][n].call \in DOMAIN calls
        /\ \A n, m \in DOMAIN attempts[r][s] :
              attempts[r][s][n].call = attempts[r][s][m].call
                  /\ attempts[r][s][n].call # NoCall => n = m

\* No attempt of the step knows the call that is about to be recorded.
Fresh(w) ==
    workers[w].pc = "bind" =>
        \A n \in DOMAIN attempts[Job(w)][workers[w].step] :
            attempts[Job(w)][workers[w].step][n].call # workers[w].call

RecordedInv == (\A r \in Runs : RowCalls(r)) /\ \A w \in Workers : Fresh(w)

\* Every call an attempt knows it knew before.
NoCallGained ==
    \A r \in Runs : \A s \in CallSteps : \A n \in DOMAIN attempts'[r][s] :
        attempts'[r][s][n].call # NoCall =>
            /\ n \in DOMAIN attempts[r][s]
            /\ attempts[r][s][n].call = attempts'[r][s][n].call

\* A service call stays as it is, is between two runs, or goes on with advance_run.
LEMMA NewCaller ==
    ASSUME Base, [Next]_vars, NEW v \in Workers
    PROVE  \/ workers'[v] = workers[v]
           \/ workers'[v].pc \in {"idle", "advance"}
           \/ PrepareAttempt(v) \/ Dial(v) \/ DialFails(v)
<1> DEFINE Settled == workers'[v] = workers[v] \/ workers'[v].pc \in {"idle", "advance"}
<1>0. workers \in [Workers -> Worker]
  BY DEF Base, TypeOK
<1>1. ASSUME NEW w \in Workers, NEW x,
             workers' = [workers EXCEPT ![w] = x], x.pc \in {"idle", "advance"}
      PROVE  Settled
  <2>1. CASE v = w
    BY <1>0, <1>1, <2>1
  <2>2. CASE v # w
    BY <1>0, <1>1, <2>2
  <2> QED
    BY <2>1, <2>2
<1>2. ASSUME NEW w \in Workers, NEW q, workers' = [workers EXCEPT ![w] = Advancing(q)]
      PROVE  Settled
  <2>1. Advancing(q).pc \in {"idle", "advance"}
    BY AdvancingHolds
  <2> QED
    BY <1>1, <1>2, <2>1
<1>3. ASSUME NEW w \in Workers, workers' = Advanced(w) \/ workers' = Raised(w)
      PROVE  Settled
  <2>1. CASE workers' = Advanced(w)
    BY <1>2, <2>1 DEF Advanced
  <2>2. CASE workers' = Raised(w)
    BY <1>1, <2>2, AdvancingHolds DEF Raised
  <2> QED
    BY <1>3, <2>1, <2>2
<1>4. ASSUME NEW w \in Workers, AdvanceStep(w)
      PROVE  Settled \/ PrepareAttempt(v) \/ Dial(v) \/ DialFails(v)
  <2>1. CASE Dial(w)
    BY <1>0, <2>1 DEF Dial
  <2>2. CASE PrepareAttempt(w) \/ DialFails(w)
    <3>1. \A u \in Workers \ {w} : workers'[u] = workers[u]
      BY <1>0, <2>2 DEF PrepareAttempt, DialFails
    <3> QED
      BY <2>2, <3>1
  <2>3. CASE \/ PrepareRejected(w) \/ PrepareComplete(w) \/ PrepareWait(w)
             \/ PrepareEventWait(w) \/ PrepareScheduledCall(w) \/ Bind(w)
             \/ BindRejected(w) \/ Unwind(w)
    BY <1>3, <2>3 DEF PrepareRejected, PrepareComplete, PrepareWait, PrepareEventWait,
       PrepareScheduledCall, Bind, BindRejected, Unwind
  <2> QED
    BY <1>4, <2>1, <2>2, <2>3 DEF AdvanceStep, Prepare
<1>5. ASSUME NEW w \in Workers, FireDueTimers(w) PROVE Settled
  BY <1>2, <1>5 DEF FireDueTimers
<1>6. ASSUME NEW w \in Workers, Crash(w) PROVE Settled
  BY <1>3, <1>6 DEF Crash
<1>7. ASSUME NEW w \in Workers, NEW r \in Runs, RequestAdvance(w, r) \/ ResumeRun(w, r)
      PROVE  Settled
  BY <1>2, <1>7 DEF RequestAdvance, ResumeRun
<1>8. ASSUME NEW w \in Workers, NEW e \in Events, IngestMatched(w, e) \/ IngestUnmatched(w, e)
      PROVE  Settled
  BY <1>2, <1>8 DEF IngestMatched, IngestUnmatched
<1>9. ASSUME NEW r \in Runs,
             StartRun(r) \/ CompleteCallActivity(r) \/ CancelRun(r) \/ PauseRun(r)
      PROVE  Settled
  BY <1>9, CompletionFrame DEF StartRun, CancelRun, PauseRun
<1>10. CASE UNCHANGED vars
  BY <1>10 DEF vars
<1> QED
  BY <1>4, <1>5, <1>6, <1>7, <1>8, <1>9, <1>10 DEF Next

\* A service call about to record a call was so before, or has just dialled.
LEMMA NewBinder ==
    ASSUME Base, [Next]_vars, NEW v \in Workers, workers'[v].pc = "bind"
    PROVE  workers'[v] = workers[v] \/ Dial(v)
<1>1. workers \in [Workers -> Worker]
  BY DEF Base, TypeOK
<1>2. PrepareAttempt(v) \/ DialFails(v) => workers'[v].pc # "bind"
  BY <1>1 DEF PrepareAttempt, DialFails, Worker
<1> QED
  BY <1>2, NewCaller

\* One about to dial was so before, or has just created the attempt.
LEMMA NewDialler ==
    ASSUME Base, [Next]_vars, NEW v \in Workers, workers'[v].pc = "dial"
    PROVE  workers'[v] = workers[v] \/ PrepareAttempt(v)
<1>1. workers \in [Workers -> Worker]
  BY DEF Base, TypeOK
<1>2. Dial(v) \/ DialFails(v) => workers'[v].pc # "dial"
  BY <1>1 DEF Dial, DialFails, Worker
<1> QED
  BY <1>2, NewCaller

\* Only recording a call tells an attempt a call.
LEMMA GainedByBind ==
    ASSUME Base, DrivenInv, [Next]_vars
    PROVE  NoCallGained \/ \E w \in Workers : Bind(w)
<1>1. CASE attempts' = attempts
  BY <1>1 DEF NoCallGained
<1>2. ASSUME NEW r \in Runs, NEW s \in CallSteps, Appended(r, s) PROVE NoCallGained
  <2>1. ASSUME NEW q \in Runs, NEW x \in CallSteps, NEW m \in DOMAIN attempts'[q][x],
               attempts'[q][x][m].call # NoCall
        PROVE  m \in DOMAIN attempts[q][x] /\ attempts'[q][x][m] = attempts[q][x][m]
    <3>1. CASE q = r /\ x = s
      BY <1>2, <2>1, <3>1 DEF Appended, NewAttempt
    <3>2. CASE q # r \/ x # s
      BY <1>2, <2>1, <3>2 DEF Appended
    <3> QED
      BY <3>1, <3>2
  <2> QED
    BY <2>1 DEF NoCallGained
<1>3. ASSUME NEW r \in Runs, NEW s \in CallSteps, NEW n \in DOMAIN attempts[r][s],
             NEW row \in AttemptRow, Rewritten(r, s, n, row),
             row.call \in {NoCall, attempts[r][s][n].call}
      PROVE  NoCallGained
  <2>1. ASSUME NEW q \in Runs, NEW x \in CallSteps, NEW m \in DOMAIN attempts'[q][x],
               attempts'[q][x][m].call # NoCall
        PROVE  m \in DOMAIN attempts[q][x] /\ attempts'[q][x][m].call = attempts[q][x][m].call
    <3>1. CASE q = r /\ x = s
      <4>1. /\ m \in DOMAIN attempts[r][s]
            /\ attempts'[r][s][m] = IF m = n THEN row ELSE attempts[r][s][m]
        BY <1>3, <2>1, <3>1 DEF Rewritten
      <4> QED
        BY <1>3, <2>1, <3>1, <4>1
    <3>2. CASE q # r \/ x # s
      BY <1>3, <2>1, <3>2 DEF Rewritten
    <3> QED
      BY <3>1, <3>2
  <2> QED
    BY <2>1 DEF NoCallGained
<1> QED
  BY <1>1, <1>2, <1>3, AttemptsStep

\* advance_run records the call it made with the attempt it made, which is the
\* last of the step, however other service calls interleave.
LEMMA RecordedNext ==
    ASSUME Base, DrivenInv, RecordedInv, [DriverNext]_driverVars
    PROVE  RecordedInv'
<1>0. [Next]_vars /\ CallsKept /\ DOMAIN calls = 1 .. Len(calls)
  BY DriverSteps, CallsFrame, BaseParts, CallNumbers
<1>1. CASE NoCallGained
  <2>1. ASSUME NEW r \in Runs PROVE RowCalls(r)'
    BY <1>0, <1>1 DEF NoCallGained, RecordedInv, RowCalls, CallsKept
  <2>2. ASSUME NEW w \in Workers, workers'[w].pc = "bind" PROVE Fresh(w)'
    <3>1. PICK r \in Runs, s \in CallSteps : r = Job(w)' /\ s = workers'[w].step
      <4>1. Base'
        BY <1>0, BaseNext
      <4>2. workers'[w].queue # <<>> /\ workers'[w].step \in CallSteps
        BY <2>2, <4>1 DEF Base, DialledStepHasAttempt
      <4>3. workers'[w].queue \in Seq(Runs)
        BY <4>1 DEF Base, TypeOK, Worker
      <4> QED
        BY <4>2, <4>3, HeadTailProperties DEF Job
    <3>2. CASE workers'[w] = workers[w]
      <4>1. r = Job(w) /\ s = workers[w].step /\ workers[w].pc = "bind"
        BY <2>2, <3>1, <3>2 DEF Job
      <4>2. workers[w].call # NoCall
        BY <1>0, <4>1 DEF Base, DialledStepHasAttempt, NoCall
      <4>3. \A n \in DOMAIN attempts[r][s] : attempts[r][s][n].call # workers[w].call
        BY <4>1 DEF RecordedInv, Fresh
      <4>4. \A n \in DOMAIN attempts'[r][s] : attempts'[r][s][n].call # workers[w].call
        BY <1>1, <4>2, <4>3 DEF NoCallGained
      <4> QED
        BY <3>1, <3>2, <4>4 DEF Fresh
    <3>3. CASE Dial(w)
      <4>1. workers'[w].call = Len(calls) + 1 /\ Len(calls) \in Nat
        BY <3>3, LenProperties DEF Dial, Base, TypeOK, Worker
      <4>2. \A n \in DOMAIN attempts'[r][s] :
               attempts'[r][s][n].call \in DOMAIN calls \cup {NoCall}
        BY <1>1 DEF NoCallGained, RecordedInv, RowCalls
      <4>3. \A n \in DOMAIN attempts'[r][s] : attempts'[r][s][n].call # workers'[w].call
        BY <1>0, <4>1, <4>2 DEF NoCall
      <4> QED
        BY <3>1, <4>3 DEF Fresh
    <3> QED
      BY <1>0, <2>2, <3>2, <3>3, NewBinder
  <2> QED
    BY <2>1, <2>2 DEF RecordedInv, Fresh
<1>2. ASSUME NEW w \in Workers, Bind(w) PROVE RecordedInv'
  <2>0. calls' = calls /\ workers' = Advanced(w) /\ workers[w].pc = "bind"
    BY <1>2 DEF Bind
  <2>1. PICK r \in Runs, s \in CallSteps : \E n \in DOMAIN attempts[r][s] : \E row \in AttemptRow :
                    /\ r = Job(w) /\ s = workers[w].step
                    /\ Rewritten(r, s, n, row)
                    /\ row.call = workers[w].call
    <3>1. PICK r \in Runs, s \in CallSteps : r = Job(w) /\ s = workers[w].step
      BY <2>0, JobType DEF Base, DialledStepHasAttempt
    <3>2. PICK n \in DOMAIN attempts[r][s] : n = Len(attempts[r][s])
      BY <2>0, <3>1, DialledRow DEF Dials
    <3>3. PICK row \in AttemptRow : row = [status |-> "scheduled", call |-> workers[w].call]
      BY DEF AttemptRow, Base, TypeOK, Worker
    <3>4. attempts' = [attempts EXCEPT ![r][s][n] = row]
      BY <1>2, <3>1, <3>2, <3>3 DEF Bind, AttemptBound
    <3> QED
      BY <3>1, <3>3, <3>4, RowRewritten, ZenonT(60)
  <2>2. PICK n \in DOMAIN attempts[r][s] : \E row \in AttemptRow :
           Rewritten(r, s, n, row) /\ row.call = workers[w].call
    BY <2>1
  <2>3. PICK row \in AttemptRow : Rewritten(r, s, n, row) /\ row.call = workers[w].call
    BY <2>2
  <2>4. r = Job(w) /\ s = workers[w].step
    BY <2>1
  <2>5. /\ workers[w].call \in DOMAIN calls
        /\ \A m \in DOMAIN attempts[r][s] : attempts[r][s][m].call # workers[w].call
    BY <2>0, <2>4 DEF Base, DialledStepHasAttempt, RecordedInv, Fresh
  <2>6. ASSUME NEW q \in Runs PROVE RowCalls(q)'
    <3>1. CASE q # r
      BY <2>0, <2>3, <3>1 DEF Rewritten, RecordedInv, RowCalls
    <3>2. CASE q = r
      <4>1. ASSUME NEW x \in CallSteps \ {s} PROVE attempts'[r][x] = attempts[r][x]
        BY <2>3 DEF Rewritten
      <4>2. /\ DOMAIN attempts'[r][s] = DOMAIN attempts[r][s]
            /\ \A m \in DOMAIN attempts[r][s] : attempts'[r][s][m].call =
                  IF m = n THEN workers[w].call ELSE attempts[r][s][m].call
        BY <2>3 DEF Rewritten
      <4>3. RowCalls(r)
        BY DEF RecordedInv
      <4> QED
        BY <2>0, <2>5, <3>2, <4>1, <4>2, <4>3 DEF RowCalls
    <3> QED
      BY <3>1, <3>2
  <2>7. ASSUME NEW v \in Workers, workers'[v].pc = "bind" PROVE Fresh(v)'
    <3>1. v # w /\ workers'[v] = workers[v] /\ Job(v) # r
      <4>1. v # w => Job(v) # Job(w)
        BY <2>0, <2>7, Released DEF DrivenInv, Dials
      <4>2. /\ \A u \in Workers \ {w} : workers'[u] = workers[u]
            /\ workers'[w].pc # "bind"
        BY <2>0, Released DEF DrivenInv, Dials
      <4> QED
        BY <2>4, <2>7, <4>1, <4>2
    <3>2. PICK q \in Runs \ {r} : q = Job(v) /\ q = Job(v)'
      BY <2>7, <3>1, JobType DEF Job
    <3>3. attempts'[q] = attempts[q]
      BY <2>3 DEF Rewritten
    <3> QED
      BY <3>1, <3>2, <3>3 DEF RecordedInv, Fresh
  <2> QED
    BY <2>6, <2>7 DEF RecordedInv, Fresh
<1> QED
  BY <1>0, <1>1, <1>2, GainedByBind

-----------------------------------------------------------------------------
(* What a step of the driver does to a run *)

\* advance_run touches the rows of its own run only.
LEMMA AdvanceOnly ==
    ASSUME Base, NEW w \in Workers, AdvanceStep(w), NEW r \in Runs, r = Job(w)
    PROVE  Only(r)
<1>1. /\ run \in [Runs -> RunRow] /\ attempts \in [Runs -> [CallSteps -> Seq(AttemptRow)]]
      /\ subs \in [Runs -> [EventSteps -> SubRow]]
  BY DEF Base, TypeOK
<1>2. \A q \in Runs \ {r} : run'[q] = run[q]
  BY <1>1, SMTT(60) DEF AdvanceStep, Prepare, PrepareRejected, PrepareComplete, PrepareWait,
     PrepareEventWait, PrepareScheduledCall, PrepareAttempt, Dial, DialFails, Bind,
     BindRejected, Unwind, store
<1>3. \A q \in Runs \ {r} : attempts'[q] = attempts[q]
  BY <1>1, SMTT(60) DEF AdvanceStep, Prepare, PrepareRejected, PrepareComplete, PrepareWait,
     PrepareEventWait, PrepareScheduledCall, PrepareAttempt, Dial, DialFails, Bind,
     BindRejected, Unwind, store, AttemptCreated, AttemptBound
<1>4. ASSUME NEW q \in Runs \ {r}
      PROVE  subs'[q] = subs[q] /\ \A k \in TimerKeys : k.run = q => timers'[k] = timers[k]
  <2>1. CASE UNCHANGED <<timers, subs>>
    BY <2>1
  <2>2. CASE PrepareWait(w)
    BY <2>2 DEF PrepareWait, Armed, WaitKey
  <2>3. CASE PrepareEventWait(w)
    BY <1>1, <2>3 DEF PrepareEventWait, Armed, TimeoutKey, Subscribed
  <2> QED
    BY <2>1, <2>2, <2>3 DEF AdvanceStep, Prepare, PrepareRejected, PrepareComplete,
       PrepareScheduledCall, PrepareAttempt, Dial, DialFails, Bind, BindRejected, Unwind, store
<1> QED
  BY <1>2, <1>3, <1>4 DEF Only

\* So does a report.
LEMMA ReportOnly ==
    ASSUME Base, NEW r \in Runs, CompleteCallActivity(r)
    PROVE  Only(r)
<1>1. /\ run \in [Runs -> RunRow] /\ attempts \in [Runs -> [CallSteps -> Seq(AttemptRow)]]
      /\ DOMAIN timers = TimerKeys /\ timers = [k \in TimerKeys |-> timers[k]]
  BY DEF Base, TypeOK
<1>2. PICK c \in DOMAIN calls, n \in 1 .. MaxAttemptRows, report \in Reports :
         \/ CompleteCallback(r, c, n, report)
         \/ CompleteRetry(r, c, n, report)
         \/ CompleteFailed(r, c, n, report)
         \/ CompleteMoved(r, c, n, report)
  BY DEF CompleteCallActivity
<1>3. \A q \in Runs \ {r} : run'[q] = run[q] /\ attempts'[q] = attempts[q] /\ subs'[q] = subs[q]
  BY <1>1, <1>2 DEF CompleteCallback, CompleteRetry, CompleteFailed, CompleteMoved,
     AttemptCompleted, Rescheduled, Moved
<1>4. \A q \in Runs \ {r} : \A k \in TimerKeys : k.run = q => timers'[k] = timers[k]
  <2>1. \/ timers' = timers
        \/ \E key : key.run = r /\ timers' = Armed(key)
    BY <1>2 DEF CompleteCallback, CompleteRetry, CompleteFailed, CompleteMoved,
       CallbackKey, RetryKey
  <2>2. ASSUME NEW key, key.run = r, timers' = Armed(key), NEW k \in TimerKeys, k.run # r
        PROVE  timers'[k] = timers[k]
    BY <2>2, <1>1 DEF Armed
  <2> QED
    BY <2>1, <2>2
<1> QED
  BY <1>3, <1>4 DEF Only

\* The rows of a run stay as they are.
Apart(r) ==
    /\ run'[r] = run[r] /\ attempts'[r] = attempts[r] /\ subs'[r] = subs[r]
    /\ \A k \in TimerKeys : k.run = r => timers'[k] = timers[k]

\* The steps the definition lets follow s, a repetition of a call aside.
Branches(s) ==
    CASE Definition[s].kind = "call" ->
             {Definition[s].next, Definition[s].busy, Definition[s].noAnswer,
              Definition[s].failed, Definition[s].callback} \ {NoStep}
      [] OTHER -> Successors(s)

\* A wait and a timeout follow a branch of their step.
LEMMA WakeBranches ==
    ASSUME NEW k \in TimerKeys, WakeStep(k) # NoStep
    PROVE  WakeStep(k) \in Branches(k.step) \/ k.kind \in {"retry", "callback"}
<1>1. CASE k.kind = "wait" \/ k.kind = "timeout"
  <2>1. k.step \in WaitSteps \cup EventSteps
    BY <1>1 DEF TimerKeys
  <2>2. Definition[k.step].kind # "call"
    BY <2>1 DEF WaitSteps, EventSteps
  <2> QED
    BY <2>2, WakeFollows DEF Branches
<1>2. CASE k.kind = "retry" \/ k.kind = "callback"
  BY <1>2
<1> QED
  BY <1>1, <1>2 DEF TimerKeys

\* A branch of a step is one of its successors.
LEMMA BranchFollows == \A s \in Steps : Branches(s) \subseteq Successors(s)
BY DEF Branches, Successors

\* A timer of the run has fired, or an event resumed it.
Woken(r) ==
    /\ run[r].status = "waiting"
    /\ run'[r].status = "running"
    /\ run'[r].step \in Successors(run[r].step)
    /\ \/ run'[r].step \in Branches(run[r].step)
       \/ \E k \in TimerKeys :
             /\ k.run = r /\ k.step = run[r].step /\ k.kind \in {"retry", "callback"}
             /\ timers[k] = "pending" /\ run'[r].step = WakeStep(k)
    /\ attempts' = attempts
    /\ \A k \in TimerKeys : k.run = r /\ timers[k] = "absent" => timers'[k] = "absent"
    /\ \A k \in TimerKeys : k.run = r /\ timers'[k] = "pending" => timers[k] = "pending"
    /\ \A s \in EventSteps : subs[r][s].status = "absent" => subs'[r][s].status = "absent"

\* Every step leaves a run as it is, advances it, reports a call of it, wakes it
\* or starts it.
LEMMA RunFrame ==
    ASSUME Base, DrivenInv, [DriverNext]_driverVars, NEW r \in Runs
    PROVE  \/ Apart(r)
           \/ \E w \in Workers : AdvanceStep(w) /\ r = Job(w) /\ Live(r)
           \/ CompleteCallActivity(r)
           \/ Woken(r)
           \/ StartRun(r)
<1>0. /\ run \in [Runs -> RunRow] /\ subs \in [Runs -> [EventSteps -> SubRow]]
      /\ \A q \in Runs \ {r} : Only(q) => Apart(r)
  BY DEF Base, TypeOK, Only, Apart
<1>1. ASSUME NEW q \in Runs, Begin(q) PROVE Apart(r) \/ StartRun(r)
  BY <1>0, <1>1 DEF Begin, StartRun, Apart
<1>2. ASSUME NEW q \in Runs, Report(q) PROVE Apart(r) \/ CompleteCallActivity(r)
  BY <1>0, <1>2, ReportOnly DEF Report
<1>3. ASSUME NEW w \in Workers, Proceed(w)
      PROVE  Apart(r) \/ \E v \in Workers : AdvanceStep(v) /\ r = Job(v) /\ Live(r)
  <2>1. AdvanceStep(w) /\ workers[w].pc # "idle"
    BY <1>3 DEF Proceed, AdvanceStep, Prepare, PrepareRejected, PrepareComplete, PrepareWait,
       PrepareEventWait, PrepareScheduledCall, PrepareAttempt, Preparing, Dial, DialFails, Bind,
       BindRejected, Unwind
  <2>2. PICK q \in Runs : q = Job(w) /\ Live(q)
    BY <2>1, JobLive DEF DrivenInv
  <2>3. Only(q)
    BY <2>1, <2>2, AdvanceOnly
  <2> QED
    BY <1>0, <2>1, <2>2, <2>3
<1>4. ASSUME NEW w \in Workers, PollTimers(w) PROVE Apart(r) \/ Woken(r)
  <2>1. PICK batch \in SUBSET DueTimers :
           /\ attempts' = attempts
           /\ timers' = [k \in TimerKeys |-> IF k \in batch THEN "fired" ELSE timers[k]]
           /\ subs' = TimedOut(Wakes(batch))
           /\ \E final \in [{k.run : k \in Wakes(batch)} -> Wakes(batch)] :
                /\ \A x \in {k.run : k \in Wakes(batch)} : final[x].run = x
                /\ run' = [x \in Runs |->
                     IF x \in {k.run : k \in Wakes(batch)}
                     THEN [run[x] EXCEPT
                             !.status = "running",
                             !.step = WakeStep(final[x]),
                             !.completed = @ \cup
                                 {k.step : k \in {y \in Wakes(batch) : y.run = x}}]
                     ELSE run[x]]
    BY <1>4, Zenon DEF PollTimers, FireDueTimers
  <2> DEFINE wakes == Wakes(batch)
             woken == {k.run : k \in wakes}
  <2>2. \A k \in batch : /\ k \in TimerKeys /\ timers[k] = "pending" /\ k.run \in Runs
                       /\ WaitsAt(k.run, k.step) /\ WakeStep(k) # NoStep
    <3>1. \A k \in batch : k \in TimerKeys /\ timers[k] = "pending" /\ k.run \in Runs
      BY WakeType DEF DueTimers
    <3> QED
      BY <3>1 DEF DrivenInv, RowsInv
  <2>3. wakes = batch
    BY <2>2 DEF Wakes, Terminated, WaitsAt, TerminalStatuses
  <2>4. CASE r \notin woken
    <3>1. run'[r] = run[r]
      BY <2>1, <2>4
    <3>2. \A k \in TimerKeys : k.run = r => timers'[k] = timers[k]
      BY <2>1, <2>3, <2>4
    <3>3. \A s \in EventSteps : TimeoutKey(r, s) \notin wakes
      BY <2>4 DEF TimeoutKey
    <3>4. /\ subs'[r] = [s \in EventSteps |-> subs[r][s]]
          /\ subs[r] = [s \in EventSteps |-> subs[r][s]]
      BY <1>0, <2>1, <3>3 DEF TimedOut
    <3> QED
      BY <2>1, <3>1, <3>2, <3>4 DEF Apart
  <2>5. CASE r \in woken
    <3>1. PICK final \in [woken -> wakes] :
             /\ \A x \in woken : final[x].run = x
             /\ run' = [x \in Runs |->
                   IF x \in woken
                   THEN [run[x] EXCEPT
                           !.status = "running",
                           !.step = WakeStep(final[x]),
                           !.completed = @ \cup {k.step : k \in {y \in wakes : y.run = x}}]
                   ELSE run[x]]
      BY <2>1, Zenon
    <3>2. final[r] \in batch /\ final[r].run = r
      BY <2>3, <2>5, <3>1
    <3>3. /\ WaitsAt(r, final[r].step) /\ WakeStep(final[r]) \in Successors(final[r].step)
          /\ final[r] \in TimerKeys /\ timers[final[r]] = "pending"
          /\ \/ WakeStep(final[r]) \in Branches(final[r].step)
             \/ final[r].kind \in {"retry", "callback"}
      BY <2>2, <3>2, WakeFollows, WakeBranches
    <3> DEFINE done == {k.step : k \in {y \in wakes : y.run = r}}
               target == WakeStep(final[r])
    <3>4. run'[r] = [run[r] EXCEPT !.status = "running", !.step = target,
                                   !.completed = @ \cup done]
      BY <2>5, <3>1
    <3>5. /\ target \in Successors(run[r].step)
          /\ \/ target \in Branches(run[r].step)
             \/ \E k \in TimerKeys :
                   /\ k.run = r /\ k.step = run[r].step /\ k.kind \in {"retry", "callback"}
                   /\ timers[k] = "pending" /\ target = WakeStep(k)
      BY <3>2, <3>3 DEF WaitsAt
    <3> HIDE DEF done, target
    <3>6. run'[r].status = "running" /\ run'[r].step = target
      BY <1>0, <3>4 DEF RunRow
    <3>7. \A k \in TimerKeys : /\ timers[k] = "absent" => timers'[k] = "absent"
                               /\ timers'[k] = "pending" => timers[k] = "pending"
      BY <2>1, <2>2
    <3>8. \A s \in EventSteps : subs[r][s].status = "absent" => subs'[r][s].status = "absent"
      BY <2>1 DEF TimedOut
    <3>9. attempts' = attempts /\ run[r].status = "waiting"
      BY <2>1, <3>3 DEF WaitsAt
    <3>10. /\ run'[r].step \in Successors(run[r].step)
           /\ \/ run'[r].step \in Branches(run[r].step)
              \/ \E k \in TimerKeys :
                    /\ k.run = r /\ k.step = run[r].step /\ k.kind \in {"retry", "callback"}
                    /\ timers[k] = "pending" /\ run'[r].step = WakeStep(k)
      BY <3>5, <3>6
    <3> QED
      BY <3>6, <3>7, <3>8, <3>9, <3>10, Zenon DEF Woken
  <2> QED
    BY <2>4, <2>5
<1>5. ASSUME NEW w \in Workers, Die(w) PROVE Apart(r)
  BY <1>5 DEF Die, Crash, store, Apart
<1>6. ASSUME NEW w \in Workers, NEW q \in Runs, DriveRun(w, q) PROVE Apart(r)
  BY <1>6 DEF DriveRun, RequestAdvance, store, Apart
<1>7. ASSUME NEW w \in Workers, NEW e \in Events, Receive(w, e) PROVE Apart(r) \/ Woken(r)
  <2>1. CASE IngestUnmatched(w, e)
    BY <2>1 DEF IngestUnmatched, Apart
  <2>2. CASE IngestMatched(w, e)
    <3>1. PICK q \in Runs, s \in EventSteps :
             /\ subs[q][s].status = "pending"
             /\ subs' = [subs EXCEPT ![q][s] = [status |-> "consumed", event |-> e]]
             /\ timers' = TimersCancelled(q)
             /\ run' = [run EXCEPT ![q].status = "running",
                                   ![q].step = Definition[s].next,
                                   ![q].completed = @ \cup {s}]
             /\ attempts' = attempts
      BY <2>2 DEF IngestMatched, Waiting, SubKeys
    <3>2. CASE q # r
      BY <1>0, <3>1, <3>2 DEF Apart, TimersCancelled
    <3>3. CASE q = r
      <4>1. WaitsAt(r, s)
        BY <3>1, <3>3 DEF DrivenInv, RowsInv
      <4>2. run'[r].status = "running" /\ run'[r].step = Definition[s].next
        BY <1>0, <3>1, <3>3 DEF RunRow
      <4>3. Definition[s].next \in Successors(s) /\ Definition[s].next \in Branches(s)
        BY DefinitionAssumption DEF EventSteps, Successors, Branches
      <4>4. \A k \in TimerKeys : /\ timers[k] = "absent" => timers'[k] = "absent"
                                 /\ timers'[k] = "pending" => timers[k] = "pending"
        BY <3>1 DEF TimersCancelled
      <4>5. \A x \in EventSteps : subs[r][x].status = "absent" => subs'[r][x].status = "absent"
        BY <1>0, <3>1
      <4>6. attempts' = attempts
        BY <3>1
      <4>7. /\ run[r].status = "waiting"
            /\ run'[r].step \in Successors(run[r].step) /\ run'[r].step \in Branches(run[r].step)
        BY <4>1, <4>2, <4>3 DEF WaitsAt
      <4> QED
        BY <4>2, <4>4, <4>5, <4>6, <4>7, Zenon DEF Woken
    <3> QED
      BY <3>2, <3>3
  <2> QED
    BY <1>7, <2>1, <2>2 DEF Receive
<1>8. CASE UNCHANGED driverVars
  BY <1>8 DEF driverVars, vars, Apart
<1> QED
  BY <1>1, <1>2, <1>3, <1>4, <1>5, <1>6, <1>7, <1>8 DEF DriverNext

\* advance_run leaves its run at the step it stands on, and where it makes the run
\* wait it arms the wake-up of that step.
LEMMA AdvancedRow ==
    ASSUME Base, NEW w \in Workers, AdvanceStep(w), NEW r \in Runs, r = Job(w), Live(r)
    PROVE  /\ run'[r].step = run[r].step
           /\ \/ /\ PrepareWait(w)
                 /\ run[r].step \in WaitSteps
                 /\ timers' = Armed(WaitKey(r, run[r].step))
                 /\ UNCHANGED <<attempts, subs>>
                 /\ run'[r].status = "waiting"
              \/ /\ PrepareEventWait(w)
                 /\ run[r].step \in EventSteps
                 /\ timers' = timers \/ timers' = Armed(TimeoutKey(r, run[r].step))
                 /\ subs' = Subscribed(r, run[r].step)
                 /\ attempts' = attempts
                 /\ run'[r].status = "waiting"
              \/ Bind(w) /\ UNCHANGED <<timers, subs>> /\ run'[r].status = "waiting"
              \/ run'[r].status # "waiting" /\ UNCHANGED <<timers, subs>>
<1>1. run \in [Runs -> RunRow] /\ run[r].step \in Steps
  BY DEF Base, TypeOK, RunRow
<1>2. CASE UNCHANGED store
  BY <1>2 DEF store, Live
<1>3. ASSUME PrepareComplete(w) \/ PrepareScheduledCall(w) \/ PrepareAttempt(w)
      PROVE  /\ run'[r].step = run[r].step /\ run'[r].status # "waiting"
             /\ UNCHANGED <<timers, subs>>
  BY <1>1, <1>3 DEF PrepareComplete, PrepareScheduledCall, PrepareAttempt, Begun, Live, RunRow
<1>4. CASE PrepareWait(w)
  BY <1>1, <1>4 DEF PrepareWait, Step, WaitSteps, RunRow
<1>5. CASE PrepareEventWait(w)
  <2>1. run'[r].step = run[r].step /\ run'[r].status = "waiting"
    BY <1>1, <1>5 DEF PrepareEventWait, RunRow
  <2> QED
    BY <1>1, <1>5, <2>1 DEF PrepareEventWait, Step, EventSteps
<1>6. CASE Dial(w) \/ DialFails(w) \/ BindRejected(w)
  BY <1>6 DEF Dial, DialFails, BindRejected, store, Live
<1>7. CASE Bind(w)
  BY <1>1, <1>7 DEF Bind, RunRow
<1>8. ASSUME Unwind(w)
      PROVE  /\ run'[r].step = run[r].step /\ run'[r].status # "waiting"
             /\ UNCHANGED <<timers, subs>>
  BY <1>1, <1>8 DEF Unwind, Live, RunRow
<1> QED
  BY <1>2, <1>3, <1>4, <1>5, <1>6, <1>7, <1>8 DEF AdvanceStep, Prepare, PrepareRejected

\* The report of a call completes the attempt that recorded it; it arms a wake-up
\* named by that attempt or that call, ends the run or moves it on.
LEMMA ReportedRow ==
    ASSUME Base, NEW r \in Runs, CompleteCallActivity(r)
    PROVE  \E c \in CallIds : \E s \in CallSteps : \E n \in DOMAIN attempts[r][s] :
             \E row \in AttemptRow :
              /\ s = run[r].step
              /\ n \in 1 .. MaxAttemptRows
              /\ attempts[r][s][n].status = "scheduled" /\ attempts[r][s][n].call = c
              /\ row = [status |-> "completed", call |-> c]
              /\ Rewritten(r, s, n, row)
              /\ subs' = subs
              /\ \/ /\ run'[r].step = s /\ run'[r].status = "failed"
                    /\ timers' = timers
                 \/ /\ run'[r].step \in Branches(s) /\ run'[r].status # "waiting"
                    /\ timers' = timers
                 \/ /\ run'[r].step = s /\ run'[r].status = "waiting"
                    /\ \/ /\ n < Definition[s].maxAttempts
                          /\ timers' = Armed(RetryKey(r, s, n))
                       \/ /\ "callback" \in Reports
                          /\ timers' = Armed(CallbackKey(r, s, c))
<1>1. PICK c \in DOMAIN calls, n \in 1 .. MaxAttemptRows, report \in Reports :
         /\ Completing(r, c, n)
         /\ \/ CompleteCallback(r, c, n, report)
            \/ CompleteRetry(r, c, n, report)
            \/ CompleteFailed(r, c, n, report)
            \/ CompleteMoved(r, c, n, report)
  BY DEF CompleteCallActivity
<1>2. run \in [Runs -> RunRow] /\ run[r].step \in Steps /\ c \in CallIds
  BY <1>1, BaseParts, CallNumbers DEF Base, TypeOK, RunRow
<1>3. PICK s \in CallSteps : s = run[r].step
  BY <1>1, <1>2 DEF Completing, Step, CallSteps
<1>4. /\ n \in DOMAIN attempts[r][s] /\ attempts[r][s][n].status = "scheduled"
      /\ attempts[r][s][n].call = c
  BY <1>1, <1>3 DEF Completing, IsScheduledAttempt
<1>5. attempts[r][s][n] \in AttemptRow
  BY <1>4, BaseParts, RowNumbers
<1>6. PICK row \in AttemptRow : row = [status |-> "completed", call |-> c]
  BY <1>2 DEF AttemptRow
<1>7. Rewritten(r, s, n, row)
  <2>1. [attempts[r][s][n] EXCEPT !.status = "completed"] = row
    BY <1>4, <1>5, <1>6 DEF AttemptRow
  <2>2. attempts' = [attempts EXCEPT ![r][s][n] = row]
    BY <1>1, <1>3, <2>1 DEF AttemptCompleted, CompleteCallback, CompleteRetry, CompleteFailed,
       CompleteMoved
  <2> QED
    BY <1>4, <2>2, RowRewritten
<1>8. subs' = subs
  BY <1>1 DEF CompleteCallback, CompleteRetry, CompleteFailed, CompleteMoved
<1>9. \/ /\ run'[r].step = s /\ run'[r].status = "failed"
         /\ timers' = timers
      \/ /\ run'[r].step \in Branches(s) /\ run'[r].status # "waiting"
         /\ timers' = timers
      \/ /\ run'[r].step = s /\ run'[r].status = "waiting"
         /\ \/ n < Definition[s].maxAttempts /\ timers' = Armed(RetryKey(r, s, n))
            \/ "callback" \in Reports /\ timers' = Armed(CallbackKey(r, s, c))
  <2>1. CASE CompleteFailed(r, c, n, report)
    BY <1>2, <1>3, <2>1 DEF CompleteFailed, RunRow
  <2>2. CASE CompleteMoved(r, c, n, report)
    <3>1. NextStepForCallStatus(s, report) \in Branches(s)
      BY <1>3, <2>2 DEF CompleteMoved, HasBranch, NextStepForCallStatus, Branches, CallSteps
    <3>2. /\ run'[r].step = NextStepForCallStatus(s, report)
          /\ run'[r].status # "waiting"
      BY <1>2, <1>3, <2>2 DEF CompleteMoved, Moved, RunRow
    <3> QED
      BY <2>2, <3>1, <3>2 DEF CompleteMoved
  <2>3. CASE CompleteCallback(r, c, n, report) \/ CompleteRetry(r, c, n, report)
    <3>1. run'[r].step = s /\ run'[r].status = "waiting"
      BY <1>2, <1>3, <2>3 DEF CompleteCallback, CompleteRetry, Rescheduled, RunRow
    <3> QED
      BY <1>3, <2>3, <3>1 DEF CompleteCallback, CompleteRetry, RetryDue
  <2> QED
    BY <1>1, <2>1, <2>2, <2>3
<1> QED
  BY <1>2, <1>3, <1>4, <1>6, <1>7, <1>8, <1>9, Zenon

-----------------------------------------------------------------------------
(* A waiting run has what will wake it *)

\* No cycle of the definition goes through a wait or an event wait: the steps can
\* be ranked so that no branch leads down, and one that leaves a wait leads up.
NoWaitTwice(rank) ==
    /\ rank \in [Steps -> Nat]
    /\ \A s \in Steps : \A next \in Successors(s) :
          /\ rank[s] <= rank[next]
          /\ s \in WaitSteps \cup EventSteps => rank[s] < rank[next]

\* The run has not waited at its step yet.
Early(r) == run[r].status \in {"absent", "pending", "running"}

\* The run has not waited at step s yet.
Ahead(rank, r, s) ==
    rank[run[r].step] <= rank[s] /\ (s = run[r].step => Early(r))

\* What a wait will create is not there yet.
AheadInv(rank, r) ==
    /\ \A s \in WaitSteps : Ahead(rank, r, s) => timers[WaitKey(r, s)] = "absent"
    /\ \A s \in EventSteps : Ahead(rank, r, s) => subs[r][s].status = "absent"

\* A run that stays at its step or follows a branch never comes to have a wait
\* ahead that it had not.
LEMMA AheadShrinks ==
    ASSUME NEW rank, NoWaitTwice(rank), Base, NEW r \in Runs,
           NEW s \in WaitSteps \cup EventSteps,
           \/ run'[r].step = run[r].step /\ (Early(r)' => Early(r))
           \/ run'[r].step \in Successors(run[r].step),
           Ahead(rank, r, s)'
    PROVE  Ahead(rank, r, s)
<1>1. run[r].step \in Steps /\ s \in Steps
  BY DefinitionType DEF Base, TypeOK, RunRow
<1>2. CASE run'[r].step = run[r].step /\ (Early(r)' => Early(r))
  BY <1>2 DEF Ahead
<1>3. CASE run'[r].step \in Successors(run[r].step)
  <2>1. run'[r].step \in Steps
    BY <1>1, <1>3, SuccessorType
  <2>2. /\ rank[run[r].step] \in Nat /\ rank[s] \in Nat /\ rank[run'[r].step] \in Nat
        /\ rank[run[r].step] <= rank[run'[r].step]
        /\ s = run[r].step => rank[s] < rank[run'[r].step]
    BY <1>1, <1>3, <2>1 DEF NoWaitTwice
  <2>3. rank[run'[r].step] <= rank[s]
    BY DEF Ahead
  <2>4. rank[run[r].step] <= rank[s] /\ s # run[r].step
    BY <2>2, <2>3
  <2> QED
    BY <2>4 DEF Ahead
<1> QED
  BY <1>2, <1>3

\* Waits ahead stay untouched: a wait is armed when the run stands at it, and is
\* not ahead any more.
LEMMA AheadNext ==
    ASSUME NEW rank, NoWaitTwice(rank), Base, DrivenInv, [DriverNext]_driverVars,
           NEW r \in Runs, AheadInv(rank, r)
    PROVE  AheadInv(rank, r)'
<1>1. timers \in TimerRows /\ run \in [Runs -> RunRow]
  BY DEF Base, TypeOK, TimerRows
<1>2. ASSUME \/ run'[r].step = run[r].step /\ (Early(r)' => Early(r))
             \/ run'[r].step \in Successors(run[r].step),
             \A s \in WaitSteps : timers[WaitKey(r, s)] = "absent" =>
                timers'[WaitKey(r, s)] = "absent" \/ ~ Ahead(rank, r, s)',
             \A s \in EventSteps : subs[r][s].status = "absent" =>
                subs'[r][s].status = "absent" \/ ~ Ahead(rank, r, s)'
      PROVE  AheadInv(rank, r)'
  <2>1. ASSUME NEW s \in WaitSteps, Ahead(rank, r, s)'
        PROVE  timers'[WaitKey(r, s)] = "absent"
    BY <1>2, <2>1, AheadShrinks DEF AheadInv
  <2>2. ASSUME NEW s \in EventSteps, Ahead(rank, r, s)'
        PROVE  subs'[r][s].status = "absent"
    BY <1>2, <2>2, AheadShrinks DEF AheadInv
  <2> QED
    BY <2>1, <2>2 DEF AheadInv, WaitKey
<1>3. CASE Apart(r)
  <2>1. \A s \in WaitSteps : timers'[WaitKey(r, s)] = timers[WaitKey(r, s)]
    BY <1>3, KeyType DEF Apart, WaitKey
  <2> QED
    BY <1>2, <1>3, <2>1 DEF Apart, Early
<1>4. ASSUME NEW w \in Workers, AdvanceStep(w), r = Job(w), Live(r) PROVE AheadInv(rank, r)'
  <2>1. run'[r].step = run[r].step /\ Early(r)
    BY <1>4, AdvancedRow DEF Live, Early
  <2>2. CASE UNCHANGED <<timers, subs>>
    BY <1>2, <2>1, <2>2
  <2>3. ASSUME NEW s, s = run[r].step, run'[r].status = "waiting"
        PROVE  ~ Ahead(rank, r, s)'
    BY <2>1, <2>3 DEF Ahead, Early
  <2>4. ASSUME timers' = Armed(WaitKey(r, run[r].step)), subs' = subs,
               run'[r].status = "waiting"
        PROVE  AheadInv(rank, r)'
    <3>1. ASSUME NEW s \in WaitSteps, timers[WaitKey(r, s)] = "absent"
          PROVE  timers'[WaitKey(r, s)] = "absent" \/ ~ Ahead(rank, r, s)'
      <4>1. CASE s = run[r].step
        BY <2>3, <2>4, <4>1
      <4>2. CASE s # run[r].step
        <5>1. WaitKey(r, s) # WaitKey(r, run[r].step) /\ WaitKey(r, s) \in TimerKeys
          BY <4>2, KeyType DEF WaitKey
        <5> QED
          BY <1>1, <2>4, <3>1, <5>1 DEF Armed, TimerRows
      <4> QED
        BY <4>1, <4>2
    <3> QED
      BY <1>2, <2>1, <2>4, <3>1
  <2>5. ASSUME timers' = timers \/ timers' = Armed(TimeoutKey(r, run[r].step)),
               subs' = Subscribed(r, run[r].step), run'[r].status = "waiting"
        PROVE  AheadInv(rank, r)'
    <3>1. ASSUME NEW s \in WaitSteps, timers[WaitKey(r, s)] = "absent"
          PROVE  timers'[WaitKey(r, s)] = "absent"
      <4>1. WaitKey(r, s) # TimeoutKey(r, run[r].step) /\ WaitKey(r, s) \in TimerKeys
        BY KeyType DEF WaitKey, TimeoutKey
      <4> QED
        BY <1>1, <2>5, <3>1, <4>1 DEF Armed, TimerRows
    <3>2. ASSUME NEW s \in EventSteps, subs[r][s].status = "absent"
          PROVE  subs'[r][s].status = "absent" \/ ~ Ahead(rank, r, s)'
      <4>1. CASE s = run[r].step
        BY <2>3, <2>5, <4>1
      <4>2. CASE s # run[r].step
        <5>1. subs \in [Runs -> [EventSteps -> SubRow]]
          BY DEF Base, TypeOK
        <5> QED
          BY <2>5, <3>2, <4>2, <5>1 DEF Subscribed
      <4> QED
        BY <4>1, <4>2
    <3> QED
      BY <1>2, <2>1, <2>5, <3>1, <3>2
  <2> QED
    BY <1>4, <2>2, <2>4, <2>5, AdvancedRow
<1>5. CASE CompleteCallActivity(r)
  <2>1. PICK c \in CallIds, s \in CallSteps, n \in 1 .. MaxAttemptRows :
           /\ s = run[r].step
           /\ subs' = subs
           /\ \/ /\ run'[r].step = s /\ run'[r].status \in {"failed", "waiting"}
              \/ run'[r].step \in Branches(s)
           /\ \/ timers' = timers
              \/ \E k \in {RetryKey(r, s, n), CallbackKey(r, s, c)} : timers' = Armed(k)
    BY <1>5, ReportedRow
  <2>2. \A x \in WaitSteps : timers[WaitKey(r, x)] = "absent" => timers'[WaitKey(r, x)] = "absent"
    <3>1. \A x \in WaitSteps : /\ WaitKey(r, x) \in TimerKeys
                               /\ WaitKey(r, x) # RetryKey(r, s, n)
                               /\ WaitKey(r, x) # CallbackKey(r, s, c)
      BY KeyType DEF WaitKey, RetryKey, CallbackKey
    <3> QED
      BY <1>1, <2>1, <3>1 DEF Armed, TimerRows
  <2> QED
    BY <1>2, <2>1, <2>2, BranchFollows, DefinitionType DEF Early
<1>6. CASE Woken(r)
  <2>1. \A s \in WaitSteps : timers[WaitKey(r, s)] = "absent" => timers'[WaitKey(r, s)] = "absent"
    BY <1>6, KeyType DEF Woken, WaitKey
  <2> QED
    BY <1>2, <1>6, <2>1 DEF Woken
<1>7. CASE StartRun(r)
  <2>1. run'[r].step = run[r].step /\ Early(r) /\ UNCHANGED <<timers, subs>>
    BY <1>1, <1>7 DEF StartRun, Started, Early, RunRow
  <2> QED
    BY <1>2, <2>1
<1> QED
  BY <1>3, <1>4, <1>5, <1>6, <1>7, RunFrame

\* The attempt that a retry or callback key names was reported.
Retried(r, s, n) ==
    n \in DOMAIN attempts[r][s] /\ attempts[r][s][n].status = "completed"

CalledBack(r, s, c) ==
    \E n \in DOMAIN attempts[r][s] :
        attempts[r][s][n].status = "completed" /\ attempts[r][s][n].call = c

\* Retries and callbacks are armed for attempts that were reported.
ReportedInv(r) ==
    \A s \in CallSteps :
        /\ \A n \in 1 .. MaxAttemptRows :
              timers[RetryKey(r, s, n)] # "absent" => Retried(r, s, n)
        /\ \A c \in CallIds :
              timers[CallbackKey(r, s, c)] # "absent" => CalledBack(r, s, c)

\* An attempt that was reported stays as it is.
LEMMA CompletedStay ==
    ASSUME Base, DrivenInv, [Next]_vars, NEW q \in Runs, NEW x \in CallSteps,
           NEW m \in DOMAIN attempts[q][x], attempts[q][x][m].status = "completed"
    PROVE  m \in DOMAIN attempts'[q][x] /\ attempts'[q][x][m] = attempts[q][x][m]
<1>1. CASE attempts' = attempts
  BY <1>1
<1>2. ASSUME NEW r \in Runs, NEW s \in CallSteps, Appended(r, s)
      PROVE  m \in DOMAIN attempts'[q][x] /\ attempts'[q][x][m] = attempts[q][x][m]
  <2>1. CASE q = r /\ x = s
    BY <1>2, <2>1 DEF Appended
  <2>2. CASE q # r \/ x # s
    BY <1>2, <2>2 DEF Appended
  <2> QED
    BY <2>1, <2>2
<1>3. ASSUME NEW r \in Runs, NEW s \in CallSteps, NEW n \in DOMAIN attempts[r][s],
             NEW row \in AttemptRow, Rewritten(r, s, n, row),
             attempts[r][s][n] = NewAttempt \/ attempts[r][s][n].status = "scheduled"
      PROVE  m \in DOMAIN attempts'[q][x] /\ attempts'[q][x][m] = attempts[q][x][m]
  <2>1. CASE q = r /\ x = s
    <3>1. m # n
      BY <1>3, <2>1 DEF NewAttempt
    <3> QED
      BY <1>3, <2>1, <3>1 DEF Rewritten
  <2>2. CASE q # r \/ x # s
    BY <1>3, <2>2 DEF Rewritten
  <2> QED
    BY <2>1, <2>2
<1> QED
  BY <1>1, <1>2, <1>3, AttemptsStep

\* A retry or callback is armed by the report of the call it is named after.
LEMMA ReportedNext ==
    ASSUME Base, DrivenInv, [DriverNext]_driverVars, NEW r \in Runs, ReportedInv(r)
    PROVE  ReportedInv(r)'
<1>1. timers \in TimerRows
  BY DEF Base, TypeOK, TimerRows
<1>2. [Next]_vars
  BY DriverSteps
<1>3. ASSUME \A s \in CallSteps :
                /\ \A n \in 1 .. MaxAttemptRows : timers[RetryKey(r, s, n)] = "absent" =>
                      timers'[RetryKey(r, s, n)] = "absent" \/ Retried(r, s, n)'
                /\ \A c \in CallIds : timers[CallbackKey(r, s, c)] = "absent" =>
                      timers'[CallbackKey(r, s, c)] = "absent" \/ CalledBack(r, s, c)'
      PROVE  ReportedInv(r)'
  <2>1. ASSUME NEW s \in CallSteps, NEW n \in 1 .. MaxAttemptRows,
               timers'[RetryKey(r, s, n)] # "absent"
        PROVE  Retried(r, s, n)'
    <3>1. CASE timers[RetryKey(r, s, n)] = "absent"
      BY <1>3, <2>1, <3>1
    <3>2. CASE timers[RetryKey(r, s, n)] # "absent"
      BY <1>2, <3>2, CompletedStay DEF ReportedInv, Retried
    <3> QED
      BY <3>1, <3>2
  <2>2. ASSUME NEW s \in CallSteps, NEW c \in CallIds,
               timers'[CallbackKey(r, s, c)] # "absent"
        PROVE  CalledBack(r, s, c)'
    <3>1. CASE timers[CallbackKey(r, s, c)] = "absent"
      BY <1>3, <2>2, <3>1
    <3>2. CASE timers[CallbackKey(r, s, c)] # "absent"
      <4>1. PICK n \in DOMAIN attempts[r][s] :
               attempts[r][s][n].status = "completed" /\ attempts[r][s][n].call = c
        BY <3>2 DEF ReportedInv, CalledBack
      <4>2. n \in DOMAIN attempts'[r][s] /\ attempts'[r][s][n] = attempts[r][s][n]
        BY <1>2, <4>1, CompletedStay
      <4> QED
        BY <4>1, <4>2 DEF CalledBack
    <3> QED
      BY <3>1, <3>2
  <2> QED
    BY <2>1, <2>2 DEF ReportedInv, RetryKey, CallbackKey
<1>4. ASSUME \A k \in TimerKeys :
                k.run = r /\ k.kind \in {"retry", "callback"} /\ timers[k] = "absent" =>
                    timers'[k] = "absent"
      PROVE  ReportedInv(r)'
  <2>1. \A s \in CallSteps : \A n \in 1 .. MaxAttemptRows :
           timers[RetryKey(r, s, n)] = "absent" => timers'[RetryKey(r, s, n)] = "absent"
    BY <1>4, KeyType DEF RetryKey
  <2>2. \A s \in CallSteps : \A c \in CallIds :
           timers[CallbackKey(r, s, c)] = "absent" => timers'[CallbackKey(r, s, c)] = "absent"
    BY <1>4, KeyType DEF CallbackKey
  <2> QED
    BY <1>3, <2>1, <2>2
<1>5. CASE Apart(r) \/ Woken(r)
  BY <1>4, <1>5 DEF Apart, Woken
<1>6. ASSUME NEW w \in Workers, AdvanceStep(w), r = Job(w), Live(r) PROVE ReportedInv(r)'
  <2>1. \/ timers' = timers
        \/ timers' = Armed(WaitKey(r, run[r].step))
        \/ timers' = Armed(TimeoutKey(r, run[r].step))
    BY <1>6, AdvancedRow
  <2>2. \A k \in TimerKeys : k.kind \in {"retry", "callback"} =>
           k # WaitKey(r, run[r].step) /\ k # TimeoutKey(r, run[r].step)
    BY DEF WaitKey, TimeoutKey
  <2>3. \A k \in TimerKeys : k.kind \in {"retry", "callback"} => timers'[k] = timers[k]
    BY <1>1, <2>1, <2>2 DEF Armed, TimerRows
  <2> QED
    BY <1>4, <2>3
<1>7. CASE CompleteCallActivity(r)
  <2>1. PICK c \in CallIds, s \in CallSteps :
           \E n \in DOMAIN attempts[r][s] : \E row \in AttemptRow :
              /\ row = [status |-> "completed", call |-> c]
              /\ Rewritten(r, s, n, row)
              /\ \/ timers' = timers
                 \/ \E k \in {RetryKey(r, s, n), CallbackKey(r, s, c)} : timers' = Armed(k)
    BY <1>7, ReportedRow
  <2>2. PICK n \in DOMAIN attempts[r][s] : \E row \in AttemptRow :
              /\ row = [status |-> "completed", call |-> c]
              /\ Rewritten(r, s, n, row)
              /\ \/ timers' = timers
                 \/ \E k \in {RetryKey(r, s, n), CallbackKey(r, s, c)} : timers' = Armed(k)
    BY <2>1
  <2>3. /\ n \in DOMAIN attempts'[r][s]
        /\ attempts'[r][s][n].status = "completed" /\ attempts'[r][s][n].call = c
    BY <2>2 DEF Rewritten
  <2>4. Retried(r, s, n)' /\ CalledBack(r, s, c)'
    BY <2>3 DEF Retried, CalledBack
  <2>5. ASSUME NEW k \in TimerKeys, timers[k] = "absent",
               k # RetryKey(r, s, n), k # CallbackKey(r, s, c)
        PROVE  timers'[k] = "absent"
    BY <1>1, <2>2, <2>5 DEF Armed, TimerRows
  <2>6. ASSUME NEW x \in CallSteps, NEW m \in 1 .. MaxAttemptRows,
               timers[RetryKey(r, x, m)] = "absent"
        PROVE  timers'[RetryKey(r, x, m)] = "absent" \/ Retried(r, x, m)'
    <3>1. CASE x = s /\ m = n
      BY <2>4, <3>1
    <3>2. CASE ~ (x = s /\ m = n)
      <4>1. /\ RetryKey(r, x, m) \in TimerKeys
            /\ RetryKey(r, x, m) # RetryKey(r, s, n) /\ RetryKey(r, x, m) # CallbackKey(r, s, c)
        BY <3>2, KeyType DEF RetryKey, CallbackKey
      <4> QED
        BY <2>5, <2>6, <4>1
    <3> QED
      BY <3>1, <3>2
  <2>7. ASSUME NEW x \in CallSteps, NEW d \in CallIds,
               timers[CallbackKey(r, x, d)] = "absent"
        PROVE  timers'[CallbackKey(r, x, d)] = "absent" \/ CalledBack(r, x, d)'
    <3>1. CASE x = s /\ d = c
      BY <2>4, <3>1
    <3>2. CASE ~ (x = s /\ d = c)
      <4>1. /\ CallbackKey(r, x, d) \in TimerKeys
            /\ CallbackKey(r, x, d) # RetryKey(r, s, n)
            /\ CallbackKey(r, x, d) # CallbackKey(r, s, c)
        BY <3>2, KeyType DEF RetryKey, CallbackKey
      <4> QED
        BY <2>5, <2>7, <4>1
    <3> QED
      BY <3>1, <3>2
  <2> QED
    BY <1>3, <2>6, <2>7
<1>8. CASE StartRun(r)
  BY <1>4, <1>8, SMTT(60) DEF StartRun
<1> QED
  BY <1>5, <1>6, <1>7, <1>8, RunFrame

\* What WaitingRunHasWaker asks of one run.
HasWaker(r) ==
    run[r].status = "waiting" =>
        LET s == run[r].step IN
        \/ s \in EventSteps /\ subs[r][s].status = "pending"
        \/ s \in WaitSteps /\ timers[WaitKey(r, s)] = "pending"
        \/ s \in CallSteps /\
             \/ \E n \in DOMAIN attempts[r][s] : attempts[r][s][n].status = "scheduled"
             \/ \E k \in TimerKeys :
                   /\ k.run = r /\ k.step = s
                   /\ k.kind \in {"retry", "callback"}
                   /\ timers[k] = "pending"

\* A run that stays as it is keeps what will wake it.
LEMMA WakerKept ==
    ASSUME NEW r \in Runs, HasWaker(r), Apart(r)
    PROVE  HasWaker(r)'
<1> SUFFICES ASSUME run[r].status = "waiting" PROVE HasWaker(r)'
  BY DEF Apart, HasWaker
<1> DEFINE s == run[r].step
<1>1. run'[r] = run[r] /\ attempts'[r] = attempts[r] /\ subs'[r] = subs[r]
  BY SMTT(30) DEF Apart
<1>2. CASE s \in WaitSteps /\ timers[WaitKey(r, s)] = "pending"
  <2>1. timers'[WaitKey(r, s)] = "pending"
    BY <1>2, KeyType DEF Apart, WaitKey
  <2> QED
    BY <1>1, <1>2, <2>1 DEF HasWaker, WaitKey
<1>3. ASSUME NEW k \in TimerKeys, k.run = r, k.step = s, s \in CallSteps,
             k.kind \in {"retry", "callback"}, timers[k] = "pending"
      PROVE  HasWaker(r)'
  <2>1. timers'[k] = "pending"
    BY <1>3 DEF Apart
  <2> QED
    BY <1>1, <1>3, <2>1 DEF HasWaker
<1>4. CASE s \in EventSteps /\ subs[r][s].status = "pending"
  BY <1>1, <1>4 DEF HasWaker
<1>5. CASE /\ s \in CallSteps
           /\ \E n \in DOMAIN attempts[r][s] : attempts[r][s][n].status = "scheduled"
  BY <1>1, <1>5 DEF HasWaker
<1> QED
  BY <1>2, <1>3, <1>4, <1>5, ZenonT(60) DEF HasWaker

\* A run that comes to wait has what will wake it: the idempotency key of the
\* wake-up was not used before.
LEMMA WakerNext ==
    ASSUME NEW rank, NoWaitTwice(rank), Base, DrivenInv, [DriverNext]_driverVars,
           NEW r \in Runs, AheadInv(rank, r), ReportedInv(r), RowCalls(r), HasWaker(r)
    PROVE  HasWaker(r)'
<1>1. /\ timers \in TimerRows /\ run \in [Runs -> RunRow] /\ run[r].step \in Steps
      /\ subs \in [Runs -> [EventSteps -> SubRow]]
  BY DEF Base, TypeOK, TimerRows, RunRow
<1>2. CASE run'[r].status # "waiting"
  BY <1>2 DEF HasWaker
<1>3. CASE Apart(r)
  BY <1>3, WakerKept
<1>4. ASSUME NEW w \in Workers, AdvanceStep(w), r = Job(w), Live(r) PROVE HasWaker(r)'
  <2>1. run'[r].step = run[r].step
    BY <1>4, AdvancedRow
  <2>2. Ahead(rank, r, run[r].step)
    BY <1>1, <1>4 DEF Ahead, Early, Live, NoWaitTwice
  <2>3. ASSUME run[r].step \in WaitSteps, timers' = Armed(WaitKey(r, run[r].step))
        PROVE  HasWaker(r)'
    <3>1. timers[WaitKey(r, run[r].step)] = "absent" /\ WaitKey(r, run[r].step) \in TimerKeys
      BY <2>2, <2>3, KeyType DEF AheadInv
    <3>2. timers'[WaitKey(r, run[r].step)] = "pending"
      BY <1>1, <2>3, <3>1 DEF Armed, TimerRows
    <3> QED
      BY <2>1, <2>3, <3>2 DEF HasWaker, WaitKey
  <2>4. ASSUME run[r].step \in EventSteps, subs' = Subscribed(r, run[r].step)
        PROVE  HasWaker(r)'
    <3>1. subs[r][run[r].step].status = "absent"
      BY <2>2, <2>4 DEF AheadInv
    <3>2. subs'[r][run[r].step].status = "pending"
      BY <1>1, <2>4, <3>1 DEF Subscribed
    <3> QED
      BY <2>1, <2>4, <3>2 DEF HasWaker
  <2>5. CASE Bind(w)
    <3>1. Dials(w)
      BY <2>5 DEF Bind, Dials
    <3>2. PICK s \in CallSteps : \E n \in DOMAIN attempts[r][s] :
             s = workers[w].step /\ n = Len(attempts[r][s])
      BY <1>4, <3>1, DialledRow
    <3>3. PICK n \in DOMAIN attempts[r][s] : n = Len(attempts[r][s])
      BY <3>2
    <3>4. PICK row \in AttemptRow :
             row = [status |-> "scheduled", call |-> workers[w].call]
      BY DEF AttemptRow, Base, TypeOK, Worker
    <3>5. attempts' = [attempts EXCEPT ![r][s][n] = row]
      BY <1>4, <2>5, <3>2, <3>3, <3>4 DEF Bind, AttemptBound
    <3>6. Rewritten(r, s, n, row)
      BY <3>5, RowRewritten
    <3>7. n \in DOMAIN attempts'[r][s] /\ attempts'[r][s][n].status = "scheduled"
      BY <3>4, <3>6 DEF Rewritten
    <3>8. run[r].step = s
      BY <1>4, <3>1, <3>2 DEF DrivenInv, DialInv
    <3> QED
      BY <2>1, <3>7, <3>8 DEF HasWaker
  <2> QED
    BY <1>2, <1>4, <2>3, <2>4, <2>5, AdvancedRow
<1>5. CASE CompleteCallActivity(r)
  <2>1. PICK c \in CallIds, s \in CallSteps :
           \E n \in DOMAIN attempts[r][s] :
              /\ n \in 1 .. MaxAttemptRows
              /\ attempts[r][s][n].status = "scheduled" /\ attempts[r][s][n].call = c
              /\ \/ run'[r].status # "waiting"
                 \/ /\ run'[r].step = s
                    /\ \E k \in {RetryKey(r, s, n), CallbackKey(r, s, c)} : timers' = Armed(k)
    BY <1>5, ReportedRow
  <2>2. PICK n \in DOMAIN attempts[r][s] :
              /\ n \in 1 .. MaxAttemptRows
              /\ attempts[r][s][n].status = "scheduled" /\ attempts[r][s][n].call = c
              /\ \/ run'[r].status # "waiting"
                 \/ /\ run'[r].step = s
                    /\ \E k \in {RetryKey(r, s, n), CallbackKey(r, s, c)} : timers' = Armed(k)
    BY <2>1
  <2>3. timers[RetryKey(r, s, n)] = "absent"
    BY <2>2 DEF ReportedInv, Retried
  <2>4. timers[CallbackKey(r, s, c)] = "absent"
    <3>1. ~ CalledBack(r, s, c)
      <4>1. c # NoCall
        BY DEF CallIds, NoCall
      <4> QED
        BY <2>2, <4>1 DEF CalledBack, RowCalls
    <3> QED
      BY <3>1 DEF ReportedInv
  <2>5. ASSUME NEW k \in TimerKeys, k.run = r, k.step = s, k.kind \in {"retry", "callback"},
               timers[k] = "absent", timers' = Armed(k), run'[r].step = s
        PROVE  HasWaker(r)'
    <3>1. timers'[k] = "pending"
      BY <1>1, <2>5 DEF Armed, TimerRows
    <3> QED
      BY <2>5, <3>1 DEF HasWaker
  <2>6. /\ RetryKey(r, s, n) \in TimerKeys /\ CallbackKey(r, s, c) \in TimerKeys
        /\ RetryKey(r, s, n).run = r /\ RetryKey(r, s, n).step = s
        /\ CallbackKey(r, s, c).run = r /\ CallbackKey(r, s, c).step = s
        /\ RetryKey(r, s, n).kind = "retry" /\ CallbackKey(r, s, c).kind = "callback"
    BY <2>2, KeyType DEF RetryKey, CallbackKey
  <2> QED
    BY <1>2, <2>2, <2>3, <2>4, <2>5, <2>6
<1>6. CASE Woken(r)
  BY <1>2, <1>6 DEF Woken
<1>7. CASE StartRun(r)
  BY <1>1, <1>2, <1>7 DEF StartRun, RunRow
<1> QED
  BY <1>3, <1>4, <1>5, <1>6, <1>7, RunFrame

\* WaitingRunHasWaker (service.py: advance_run, complete_call_activity,
\* fire_due_timers and ingest_external_event under a careful application): unless
\* the definition leads back to a wait it has left, a waiting run always has the
\* pending timer, the open subscription or the call that will wake it.
THEOREM WaitingRunIsWoken ==
    ASSUME NEW rank, NoWaitTwice(rank)
    PROVE  DriverSpec => []WaitingRunHasWaker
<1> DEFINE Inv == /\ Base /\ ScheduledAttemptIsLast /\ DrivenInv /\ RecordedInv
                  /\ \A r \in Runs : AheadInv(rank, r) /\ ReportedInv(r) /\ HasWaker(r)
<1>1. DriverInit => Inv
  <2> SUFFICES ASSUME DriverInit PROVE Inv
    OBVIOUS
  <2>1. Init
    BY DEF DriverInit
  <2>2. RecordedInv
    BY <2>1 DEF Init, RecordedInv, RowCalls, Fresh, Idle
  <2>3. \A r \in Runs : AheadInv(rank, r)
    BY <2>1, KeyType DEF Init, AheadInv
  <2>4. \A r \in Runs : ReportedInv(r)
    BY <2>1, KeyType DEF Init, ReportedInv
  <2>5. \A r \in Runs : HasWaker(r)
    BY <2>1 DEF Init, HasWaker, NoRun
  <2> QED
    BY <2>1, <2>2, <2>3, <2>4, <2>5, BaseInit, ScheduledInit, DrivenInit
<1>2. Inv /\ [DriverNext]_driverVars => Inv'
  <2> SUFFICES ASSUME Inv, [DriverNext]_driverVars PROVE Inv'
    OBVIOUS
  <2>1. [Next]_vars
    BY DriverSteps
  <2>2. Base' /\ ScheduledAttemptIsLast' /\ DrivenInv' /\ RecordedInv'
    BY <2>1, BaseNext, ScheduledNext, DrivenNext, RecordedNext
  <2>3. ASSUME NEW r \in Runs PROVE AheadInv(rank, r)' /\ ReportedInv(r)' /\ HasWaker(r)'
    BY AheadNext, ReportedNext, WakerNext DEF RecordedInv
  <2> QED
    BY <2>2, <2>3
<1>3. Inv => WaitingRunHasWaker
  BY DEF HasWaker, WaitingRunHasWaker
<1> QED
  BY <1>1, <1>2, <1>3, PTL DEF DriverSpec

-----------------------------------------------------------------------------
(* The lost calls are accounted for *)

\* A call that is lost is never found again: no later step tells it an attempt.
LEMMA LostForGood ==
    ASSUME Base, DrivenInv, [DriverNext]_driverVars
    PROVE  Untracked \subseteq Untracked'
<1>1. /\ [Next]_vars /\ CallsKept /\ DOMAIN calls = 1 .. Len(calls) /\ Len(calls) \in Nat
  BY DriverSteps, CallsFrame, BaseParts, CallNumbers, LenProperties DEF StoreOK
<1> SUFFICES ASSUME NEW c \in Untracked PROVE c \in Untracked'
  OBVIOUS
<1>2. /\ c \in DOMAIN calls /\ c # NoCall
      /\ \A w \in Workers : ~ (workers[w].pc = "bind" /\ workers[w].call = c)
  BY <1>1 DEF Untracked, NoCall
<1>3. calls[c].run \in Runs /\ calls[c].step \in CallSteps
  BY <1>2, CallType
<1>4. PICK r \in Runs, s \in CallSteps : r = calls[c].run /\ s = calls[c].step
  BY <1>3
<1>5. /\ c \in DOMAIN calls' /\ calls'[c].run = r /\ calls'[c].step = s
      /\ \A n \in DOMAIN attempts[r][s] : attempts[r][s][n].call # c
  BY <1>1, <1>2, <1>4 DEF CallsKept, Untracked
<1>6. ASSUME NEW v \in Workers, workers'[v].pc = "bind" PROVE workers'[v].call # c
  <2>1. CASE workers'[v] = workers[v]
    BY <1>2, <1>6, <2>1
  <2>2. CASE Dial(v)
    <3>1. workers'[v].call = Len(calls) + 1
      BY <2>2 DEF Dial, Base, TypeOK, Worker
    <3> QED
      BY <1>1, <1>2, <3>1
  <2> QED
    BY <1>1, <1>6, <2>1, <2>2, NewBinder
<1>7. ASSUME NEW n \in DOMAIN attempts'[r][s] PROVE attempts'[r][s][n].call # c
  <2>1. CASE NoCallGained
    BY <1>2, <1>5, <2>1 DEF NoCallGained
  <2>2. ASSUME NEW w \in Workers, Bind(w) PROVE attempts'[r][s][n].call # c
    <3>1. workers[w].pc = "bind" /\ workers[w].call # c
      BY <1>2, <2>2 DEF Bind
    <3>2. PICK q \in Runs, x \in CallSteps : q = Job(w) /\ x = workers[w].step
      BY <3>1, JobType DEF Base, DialledStepHasAttempt
    <3>3. PICK m \in DOMAIN attempts[q][x] : m = Len(attempts[q][x])
      BY <3>1, <3>2, DialledRow DEF Dials
    <3>4. PICK row \in AttemptRow : row = [status |-> "scheduled", call |-> workers[w].call]
      BY DEF AttemptRow, Base, TypeOK, Worker
    <3>5. attempts' = [attempts EXCEPT ![q][x][m] = row]
      BY <2>2, <3>2, <3>3, <3>4 DEF Bind, AttemptBound
    <3>6. Rewritten(q, x, m, row) /\ row.call # c
      BY <3>1, <3>4, <3>5, RowRewritten
    <3>7. CASE q = r /\ x = s
      BY <1>5, <3>6, <3>7 DEF Rewritten
    <3>8. CASE q # r \/ x # s
      BY <1>5, <3>6, <3>8 DEF Rewritten
    <3> QED
      BY <3>7, <3>8
  <2> QED
    BY <1>1, <2>1, <2>2, GainedByBind
<1> QED
  BY <1>5, <1>6, <1>7 DEF Untracked

\* A run that is being given up has failed and stays so, unless the service call
\* dies that was to record it.
LEMMA GivenUpNext ==
    ASSUME Base, DrivenInv, [DriverNext]_driverVars, NEW r \in Runs, GivenUp(r),
           \A w \in Workers : Die(w) => workers[w].pc # "unwind" \/ Job(w) # r
    PROVE  GivenUp(r)'
<1>0. [Next]_vars
  BY DriverSteps
<1>1. ASSUME NEW w \in Workers, workers[w].pc = "unwind", Job(w) = r PROVE GivenUp(r)'
  <2>1. CASE workers'[w] = workers[w]
    BY <1>1, <2>1 DEF GivenUp, Job
  <2>2. CASE Proceed(w)
    <3>1. Unwind(w)
      BY <1>1, <2>2 DEF Proceed, AdvanceStep, Prepare, PrepareRejected, PrepareComplete,
         PrepareWait, PrepareEventWait, PrepareScheduledCall, PrepareAttempt, Preparing,
         Dial, DialFails, Bind, BindRejected
    <3>2. CanMove(run[r].status, "failed")
      <4>1. run[r].status = "running"
        BY <1>1 DEF DrivenInv, DialInv, Dials
      <4> QED
        BY <4>1 DEF CanMove, LegalTransitions, RunStatuses
    <3>3. PICK s \in CallSteps : \E n \in DOMAIN attempts[r][s] :
             s = workers[w].step /\ n = Len(attempts[r][s])
      BY <1>1, DialledRow DEF Dials
    <3>4. PICK n \in DOMAIN attempts[r][s] : n = Len(attempts[r][s])
      BY <3>3
    <3> DEFINE row == [attempts[r][s][n] EXCEPT !.status = "failed"]
    <3>5. row \in AttemptRow /\ row.status = "failed"
      <4>1. attempts[r][s][n] \in AttemptRow
        BY BaseParts, RowNumbers
      <4> QED
        BY <4>1 DEF AttemptRow
    <3>6. /\ attempts' = [attempts EXCEPT ![r][s][n] = row]
          /\ run' = [run EXCEPT ![r].status = "failed"]
      BY <1>1, <3>1, <3>2, <3>3, <3>4 DEF Unwind
    <3> HIDE DEF row
    <3>7. n \in DOMAIN attempts'[r][s] /\ attempts'[r][s][n].status = "failed"
      <4>1. Rewritten(r, s, n, row)
        BY <3>5, <3>6, RowRewritten
      <4> QED
        BY <3>5, <4>1 DEF Rewritten
    <3>8. run'[r].status = "failed"
      BY <3>6 DEF Base, TypeOK, RunRow
    <3> QED
      BY <3>7, <3>8 DEF GivenUp
  <2>3. ~ Die(w)
    BY <1>1
  <2> QED
    BY <1>1, <2>1, <2>2, <2>3, BusyFrame
<1>2. ASSUME run[r].status = "failed", NEW s \in CallSteps, NEW n \in DOMAIN attempts[r][s],
             attempts[r][s][n].status = "failed"
      PROVE  GivenUp(r)'
  <2>1. ~ Live(r) /\ ~ Woken(r) /\ ~ StartRun(r)
    BY <1>2 DEF Live, Woken, StartRun, Started
  <2>2. ~ CompleteCallActivity(r)
    <3>1. ASSUME CompleteCallActivity(r) PROVE FALSE
      <4>1. PICK x \in CallSteps : \E m \in DOMAIN attempts[r][x] :
               attempts[r][x][m].status = "scheduled"
        BY <3>1, ReportedRow
      <4>2. run[r].status = "waiting"
        BY <4>1 DEF DrivenInv, RowsInv, WaitsAt
      <4> QED
        BY <1>2, <4>2
    <3> QED
      BY <3>1
  <2>3. Apart(r)
    BY <2>1, <2>2, RunFrame
  <2> QED
    BY <1>2, <2>3 DEF Apart, GivenUp
<1> QED
  BY <1>1, <1>2 DEF GivenUp

\* The runs given up stay so, but for the one whose service call dies.
LEMMA RunsGivenUpNext ==
    ASSUME Base, DrivenInv, [DriverNext]_driverVars,
           NEW c \in Untracked, GivenUp(calls[c].run),
           \A w \in Workers : Die(w) => workers[w].pc # "unwind" \/ Job(w) # calls[c].run
    PROVE  calls[c].run \in RunsGivenUp'
<1>1. c \in DOMAIN calls /\ c \in Untracked'
  BY LostForGood DEF Untracked
<1>2. PICK r \in Runs : r = calls[c].run
  BY <1>1, CallType
<1>3. calls'[c].run = r
  BY <1>1, <1>2, DriverSteps, CallsFrame DEF CallsKept
<1>4. GivenUp(r)'
  BY <1>2, GivenUpNext
<1> QED
  BY <1>1, <1>2, <1>3, <1>4 DEF RunsGivenUp, GivenUp

\* The lost calls are finitely many.
LEMMA LostFinite ==
    ASSUME Base
    PROVE  IsFiniteSet(Untracked) /\ Cardinality(Untracked) \in Nat
<1>1. Untracked \subseteq 1 .. Len(calls) /\ Len(calls) \in Nat
  BY BaseParts, CallNumbers, LenProperties DEF Untracked, StoreOK
<1>2. IsFiniteSet(1 .. Len(calls))
  BY <1>1, FS_Interval
<1>3. IsFiniteSet(Untracked)
  BY <1>1, <1>2, FS_Subset
<1> QED
  BY <1>3, FS_CardinalityType

\* So are the runs of finitely many calls.
LEMMA RunsFinite ==
    ASSUME NEW S, IsFiniteSet(S), NEW list, NEW T, T = {list[c].run : c \in S}
    PROVE  IsFiniteSet(T) /\ Cardinality(T) \in Nat
<1> DEFINE f == [c \in S |-> list[c].run]
<1>1. f \in Surjection(S, T)
  BY DEF Surjection
<1> HIDE DEF f
<1>2. IsFiniteSet(T)
  BY <1>1, FS_Surjection
<1> QED
  BY <1>2, FS_CardinalityType

\* One more element makes a finite set larger by one at most.
LEMMA OneMore ==
    ASSUME NEW S, NEW x, IsFiniteSet(S)
    PROVE  /\ IsFiniteSet(S \cup {x})
           /\ Cardinality(S \cup {x}) \in Nat
           /\ Cardinality(S \cup {x}) <= Cardinality(S) + 1
<1>1. Cardinality(S) \in Nat
  BY FS_CardinalityType
<1>2. /\ IsFiniteSet(S \cup {x})
      /\ Cardinality(S \cup {x}) = IF x \in S THEN Cardinality(S) ELSE Cardinality(S) + 1
  BY FS_AddElement
<1> QED
  BY <1>1, <1>2

\* A set that has one element outside a finite set at most.
LEMMA Fewer ==
    ASSUME NEW S, NEW T, NEW x, IsFiniteSet(T), S \subseteq T \cup {x}
    PROVE  Cardinality(S) <= Cardinality(T) + 1
<1>1. IsFiniteSet(T \cup {x}) /\ Cardinality(T \cup {x}) <= Cardinality(T) + 1
      /\ Cardinality(T \cup {x}) \in Nat /\ Cardinality(T) \in Nat
  BY OneMore, FS_CardinalityType
<1>2. Cardinality(S) <= Cardinality(T \cup {x}) /\ Cardinality(S) \in Nat
  BY <1>1, FS_Subset, FS_CardinalityType
<1> QED
  BY <1>1, <1>2

\* A request that failed after the provider took the call gives up a run that was
\* not given up before.
LEMMA NewlyGivenUp ==
    ASSUME Base, DrivenInv, [DriverNext]_driverVars,
           NEW w \in Workers, DialFails(w), Placed(w), Len(calls) + 1 \in Untracked'
    PROVE  Job(w) \in RunsGivenUp' /\ Job(w) \notin RunsGivenUp
<1>1. workers[w].pc = "dial" /\ workers[w].pc # "idle" /\ Dials(w)
  BY DialledFrom DEF Dials
<1>2. PICK c : c = Len(calls) + 1
  OBVIOUS
<1>3. calls'[c].run = Job(w)
  <2>1. calls'[c] = [run |-> Job(w), step |-> workers[w].step]
    BY <1>1, <1>2, CallAdded
  <2> QED
    BY <2>1
<1>4. workers'[w].pc = "unwind" /\ Job(w)' = Job(w)
  BY DEF DialFails, Base, TypeOK, Worker, Job
<1>5. Job(w) \in RunsGivenUp'
  <2>1. c \in Untracked' /\ GivenUp(calls[c].run)'
    BY <1>2, <1>3, <1>4 DEF GivenUp
  <2> QED
    BY <1>3, <2>1 DEF RunsGivenUp
<1>6. ~ GivenUp(Job(w))
  <2>1. run[Job(w)].status = "running"
    BY <1>1 DEF DrivenInv, DialInv
  <2>2. ASSUME NEW v \in Workers, workers[v].pc = "unwind", Job(v) = Job(w) PROVE FALSE
    <3>1. v = w
      BY <1>1, <2>2, DiallerHolds DEF DrivenInv, HandsInv, Once
    <3> QED
      BY <1>1, <2>2, <3>1
  <2> QED
    BY <2>1, <2>2 DEF GivenUp
<1> QED
  BY <1>5, <1>6 DEF RunsGivenUp

\* Every step keeps the account.
LEMMA LostNext ==
    ASSUME Base, DrivenInv, [DriverNext]_driverVars,
           crashes \in Nat, LostCallsAreAccountedFor
    PROVE  LostCallsAreAccountedFor'
<1> DEFINE u  == Cardinality(Untracked)
           u2 == Cardinality(Untracked')
           g  == Cardinality(RunsGivenUp)
           g2 == Cardinality(RunsGivenUp')
           some == {d \in Untracked : GivenUp(calls[d].run)}
<1>1. /\ IsFiniteSet(Untracked) /\ u \in Nat
      /\ IsFiniteSet(Untracked') /\ u2 \in Nat
  <2>1. IsFiniteSet(Untracked) /\ u \in Nat
    BY LostFinite
  <2>2. \A x : IsFiniteSet(Untracked \cup {x})
    BY <2>1, OneMore
  <2>3. IsFiniteSet(Untracked')
    BY <2>1, <2>2, UntrackedNext, FS_Subset
  <2> QED
    BY <2>1, <2>3, FS_CardinalityType
<1>2. /\ IsFiniteSet(Untracked) /\ u \in Nat /\ u2 \in Nat
      /\ IsFiniteSet(RunsGivenUp) /\ g \in Nat
      /\ IsFiniteSet(RunsGivenUp') /\ g2 \in Nat
  <2>1. /\ RunsGivenUp = {calls[c].run : c \in some}
        /\ RunsGivenUp' = {calls'[c].run : c \in some'}
    BY DEF RunsGivenUp
  <2>2. some \subseteq Untracked /\ some' \subseteq Untracked'
    OBVIOUS
  <2> HIDE DEF some
  <2>3. IsFiniteSet(some) /\ IsFiniteSet(some')
    BY <1>1, <2>2, FS_Subset
  <2> QED
    BY <1>1, <2>1, <2>3, RunsFinite
<1>3. /\ crashes' \in Nat /\ crashes' >= crashes
      /\ \A w \in Workers : Die(w) => crashes' = crashes + 1
  BY DEF DriverNext, driverVars, Begin, Report, Proceed, PollTimers, Die, DriveRun, Receive
<1>4. u <= crashes + g
  BY DEF LostCallsAreAccountedFor
<1>5. Untracked' \subseteq Untracked => u2 <= u
  BY <1>2, FS_Subset
<1>6. RunsGivenUp = {calls[c].run : c \in {d \in Untracked : GivenUp(calls[d].run)}}
  BY DEF RunsGivenUp
<1>7. ASSUME \A w \in Workers : Die(w) => workers[w].pc # "unwind"
      PROVE  RunsGivenUp \subseteq RunsGivenUp' /\ g <= g2
  <2>1. RunsGivenUp \subseteq RunsGivenUp'
    BY <1>6, <1>7, RunsGivenUpNext
  <2> QED
    BY <1>2, <2>1, FS_Subset
<1>8. ASSUME NEW w \in Workers, Die(w), workers[w].pc = "unwind", Untracked' \subseteq Untracked
      PROVE  u2 <= crashes' + g2
  <2>1. RunsGivenUp \subseteq RunsGivenUp' \cup {Job(w)}
    BY <1>6, <1>8, OneDies, RunsGivenUpNext
  <2>2. g <= g2 + 1
    BY <1>2, <2>1, Fewer
  <2> QED
    BY <1>2, <1>3, <1>4, <1>5, <1>8, <2>2
<1>9. ASSUME Untracked' \subseteq Untracked PROVE u2 <= crashes' + g2
  BY <1>2, <1>3, <1>4, <1>5, <1>7, <1>8, <1>9
<1>10. ASSUME NEW w \in Workers, Die(w), workers[w].pc = "bind",
              Untracked' \subseteq Untracked \cup {workers[w].call}
       PROVE  u2 <= crashes' + g2
  <2>1. u2 <= u + 1
    BY <1>2, <1>10, Fewer
  <2>2. g <= g2
    BY <1>7, <1>10, OneDies
  <2> QED
    BY <1>2, <1>3, <1>4, <1>10, <2>1, <2>2
<1>11. ASSUME NEW w \in Workers, DialFails(w), Placed(w),
              Untracked' \subseteq Untracked \cup {Len(calls) + 1}
       PROVE  u2 <= crashes' + g2
  <2>1. CASE Len(calls) + 1 \notin Untracked'
    BY <1>9, <1>11, <2>1
  <2>2. CASE Len(calls) + 1 \in Untracked'
    <3>1. RunsGivenUp \subseteq RunsGivenUp'
      BY <1>7, <1>11, OneDies
    <3>2. Job(w) \in RunsGivenUp' /\ Job(w) \notin RunsGivenUp
      BY <1>11, <2>2, NewlyGivenUp
    <3>3. g + 1 <= g2
      <4>1. Cardinality(RunsGivenUp \cup {Job(w)}) = g + 1
        BY <1>2, <3>2, FS_AddElement
      <4> QED
        BY <1>2, <3>1, <3>2, <4>1, FS_Subset
    <3>4. u2 <= u + 1
      BY <1>2, <1>11, Fewer
    <3> QED
      BY <1>2, <1>3, <1>4, <3>3, <3>4
  <2> QED
    BY <2>1, <2>2
<1>12. u2 <= crashes' + g2
  BY <1>9, <1>10, <1>11, UntrackedNext
<1> QED
  BY <1>12 DEF LostCallsAreAccountedFor

\* The calls that no attempt and no service call knows are bounded by the crashes
\* and the runs given up, however advance_run, reports, timers and events
\* interleave: a call is lost only when the process dies between the telephony
\* request and the second transaction (service.py: advance_run), or when the
\* provider took the call of a request that failed, which ends the run
\* (_mark_call_activity_failed); one call each time.
THEOREM LostCallsBounded == DriverSpec => []LostCallsAreAccountedFor
<1> DEFINE Inv == /\ Base /\ ScheduledAttemptIsLast /\ DrivenInv
                  /\ crashes \in Nat /\ LostCallsAreAccountedFor
<1>1. DriverInit => Inv
  <2> SUFFICES ASSUME DriverInit PROVE Inv
    OBVIOUS
  <2>1. Init /\ crashes = 0
    BY DEF DriverInit
  <2>2. Untracked = {}
    BY <2>1 DEF Init, Untracked
  <2>3. RunsGivenUp = {}
    BY <2>2 DEF RunsGivenUp
  <2>4. Cardinality(Untracked) = 0 /\ Cardinality(RunsGivenUp) = 0
    BY <2>2, <2>3, FS_EmptySet
  <2> QED
    BY <2>1, <2>4, BaseInit, ScheduledInit, DrivenInit DEF LostCallsAreAccountedFor
<1>2. Inv /\ [DriverNext]_driverVars => Inv'
  <2> SUFFICES ASSUME Inv, [DriverNext]_driverVars PROVE Inv'
    OBVIOUS
  <2>1. [Next]_vars
    BY DriverSteps
  <2>2. Base' /\ ScheduledAttemptIsLast' /\ DrivenInv'
    BY <2>1, BaseNext, ScheduledNext, DrivenNext
  <2>3. crashes' \in Nat
    BY DEF DriverNext, driverVars, Begin, Report, Proceed, PollTimers, Die, DriveRun, Receive
  <2> QED
    BY <2>2, <2>3, LostNext
<1>3. Inv => LostCallsAreAccountedFor
  OBVIOUS
<1> QED
  BY <1>1, <1>2, <1>3, PTL DEF DriverSpec

-----------------------------------------------------------------------------
(* The retry policy bounds the calls *)

\* A service call has prepared the step and not dialled yet.
Dialling(r, s) ==
    \E w \in Workers : workers[w].pc = "dial" /\ Job(w) = r /\ workers[w].step = s

\* Every call was dialled for an attempt of its own.
CountInv(r, s) ==
    /\ Cardinality(CallsOf(r, s)) <= Len(attempts[r][s])
    /\ Dialling(r, s) => Cardinality(CallsOf(r, s)) < Len(attempts[r][s])

\* Attempts are never removed; a preparation adds one.
LEMMA LengthStep ==
    ASSUME Base, DrivenInv, [Next]_vars, NEW r \in Runs, NEW s \in CallSteps
    PROVE  \/ Len(attempts'[r][s]) = Len(attempts[r][s])
           \/ \E w \in Workers :
                 /\ PrepareAttempt(w) /\ r = Job(w) /\ s = run[r].step
                 /\ Len(attempts'[r][s]) = Len(attempts[r][s]) + 1
<1>1. ASSUME NEW q \in Runs, NEW x \in CallSteps, Appended(q, x)
      PROVE  IF q = r /\ x = s THEN Len(attempts'[r][s]) = Len(attempts[r][s]) + 1
             ELSE attempts'[r][s] = attempts[r][s]
  BY <1>1 DEF Appended
<1>2. ASSUME NEW q \in Runs, NEW x \in CallSteps, NEW n, NEW row, Rewritten(q, x, n, row)
      PROVE  Len(attempts'[r][s]) = Len(attempts[r][s])
  <2>1. CASE q = r /\ x = s
    BY <1>2, <2>1 DEF Rewritten
  <2>2. CASE q # r \/ x # s
    BY <1>2, <2>2 DEF Rewritten
  <2> QED
    BY <2>1, <2>2
<1> QED
  BY <1>1, <1>2, AttemptsStep

\* The calls of a step are finitely many.
LEMMA CallsFinite ==
    ASSUME Base, NEW r, NEW s
    PROVE  IsFiniteSet(CallsOf(r, s)) /\ Cardinality(CallsOf(r, s)) \in Nat
<1>1. CallsOf(r, s) \subseteq 1 .. Len(calls) /\ Len(calls) \in Nat
  BY BaseParts, CallNumbers, LenProperties DEF CallsOf, StoreOK
<1>2. IsFiniteSet(1 .. Len(calls))
  BY <1>1, FS_Interval
<1>3. IsFiniteSet(CallsOf(r, s))
  BY <1>1, <1>2, FS_Subset
<1> QED
  BY <1>3, FS_CardinalityType

\* Every step keeps it: an attempt is dialled for once.
LEMMA CountNext ==
    ASSUME Base, DrivenInv, [DriverNext]_driverVars, NEW r \in Runs, NEW s \in CallSteps,
           CountInv(r, s)
    PROVE  CountInv(r, s)'
<1>1. /\ [Next]_vars /\ workers \in [Workers -> Worker]
      /\ attempts \in [Runs -> [CallSteps -> Seq(AttemptRow)]]
  BY DriverSteps DEF Base, TypeOK
<1>2. Base'
  BY <1>1, BaseNext
<1>3. /\ Len(attempts[r][s]) \in Nat /\ Len(attempts'[r][s]) \in Nat
      /\ Len(attempts'[r][s]) >= Len(attempts[r][s])
  <2>1. attempts[r][s] \in Seq(AttemptRow) /\ attempts'[r][s] \in Seq(AttemptRow)
    BY <1>1, <1>2 DEF Base, TypeOK
  <2>2. Len(attempts[r][s]) \in Nat /\ Len(attempts'[r][s]) \in Nat
    BY <2>1, LenProperties
  <2> QED
    BY <1>1, <2>2, LengthStep
<1>4. IsFiniteSet(CallsOf(r, s)) /\ Cardinality(CallsOf(r, s)) \in Nat
  BY CallsFinite
<1>5. ASSUME CallsOf(r, s)' = CallsOf(r, s)
      PROVE  CountInv(r, s)'
  <2>1. ASSUME NEW v \in Workers, workers'[v].pc = "dial", Job(v)' = r, workers'[v].step = s
        PROVE  Cardinality(CallsOf(r, s)) < Len(attempts'[r][s])
    <3>1. CASE workers'[v] = workers[v]
      BY <1>3, <1>4, <2>1, <3>1 DEF CountInv, Dialling, Job
    <3>2. CASE PrepareAttempt(v)
      <4>1. workers'[v].queue = workers[v].queue /\ workers'[v].step = run[Job(v)].step
        BY <1>1, <3>2 DEF PrepareAttempt, Worker
      <4>2. r = Job(v) /\ s = run[r].step
        BY <2>1, <4>1 DEF Job
      <4>3. attempts' = [attempts EXCEPT ![r][s] = Append(@, NewAttempt)]
        BY <3>2, <4>2 DEF PrepareAttempt, AttemptCreated
      <4>4. Len(attempts'[r][s]) = Len(attempts[r][s]) + 1
        BY <4>3, RowAdded
      <4> QED
        BY <1>3, <1>4, <4>4 DEF CountInv
    <3> QED
      BY <1>1, <2>1, <3>1, <3>2, NewDialler
  <2> QED
    BY <1>3, <1>4, <1>5, <2>1 DEF CountInv, Dialling
<1>6. CASE calls' = calls
  <2>1. CallsOf(r, s)' = CallsOf(r, s)
    BY <1>6 DEF CallsOf
  <2> QED
    BY <1>5, <2>1
<1>7. ASSUME NEW w \in Workers, Placed(w), Dial(w) \/ DialFails(w) PROVE CountInv(r, s)'
  <2>0. /\ workers[w].pc = "dial" /\ workers'[w].pc # "dial"
        /\ \A v \in Workers \ {w} : workers'[v] = workers[v]
    BY <1>1, <1>7 DEF Dial, DialFails, Worker
  <2>1. /\ CallsKept
        /\ DOMAIN calls' = DOMAIN calls \cup {Len(calls) + 1}
        /\ calls'[Len(calls) + 1] = [run |-> Job(w), step |-> workers[w].step]
    BY <1>7, <2>0, CallAdded
  <2>2. CASE Job(w) = r /\ workers[w].step = s
    <3> DEFINE c == Len(calls) + 1
               more == CallsOf(r, s) \cup {c}
    <3>1. CallsOf(r, s)' \subseteq more
      BY <2>1 DEF CallsOf, CallsKept
    <3> HIDE DEF c
    <3>2. IsFiniteSet(more) /\ Cardinality(more) <= Cardinality(CallsOf(r, s)) + 1
      BY <1>4, OneMore
    <3>3. Cardinality(more) \in Nat
      BY <3>2, FS_CardinalityType
    <3> HIDE DEF more
    <3>4. Cardinality(CallsOf(r, s)') <= Cardinality(more) /\ Cardinality(CallsOf(r, s)') \in Nat
      BY <3>1, <3>2, FS_Subset, FS_CardinalityType
    <3>5. Cardinality(CallsOf(r, s)) < Len(attempts[r][s])
      BY <2>0, <2>2 DEF CountInv, Dialling
    <3>6. ~ Dialling(r, s)'
      <4> SUFFICES ASSUME NEW v \in Workers, workers'[v].pc = "dial", Job(v)' = r
                   PROVE  FALSE
        BY DEF Dialling
      <4>1. v # w
        BY <2>0
      <4>2. workers'[v] = workers[v]
        BY <2>0, <4>1
      <4>3. workers[v].pc # "idle" /\ workers[w].pc # "idle" /\ Job(v) = r
        BY <2>0, <4>2 DEF Job
      <4> QED
        BY <2>2, <4>1, <4>3, DiallerHolds DEF DrivenInv, HandsInv, Once
    <3> QED
      BY <1>3, <1>4, <3>2, <3>3, <3>4, <3>5, <3>6 DEF CountInv
  <2>3. CASE ~ (Job(w) = r /\ workers[w].step = s)
    <3>1. CallsOf(r, s)' = CallsOf(r, s)
      BY <2>1, <2>3 DEF CallsOf, CallsKept
    <3> QED
      BY <1>5, <3>1
  <2> QED
    BY <2>2, <2>3
<1> QED
  BY <1>1, <1>6, <1>7, CallsByDial

\* No cycle of the definition goes through a call: the steps can be ranked so that
\* no branch leads down, and one that leaves a call leads up.  A callback, which
\* no policy bounds, does not repeat the call either.
NoCallTwice(rank) ==
    /\ rank \in [Steps -> Nat]
    /\ \A s \in Steps : \A next \in Branches(s) :
          /\ rank[s] <= rank[next]
          /\ s \in CallSteps => rank[s] < rank[next]
    /\ "callback" \in Reports => \A s \in CallSteps : Definition[s].callback # NoStep

\* No callback is armed unless one is reported.
NoCallbacks(r) ==
    "callback" \notin Reports =>
        \A k \in TimerKeys : k.run = r /\ k.kind = "callback" => timers[k] = "absent"

InDial(r) == \E w \in Workers : Dials(w) /\ Job(w) = r

RetryPending(r, s) ==
    \E n \in 1 .. MaxAttemptRows : timers[RetryKey(r, s, n)] = "pending"

\* The step is about to be prepared again: the application advances the run, or a
\* retry will.
Due(r, s) ==
    run[r].step = s /\ (RetryPending(r, s) \/ (Early(r) /\ ~ InDial(r)))

\* The attempts of a step: none while the run has it ahead, afterwards as many as
\* the policy and the crashes allow, and one less while another may be made.
LenInv(rank, r, s) ==
    /\ rank[run[r].step] <= rank[s] /\ s # run[r].step => Len(attempts[r][s]) = 0
    /\ Len(attempts[r][s]) <= Definition[s].maxAttempts + crashes
    /\ Due(r, s) => Len(attempts[r][s]) < Definition[s].maxAttempts + crashes

\* A callback is armed by the report of one.
LEMMA NoCallbacksNext ==
    ASSUME Base, DrivenInv, [DriverNext]_driverVars, NEW r \in Runs, NoCallbacks(r)
    PROVE  NoCallbacks(r)'
<1>1. timers \in TimerRows
  BY DEF Base, TypeOK, TimerRows
<1>2. CASE Apart(r) \/ Woken(r) \/ StartRun(r)
  BY <1>2 DEF NoCallbacks, Apart, Woken, StartRun
<1>3. ASSUME NEW w \in Workers, AdvanceStep(w), r = Job(w), Live(r) PROVE NoCallbacks(r)'
  <2>1. \/ timers' = timers
        \/ timers' = Armed(WaitKey(r, run[r].step))
        \/ timers' = Armed(TimeoutKey(r, run[r].step))
    BY <1>3, AdvancedRow
  <2>2. \A k \in TimerKeys : k.kind = "callback" =>
           k # WaitKey(r, run[r].step) /\ k # TimeoutKey(r, run[r].step)
    BY DEF WaitKey, TimeoutKey
  <2>3. \A k \in TimerKeys : k.kind = "callback" => timers'[k] = timers[k]
    BY <1>1, <2>1, <2>2 DEF Armed, TimerRows
  <2> QED
    BY <2>3 DEF NoCallbacks
<1>4. CASE CompleteCallActivity(r)
  <2>1. PICK s \in CallSteps, n \in 1 .. MaxAttemptRows :
           \/ timers' = timers
           \/ timers' = Armed(RetryKey(r, s, n))
           \/ "callback" \in Reports
    BY <1>4, ReportedRow
  <2>2. \A k \in TimerKeys : k.kind = "callback" => k # RetryKey(r, s, n)
    BY DEF RetryKey
  <2>3. "callback" \in Reports \/ \A k \in TimerKeys : k.kind = "callback" => timers'[k] = timers[k]
    BY <1>1, <2>1, <2>2 DEF Armed, TimerRows
  <2> QED
    BY <2>3 DEF NoCallbacks
<1> QED
  BY <1>2, <1>3, <1>4, RunFrame

\* A run stays at its step or follows a branch of it.
LEMMA RunFollows ==
    ASSUME Base, DrivenInv, [DriverNext]_driverVars, NEW r \in Runs
    PROVE  run'[r].step = run[r].step \/ run'[r].step \in Branches(run[r].step)
<1>1. run \in [Runs -> RunRow] /\ run[r].step \in Steps
  BY DEF Base, TypeOK, RunRow
<1>2. CASE Apart(r)
  BY <1>2 DEF Apart
<1>3. ASSUME NEW w \in Workers, AdvanceStep(w), r = Job(w), Live(r)
      PROVE  run'[r].step = run[r].step
  BY <1>3, AdvancedRow
<1>4. CASE CompleteCallActivity(r)
  BY <1>4, ReportedRow
<1>5. ASSUME NEW k \in TimerKeys, k.step = run[r].step, k.kind \in {"retry", "callback"},
             run'[r].step = WakeStep(k)
      PROVE  run'[r].step = run[r].step \/ run'[r].step \in Branches(run[r].step)
  <2>1. k.step \in CallSteps
    BY <1>5 DEF TimerKeys
  <2>2. WakeStep(k) = k.step \/ WakeStep(k) = CallbackStep(k.step)
    BY <1>5 DEF WakeStep
  <2>3. CallbackStep(k.step) = k.step \/ CallbackStep(k.step) \in Branches(k.step)
    BY <2>1 DEF CallbackStep, Branches, CallSteps
  <2> QED
    BY <1>5, <2>2, <2>3
<1>6. CASE Woken(r)
  BY <1>5, <1>6 DEF Woken
<1>7. CASE StartRun(r)
  BY <1>1, <1>7 DEF StartRun, RunRow
<1> QED
  BY <1>2, <1>3, <1>4, <1>6, <1>7, RunFrame

\* Under the hypothesis a branch that leaves a call does not lead back to it.
LEMMA BranchLeaves ==
    ASSUME NEW rank, NoCallTwice(rank), NEW s \in CallSteps
    PROVE  s \notin Branches(s)
<1>1. s \in Steps /\ rank[s] \in Nat
  BY DefinitionType DEF NoCallTwice
<1> QED
  BY <1>1 DEF NoCallTwice

\* A retry that is pending was so, or the policy allows another attempt.
LEMMA RetryArmed ==
    ASSUME Base, ScheduledAttemptIsLast, DrivenInv, [DriverNext]_driverVars,
           NEW r \in Runs, NEW s \in CallSteps, RetryPending(r, s)'
    PROVE  RetryPending(r, s) \/ Len(attempts[r][s]) < Definition[s].maxAttempts
<1>1. PICK n \in 1 .. MaxAttemptRows : timers'[RetryKey(r, s, n)] = "pending"
  BY DEF RetryPending, RetryKey
<1>2. RetryKey(r, s, n) \in TimerKeys /\ RetryKey(r, s, n).run = r /\ timers \in TimerRows
  BY KeyType DEF RetryKey, Base, TypeOK, TimerRows
<1>3. CASE timers[RetryKey(r, s, n)] = "pending"
  BY <1>3 DEF RetryPending
<1>4. CASE Apart(r) \/ Woken(r)
  BY <1>1, <1>2, <1>3, <1>4 DEF Apart, Woken
<1>5. CASE StartRun(r)
  BY <1>1, <1>3, <1>5 DEF StartRun
<1>6. ASSUME NEW w \in Workers, AdvanceStep(w), r = Job(w), Live(r)
      PROVE  timers[RetryKey(r, s, n)] = "pending"
  <2>1. \/ timers' = timers
        \/ timers' = Armed(WaitKey(r, run[r].step))
        \/ timers' = Armed(TimeoutKey(r, run[r].step))
    BY <1>6, AdvancedRow
  <2>2. /\ RetryKey(r, s, n) # WaitKey(r, run[r].step)
        /\ RetryKey(r, s, n) # TimeoutKey(r, run[r].step)
    BY DEF WaitKey, TimeoutKey, RetryKey
  <2> QED
    BY <1>1, <1>2, <2>1, <2>2 DEF Armed, TimerRows
<1>7. CASE CompleteCallActivity(r)
  <2>1. PICK c \in CallIds, x \in CallSteps :
           \E m \in DOMAIN attempts[r][x] :
              /\ attempts[r][x][m].status = "scheduled"
              /\ \/ timers' = timers
                 \/ m < Definition[x].maxAttempts /\ timers' = Armed(RetryKey(r, x, m))
                 \/ timers' = Armed(CallbackKey(r, x, c))
    BY <1>7, ReportedRow
  <2>2. PICK m \in DOMAIN attempts[r][x] :
              /\ attempts[r][x][m].status = "scheduled"
              /\ \/ timers' = timers
                 \/ m < Definition[x].maxAttempts /\ timers' = Armed(RetryKey(r, x, m))
                 \/ timers' = Armed(CallbackKey(r, x, c))
    BY <2>1
  <2>3. m = Len(attempts[r][x])
    BY <2>2 DEF ScheduledAttemptIsLast
  <2>4. CASE m < Definition[x].maxAttempts /\ timers' = Armed(RetryKey(r, x, m))
    <3>1. CASE x = s /\ m = n
      BY <2>3, <2>4, <3>1
    <3>2. CASE ~ (x = s /\ m = n)
      <4>1. RetryKey(r, s, n) # RetryKey(r, x, m)
        BY <3>2 DEF RetryKey
      <4> QED
        BY <1>1, <1>2, <1>3, <2>4, <4>1 DEF Armed, TimerRows
    <3> QED
      BY <3>1, <3>2
  <2>5. CASE timers' = timers \/ timers' = Armed(CallbackKey(r, x, c))
    <3>1. RetryKey(r, s, n) # CallbackKey(r, x, c)
      BY DEF RetryKey, CallbackKey
    <3> QED
      BY <1>1, <1>2, <1>3, <2>5, <3>1 DEF Armed, TimerRows
  <2> QED
    BY <2>2, <2>4, <2>5
<1> QED
  BY <1>3, <1>4, <1>5, <1>6, <1>7, RunFrame

\* Where a step is due after some step, it was due before, the run has just come
\* to it, or a crash has given it one more attempt.
LEMMA DueBefore ==
    ASSUME NEW rank, NoCallTwice(rank), Base, ScheduledAttemptIsLast, DrivenInv,
           [DriverNext]_driverVars, NEW r \in Runs, NoCallbacks(r), NEW s \in CallSteps,
           Due(r, s)', run[r].step = s
    PROVE  \/ Due(r, s)
           \/ Len(attempts[r][s]) < Definition[s].maxAttempts
           \/ \E w \in Workers : Die(w)
<1>0. run \in [Runs -> RunRow] /\ workers \in [Workers -> Worker]
  BY DEF Base, TypeOK
<1>1. CASE RetryPending(r, s)'
  BY <1>1, RetryArmed DEF Due
<1>2. ASSUME Early(r)', ~ InDial(r)', InDial(r)
      PROVE  \E w \in Workers : Die(w)
  <2>1. PICK v \in Workers : Dials(v) /\ Job(v) = r
    BY <1>2 DEF InDial
  <2>2. ~ (Dials(v)' /\ Job(v)' = Job(v))
    BY <1>2, <2>1 DEF InDial, Dials, Job
  <2>3. ~ Bind(v)
    BY <1>0, <1>2, <2>1 DEF Bind, Early, RunRow
  <2>4. ~ Unwind(v)
    <3>1. CanMove(run[r].status, "failed")
      <4>1. run[r].status = "running"
        BY <2>1 DEF DrivenInv, DialInv
      <4> QED
        BY <4>1 DEF CanMove, LegalTransitions, RunStatuses
    <3> QED
      BY <1>0, <1>2, <2>1, <3>1 DEF Unwind, Early, RunRow
  <2> QED
    BY <2>1, <2>2, <2>3, <2>4, DiallerFrame
<1>3. ASSUME Early(r)', ~ Early(r), run'[r].step = s
      PROVE  RetryPending(r, s)
  <2>1. s \notin Branches(s)
    BY BranchLeaves
  <2>2. ~ Apart(r)
    BY <1>3 DEF Apart, Early
  <2>3. ~ \E w \in Workers : AdvanceStep(w) /\ r = Job(w) /\ Live(r)
    BY <1>3 DEF Live, Early
  <2>4. ~ CompleteCallActivity(r)
    <3>1. CompleteCallActivity(r) =>
             run'[r].step \in Branches(run[r].step) \/ run'[r].status \in {"failed", "waiting"}
      BY ReportedRow
    <3> QED
      BY <1>3, <2>1, <3>1 DEF Early
  <2>5. ~ StartRun(r)
    BY <1>3 DEF StartRun, Started, Early
  <2>6. Woken(r)
    BY <2>2, <2>3, <2>4, <2>5, RunFrame
  <2>7. PICK k \in TimerKeys :
           /\ k.run = r /\ k.step = s /\ k.kind \in {"retry", "callback"}
           /\ timers[k] = "pending" /\ s = WakeStep(k)
    BY <1>3, <2>1, <2>6 DEF Woken
  <2>8. k.kind # "callback"
    <3> SUFFICES ASSUME k.kind = "callback" PROVE FALSE
      OBVIOUS
    <3>1. s = CallbackStep(s)
      BY <2>7 DEF WakeStep
    <3>2. Definition[s].callback = NoStep
      BY <2>1, <3>1 DEF CallbackStep, Branches, CallSteps
    <3>3. "callback" \notin Reports
      BY <3>2 DEF NoCallTwice
    <3> QED
      BY <2>7, <3>3 DEF NoCallbacks
  <2>9. k \in [kind : {"retry"}, run : Runs, step : CallSteps, n : 1 .. MaxAttemptRows]
    BY <2>7, <2>8 DEF TimerKeys
  <2>10. k.n \in 1 .. MaxAttemptRows /\ k = RetryKey(r, s, k.n)
    BY <2>7, <2>9 DEF RetryKey
  <2> QED
    BY <2>7, <2>10 DEF RetryPending
<1> QED
  BY <1>1, <1>2, <1>3 DEF Due, RetryPending, InDial, Early

\* Every step keeps the bound: a preparation uses the attempt that was due, and a
\* run comes to a call step once.
LEMMA LenNext ==
    ASSUME NEW rank, NoCallTwice(rank), Base, ScheduledAttemptIsLast, DrivenInv,
           crashes \in Nat, [DriverNext]_driverVars, NEW r \in Runs, NoCallbacks(r),
           NEW s \in CallSteps, LenInv(rank, r, s)
    PROVE  LenInv(rank, r, s)'
<1>1. [Next]_vars /\ Base'
  BY DriverSteps, BaseNext
<1>2. /\ Len(attempts[r][s]) \in Nat /\ Len(attempts'[r][s]) \in Nat
      /\ Definition[s].maxAttempts \in Nat \ {0}
      /\ run[r].step \in Steps /\ run'[r].step \in Steps /\ s \in Steps
  <2>1. Len(attempts[r][s]) \in Nat
    BY BaseParts, RowNumbers
  <2>2. attempts'[r][s] \in Seq(AttemptRow)
    BY <1>1 DEF Base, TypeOK
  <2>3. run[r].step \in Steps /\ run'[r].step \in Steps
    BY <1>1 DEF Base, TypeOK, RunRow
  <2>4. s \in Steps /\ Definition[s].maxAttempts \in Nat \ {0}
    <3>1. Definition[s].maxAttempts \in 1 .. 20
      BY DefinitionAssumption
    <3>2. \A m \in 1 .. 20 : m \in Nat \ {0}
      OBVIOUS
    <3> QED
      BY <3>1, <3>2, DefinitionType
  <2>5. Len(attempts'[r][s]) \in Nat
    BY <2>2, LenProperties
  <2> QED
    BY <2>1, <2>3, <2>4, <2>5, Zenon
<1>3. /\ crashes' \in Nat /\ crashes' >= crashes
      /\ \A w \in Workers : Die(w) => crashes' = crashes + 1
  BY DEF DriverNext, driverVars, Begin, Report, Proceed, PollTimers, Die, DriveRun, Receive
<1>4. /\ rank[run[r].step] \in Nat /\ rank[run'[r].step] \in Nat /\ rank[s] \in Nat
      /\ \/ run'[r].step = run[r].step
         \/ /\ rank[run[r].step] <= rank[run'[r].step]
            /\ run[r].step = s => rank[run[r].step] < rank[run'[r].step]
  BY <1>2, RunFollows DEF NoCallTwice
<1>5. ASSUME NEW w \in Workers, PrepareAttempt(w), r = Job(w), s = run[r].step,
             Len(attempts'[r][s]) = Len(attempts[r][s]) + 1
      PROVE  LenInv(rank, r, s)'
  <2>1. workers[w].pc = "advance" /\ AdvanceStep(w)
    BY <1>5 DEF PrepareAttempt, Preparing, AdvanceStep, Prepare
  <2>2. Live(r)
    BY <1>5, <2>1, JobLive DEF DrivenInv
  <2>3. ~ InDial(r)
    <3> SUFFICES ASSUME NEW v \in Workers, Dials(v), Job(v) = r PROVE FALSE
      BY DEF InDial
    <3>1. v # w /\ workers[v].pc # "idle" /\ workers[w].pc # "idle"
      BY <2>1 DEF Dials
    <3> QED
      BY <1>5, <3>1, DiallerHolds DEF DrivenInv, HandsInv, Once
  <2>4. Due(r, s)
    BY <1>5, <2>2, <2>3 DEF Due, Early, Live
  <2>5. Len(attempts[r][s]) < Definition[s].maxAttempts + crashes
    BY <2>4 DEF LenInv
  <2>6. run'[r].step = s
    BY <1>5, <2>1, <2>2, AdvancedRow
  <2>7. ~ Due(r, s)'
    <3>1. ~ RetryPending(r, s)'
      <4>1. timers' = timers
        BY <1>5 DEF PrepareAttempt
      <4>2. Quiet(r)
        BY <2>2, LiveIsQuiet
      <4> QED
        BY <4>1, <4>2, KeyType DEF RetryPending, Quiet, RetryKey
    <3>2. InDial(r)'
      <4>1. workers'[w].pc = "dial" /\ workers'[w].queue = workers[w].queue
        BY <1>5 DEF PrepareAttempt, Base, TypeOK, Worker
      <4> QED
        BY <1>5, <4>1 DEF InDial, Dials, Job
    <3> QED
      BY <3>1, <3>2 DEF Due
  <2>8. Len(attempts'[r][s]) <= Definition[s].maxAttempts + crashes'
    <3>1. \A a, b, c, d \in Nat : d >= c /\ a < b + c => a + 1 <= b + d
      OBVIOUS
    <3>2. /\ Len(attempts[r][s]) \in Nat /\ Definition[s].maxAttempts \in Nat
          /\ crashes \in Nat /\ crashes' \in Nat /\ crashes' >= crashes
      BY <1>2, <1>3
    <3>3. Len(attempts[r][s]) + 1 <= Definition[s].maxAttempts + crashes'
      BY <2>5, <3>1, <3>2
    <3> QED
      BY <1>5, <3>3
  <2> QED
    BY <2>6, <2>7, <2>8 DEF LenInv, Due, RetryPending, InDial, Early
<1>6. ASSUME Len(attempts'[r][s]) = Len(attempts[r][s])
      PROVE  LenInv(rank, r, s)'
  <2>1. rank[run'[r].step] <= rank[s] /\ s # run'[r].step => Len(attempts'[r][s]) = 0
    BY <1>4, <1>6 DEF LenInv
  <2>2. Len(attempts'[r][s]) <= Definition[s].maxAttempts + crashes'
    BY <1>2, <1>3, <1>6 DEF LenInv
  <2>3. ASSUME Due(r, s)'
        PROVE  Len(attempts'[r][s]) < Definition[s].maxAttempts + crashes'
    <3>1. run'[r].step = s
      BY <2>3 DEF Due
    <3>2. CASE run[r].step # s
      <4>1. Len(attempts[r][s]) = 0
        BY <1>4, <3>1, <3>2 DEF LenInv
      <4> QED
        BY <1>2, <1>3, <1>6, <4>1
    <3>3. CASE run[r].step = s
      <4>1. CASE Due(r, s)
        BY <1>2, <1>3, <1>6, <4>1 DEF LenInv
      <4>2. CASE Len(attempts[r][s]) < Definition[s].maxAttempts
        BY <1>2, <1>3, <1>6, <4>2
      <4>3. CASE \E w \in Workers : Die(w)
        BY <1>2, <1>3, <1>6, <4>3 DEF LenInv
      <4> QED
        BY <2>3, <3>3, <4>1, <4>2, <4>3, DueBefore
    <3> QED
      BY <3>2, <3>3
  <2> QED
    BY <2>1, <2>2, <2>3 DEF LenInv, Due, RetryPending, InDial, Early
<1> QED
  BY <1>1, <1>5, <1>6, LengthStep

\* RetryPolicyBoundsCalls (service.py: advance_run, complete_call_activity and
\* _retry_due_at under a careful application): unless the definition leads back to
\* a call it has left, a call activity is dialled as often as its policy says, and
\* once more for each crash at most.
THEOREM CallsAreBounded ==
    ASSUME NEW rank, NoCallTwice(rank)
    PROVE  DriverSpec => []RetryPolicyBoundsCalls
<1> DEFINE Inv == /\ Base /\ ScheduledAttemptIsLast /\ DrivenInv /\ crashes \in Nat
                  /\ \A r \in Runs : NoCallbacks(r)
                  /\ \A r \in Runs : \A s \in CallSteps : CountInv(r, s) /\ LenInv(rank, r, s)
<1>1. DriverInit => Inv
  <2> SUFFICES ASSUME DriverInit PROVE Inv
    OBVIOUS
  <2>1. Init /\ crashes = 0
    BY DEF DriverInit
  <2>2. \A r \in Runs : NoCallbacks(r)
    BY <2>1 DEF Init, NoCallbacks
  <2>3. ASSUME NEW r \in Runs, NEW s \in CallSteps PROVE CountInv(r, s) /\ LenInv(rank, r, s)
    <3>1. attempts[r][s] = <<>> /\ Len(attempts[r][s]) = 0
      BY <2>1, <2>3 DEF Init
    <3>2. Definition[s].maxAttempts \in 1 .. 20
      BY DefinitionAssumption
    <3>3. CallsOf(r, s) = {} /\ ~ Dialling(r, s)
      BY <2>1 DEF Init, CallsOf, Dialling, Idle
    <3>4. Cardinality(CallsOf(r, s)) = 0
      BY <3>3, FS_EmptySet
    <3>5. CountInv(r, s)
      BY <3>1, <3>3, <3>4 DEF CountInv
    <3>6. LenInv(rank, r, s)
      <4>1. \A m \in 1 .. 20 : 0 <= m + 0 /\ 0 < m + 0
        OBVIOUS
      <4>2. 0 <= Definition[s].maxAttempts + crashes /\ 0 < Definition[s].maxAttempts + crashes
        BY <2>1, <3>2, <4>1
      <4> QED
        BY <3>1, <4>2 DEF LenInv
    <3> QED
      BY <3>5, <3>6
  <2> QED
    BY <2>1, <2>2, <2>3, BaseInit, ScheduledInit, DrivenInit
<1>2. Inv /\ [DriverNext]_driverVars => Inv'
  <2> SUFFICES ASSUME Inv, [DriverNext]_driverVars PROVE Inv'
    OBVIOUS
  <2>1. [Next]_vars
    BY DriverSteps
  <2>2. Base' /\ ScheduledAttemptIsLast' /\ DrivenInv'
    BY <2>1, BaseNext, ScheduledNext, DrivenNext
  <2>3. crashes' \in Nat
    BY DEF DriverNext, driverVars, Begin, Report, Proceed, PollTimers, Die, DriveRun, Receive
  <2>4. ASSUME NEW r \in Runs PROVE NoCallbacks(r)'
    BY NoCallbacksNext
  <2>5. ASSUME NEW r \in Runs, NEW s \in CallSteps PROVE CountInv(r, s)' /\ LenInv(rank, r, s)'
    BY CountNext, LenNext
  <2> QED
    BY <2>2, <2>3, <2>4, <2>5
<1>3. Inv => RetryPolicyBoundsCalls
  <2> SUFFICES ASSUME Inv, NEW r \in Runs, NEW s \in CallSteps
               PROVE  Cardinality(CallsOf(r, s)) <= Definition[s].maxAttempts + crashes
    BY DEF RetryPolicyBoundsCalls
  <2>1. /\ Cardinality(CallsOf(r, s)) <= Len(attempts[r][s])
        /\ Len(attempts[r][s]) <= Definition[s].maxAttempts + crashes
    BY DEF CountInv, LenInv
  <2>2. Cardinality(CallsOf(r, s)) \in Nat /\ Len(attempts[r][s]) \in Nat
    BY CallsFinite, BaseParts, RowNumbers
  <2>3. Definition[s].maxAttempts \in Nat
    <3>1. Definition[s].maxAttempts \in 1 .. 20
      BY DefinitionAssumption
    <3>2. \A m \in 1 .. 20 : m \in Nat
      OBVIOUS
    <3> QED
      BY <3>1, <3>2
  <2>4. \A a, b, c, d \in Nat : a <= b /\ b <= c + d => a <= c + d
    OBVIOUS
  <2> QED
    BY <2>1, <2>2, <2>3, <2>4
<1> QED
  BY <1>1, <1>2, <1>3, PTL DEF DriverSpec

=============================================================================
