--------------------------- MODULE ConversationProofs ---------------------------
(***************************************************************************)
(* The live conversation, proved for any number of transcripts and agent   *)
(* transfers.  The inductive invariant has three parts beside the types:   *)
(* Budget counts what the requests of a conversation may still do to the   *)
(* counters, ResponseInv relates the response task to the turn state, the  *)
(* history and the agent, SilenceInv an interruption to what is played.    *)
(* Each lemma about a step has one case for each action.                   *)
(***************************************************************************)
EXTENDS Conversation, SequenceTheorems, TLAPS

Positions == {"idle", "speech", "final", "locking", "append", "clear", "gather", "dead"}

\* The two actors of a conversation, told apart by their names.
LEMMA ActorNames == Actors = {"reader", "transfer"}
BY DEF Actors

\* What At returns: one actor has moved and keeps the rest of its record.
LEMMA MovedActor ==
    ASSUME actor \in [Actors -> ActorRecords], NEW a \in Actors, NEW where \in Positions
    PROVE  /\ At(a, where) \in [Actors -> ActorRecords]
           /\ At(a, where)[a].at = where
           /\ At(a, where)[a].then = actor[a].then
           /\ At(a, where)[a].prev = actor[a].prev
           /\ \A b \in Actors \ {a} : At(a, where)[b] = actor[b]
BY DEF At, ActorRecords, Positions

\* The actor a handler raises in: the reader is dead, a transfer idle again.
LEMMA RaisedActor ==
    ASSUME actor \in [Actors -> ActorRecords], lock \in Actors \cup {"free"},
           NEW a \in Actors, Raises(a)
    PROVE  /\ actor' \in [Actors -> ActorRecords]
           /\ a = "reader" => actor'[a].at = "dead"
           /\ a = "transfer" => actor'[a].at = "idle"
           /\ \A b \in Actors \ {a} : actor'[b] = actor[b]
           /\ lock' \in Actors \cup {"free"}
<1> DEFINE where == IF a = "reader" THEN "dead" ELSE "idle"
<1>1. where \in Positions /\ actor' = At(a, where)
  BY DEF Raises, Positions
<1> HIDE DEF where
<1>2. /\ actor' \in [Actors -> ActorRecords]
      /\ actor'[a].at = where
      /\ \A b \in Actors \ {a} : actor'[b] = actor[b]
  BY <1>1, MovedActor
<1>3. lock' \in Actors \cup {"free"}
  BY DEF Raises, Released
<1> QED
  BY <1>2, <1>3 DEF where

\* The actor that begins an interruption remembers the state it found.
LEMMA InterruptingActor ==
    ASSUME actor \in [Actors -> ActorRecords], NEW a \in Actors,
           NEW then \in {"return", "turn", "swap"}, Interruptible,
           InterruptBegins(a, then)
    PROVE  /\ actor' \in [Actors -> ActorRecords]
           /\ actor'[a] = [at |-> "append", then |-> then, prev |-> state]
           /\ \A b \in Actors \ {a} : actor'[b] = actor[b]
BY DEF InterruptBegins, Interruptible, ActorRecords

\* A disjunction is a Boolean, whatever it is made of.
LEMMA OrIsBoolean == \A p, q : (p \/ q) \in BOOLEAN
BY SMTT(30)

\* The responses the task goes through are well typed.
LEMMA ResponseType ==
    ASSUME task \in ResponseRecords
    PROVE  /\ TaskCancelled \in ResponseRecords
           /\ \A where \in {"announce", "model", "record", "speak", "mark", "done"} :
                 [task EXCEPT !.at = where] \in ResponseRecords
           /\ \A g \in Generations :
                 [NoTask EXCEPT !.at = "new", !.gen = g] \in ResponseRecords
           /\ \A written \in Seq(Generations) :
                 [task EXCEPT !.at = "announce", !.base = written] \in ResponseRecords
           /\ \A i \in Installed :
                 /\ [task EXCEPT !.at = "model", !.agent = i] \in ResponseRecords
                 /\ [task EXCEPT !.at = "speak", !.voice = i] \in ResponseRecords
           /\ task.gen \in Generations
           /\ Append(task.base, task.gen) \in Seq(Generations)
<1>1. TaskCancelled \in ResponseRecords
  BY DEF TaskCancelled, Running, ResponseRecords
<1>2. ASSUME NEW where \in {"announce", "model", "record", "speak", "mark", "done"}
      PROVE  [task EXCEPT !.at = where] \in ResponseRecords
  BY DEF ResponseRecords
<1>3. ASSUME NEW g \in Generations
      PROVE  [NoTask EXCEPT !.at = "new", !.gen = g] \in ResponseRecords
  <2>1. 0 \in Installed /\ <<>> \in Seq(Generations)
    BY ConversationAssumption DEF Installed
  <2> QED
    BY <2>1 DEF NoTask, ResponseRecords
<1>4. ASSUME NEW written \in Seq(Generations)
      PROVE  [task EXCEPT !.at = "announce", !.base = written] \in ResponseRecords
  BY DEF ResponseRecords
<1>5. ASSUME NEW i \in Installed
      PROVE  /\ [task EXCEPT !.at = "model", !.agent = i] \in ResponseRecords
             /\ [task EXCEPT !.at = "speak", !.voice = i] \in ResponseRecords
  BY DEF ResponseRecords
<1>6. task.gen \in Generations /\ Append(task.base, task.gen) \in Seq(Generations)
  BY AppendProperties DEF ResponseRecords
<1> QED
  BY <1>1, <1>2, <1>3, <1>4, <1>5, <1>6

-----------------------------------------------------------------------------
(* The budget of generations *)

\* The reader has a final transcript whose turn it has not begun yet.
TurnPending ==
    \/ actor["reader"].at \in {"final", "locking"}
    \/ /\ actor["reader"].at \in {"append", "clear", "gather"}
       /\ actor["reader"].then = "turn"

\* A transfer was asked for and has not installed its agent yet; it may still
\* interrupt a turn while it waits for the lock.
SwapPending   == actor["transfer"].at \in {"locking", "append", "clear", "gather"}
TransferWaits == actor["transfer"].at = "locking"

\* The reader may interrupt the turn that is under way; it does so once, as the
\* interruption ends the turn or the reader.
InterruptPending ==
    state \in ActiveStates /\ actor["reader"].at \notin {"append", "dead"}

ClosePending == closer \in {"open", "transcriber", "conversation"}

One(condition) == IF condition THEN 1 ELSE 0

\* Each request pays for two generations at most, its turn and the one that is
\* superseded when the reader interrupts that turn; closing pays for one.
Budget ==
    /\ generation + One(InterruptPending) + 2 * One(TurnPending)
          + One(TransferWaits) + One(ClosePending) <= 2 * requests + 1
    /\ turns + One(TurnPending) <= requests
    /\ agent + One(SwapPending) <= requests + 1

\* A step counts nothing and leaves nothing new pending.
Uncounted ==
    /\ UNCHANGED <<generation, turns, agent, requests>>
    /\ InterruptPending' => InterruptPending
    /\ TurnPending' => TurnPending
    /\ TransferWaits' => TransferWaits
    /\ ClosePending' => ClosePending
    /\ SwapPending' => SwapPending

\* Such a step keeps the budget.
LEMMA BudgetKept ==
    ASSUME TypeOK, Budget, Uncounted
    PROVE  Budget'
BY DEF TypeOK, Generations, Installed, Budget, Uncounted, One

\* Where the turn state machine lets the moves of a conversation start.
LEMMA LegalMoves ==
    ASSUME state \in TurnStates
    PROVE  /\ Legal("speaking") => state = "thinking"
           /\ Legal("interrupted") => state \in ActiveStates
BY DEF Legal, AllowedTargets, TurnStates, ActiveStates

\* No step overdraws the budget.
LEMMA BudgetNext ==
    ASSUME TypeOK, Budget, Next
    PROVE  Budget'
<1>1. "reader" \in Actors /\ "transfer" \in Actors /\ Actors = {"reader", "transfer"}
  BY DEF Actors
<1>2. \A a \in Actors, where \in Positions :
           /\ At(a, where)[a].at = where
           /\ At(a, where)[a].then = actor[a].then
           /\ \A b \in Actors \ {a} : At(a, where)[b] = actor[b]
  BY MovedActor DEF TypeOK
<1>3. \A a \in Actors : Raises(a) =>
          /\ a = "reader" => actor'[a].at = "dead"
          /\ a = "transfer" => actor'[a].at = "idle"
          /\ \A b \in Actors \ {a} : actor'[b] = actor[b]
  BY RaisedActor DEF TypeOK
<1>4. \A a \in Actors, then \in {"return", "turn", "swap"} :
          Interruptible /\ InterruptBegins(a, then) =>
              /\ generation' = generation + 1
              /\ actor'[a].at = "append"
              /\ actor'[a].then = then
              /\ \A b \in Actors \ {a} : actor'[b] = actor[b]
  <2>1. \A a, then : InterruptBegins(a, then) => generation' = generation + 1
    BY DEF InterruptBegins
  <2> QED
    BY <2>1, InterruptingActor DEF TypeOK
<1>5. generation \in Nat /\ turns \in Nat /\ agent \in Nat /\ requests \in Nat
  BY DEF TypeOK, Generations, Installed
<1>6. Legal("speaking") => state = "thinking"
  BY LegalMoves DEF TypeOK
<1> USE DEF InterruptPending, TurnPending, TransferWaits, ClosePending, SwapPending,
            ActiveStates, Positions, session, provider
<1>7. ASSUME NEW a \in Actors, InterruptMoves(a) PROVE Uncounted
  BY <1>1, <1>2, <1>3, <1>7 DEF InterruptMoves, Uncounted
<1>8. ASSUME NEW a \in Actors, InterruptIllegal(a) PROVE Uncounted
  BY <1>1, <1>2, <1>3, <1>8 DEF InterruptIllegal, Uncounted
<1>9. ASSUME NEW a \in Actors, InterruptClears(a) PROVE Uncounted
  BY <1>1, <1>2, <1>3, <1>9 DEF InterruptClears, Uncounted
<1>10. ASSUME NEW a \in Actors, ClearFails(a) PROVE Uncounted
  BY <1>1, <1>2, <1>3, <1>10 DEF ClearFails, Uncounted
<1>11. ASSUME NEW a \in Actors, Interrupt(a) PROVE Uncounted \/ Budget'
  BY <1>11, <1>7, <1>8, <1>9, <1>10 DEF Interrupt
<1>12. ASSUME InterruptReturns PROVE Uncounted
  BY <1>1, <1>2, <1>3, <1>12 DEF InterruptReturns, Gathered, AfterInterrupt,
     Uncounted
<1>13. ASSUME InterruptThenTurn PROVE Budget'
  BY <1>1, <1>2, <1>3, <1>4, <1>5, <1>13 DEF InterruptThenTurn, Gathered,
     BeginTurn, Running, Budget, One
<1>14. ASSUME SpeechAppended PROVE Budget'
  BY <1>1, <1>2, <1>3, <1>4, <1>5, <1>14, BudgetKept DEF SpeechAppended,
     Interruptible, Uncounted, Budget, One
<1>15. ASSUME FinalAppended PROVE Uncounted
  BY <1>1, <1>2, <1>3, <1>15 DEF FinalAppended, Uncounted
<1>16. ASSUME FinalIdle PROVE Budget'
  BY <1>1, <1>2, <1>3, <1>4, <1>5, <1>16 DEF FinalIdle, BeginTurn, Running,
     Budget, One
<1>17. ASSUME FinalInterrupts PROVE Budget'
  BY <1>1, <1>2, <1>3, <1>4, <1>5, <1>17 DEF FinalInterrupts, Actors,
     Interruptible, Budget, One
<1>18. ASSUME FinalIllegal PROVE Budget'
  BY <1>1, <1>2, <1>3, <1>4, <1>5, <1>18 DEF FinalIllegal, Budget, One
<1>19. ASSUME ReaderStep PROVE Uncounted \/ Budget'
  BY <1>19, <1>11, <1>12, <1>13, <1>14, <1>15, <1>16, <1>17, <1>18 DEF
     ReaderStep, Actors
<1>20. ASSUME InterruptThenSwap PROVE Budget'
  BY <1>1, <1>2, <1>3, <1>4, <1>5, <1>20 DEF InterruptThenSwap, Gathered, Swap,
     AfterInterrupt, Budget, One
<1>21. ASSUME TransferIdle PROVE Budget'
  BY <1>1, <1>2, <1>3, <1>4, <1>5, <1>21 DEF TransferIdle, Swap, Budget, One
<1>22. ASSUME TransferInterrupts PROVE Budget'
  BY <1>1, <1>2, <1>3, <1>4, <1>5, <1>22 DEF TransferInterrupts, Actors,
     Interruptible, Budget, One
<1>23. ASSUME TransferClosed PROVE Uncounted
  BY <1>1, <1>2, <1>3, <1>23 DEF TransferClosed, Uncounted
<1>24. ASSUME TransferStep PROVE Uncounted \/ Budget'
  BY <1>24, <1>11, <1>20, <1>21, <1>22, <1>23 DEF TransferStep, Actors
<1>25. ASSUME TaskStarts PROVE Uncounted
  BY <1>1, <1>2, <1>3, <1>25 DEF TaskStarts, TaskAt, Base, Uncounted
<1>26. ASSUME TaskAnnounces PROVE Uncounted
  BY <1>1, <1>2, <1>3, <1>26 DEF TaskAnnounces, TaskAt, Uncounted
<1>27. ASSUME ModelAnswers PROVE Uncounted
  BY <1>1, <1>2, <1>3, <1>27 DEF ModelAnswers, TaskAt, Uncounted
<1>28. ASSUME TaskRecords PROVE Uncounted
  BY <1>1, <1>2, <1>3, <1>28, <1>6 DEF TaskRecords, TaskAt, Uncounted
<1>29. ASSUME TaskSpoken PROVE Uncounted
  BY <1>1, <1>2, <1>3, <1>29 DEF TaskSpoken, TaskAt, Uncounted
<1>30. ASSUME TaskMarks PROVE Uncounted
  BY <1>1, <1>2, <1>3, <1>30 DEF TaskMarks, TaskAt, Ends, Uncounted
<1>31. ASSUME TaskEndsCancelled PROVE Uncounted
  BY <1>1, <1>2, <1>3, <1>31 DEF TaskEndsCancelled, Uncounted
<1>32. ASSUME NEW fails \in BOOLEAN, StrayEnds(fails) PROVE Uncounted
  BY <1>1, <1>2, <1>3, <1>32 DEF StrayEnds, Uncounted
<1>33. ASSUME TaskStep PROVE Uncounted \/ Budget'
  BY <1>33, <1>25, <1>26, <1>27, <1>28, <1>29, <1>30, <1>31, <1>32 DEF TaskStep
<1>34. ASSUME ReaderStops PROVE Uncounted
  BY <1>1, <1>2, <1>3, <1>34 DEF ReaderStops, Uncounted
<1>35. ASSUME ConversationCloses PROVE Budget'
  BY <1>1, <1>2, <1>3, <1>4, <1>5, <1>35 DEF ConversationCloses, Budget, One
<1>36. ASSUME CloseClears PROVE Uncounted
  BY <1>1, <1>2, <1>3, <1>36 DEF CloseClears, Uncounted
<1>37. ASSUME CloseFails PROVE Uncounted
  BY <1>1, <1>2, <1>3, <1>37 DEF CloseFails, Uncounted
<1>38. ASSUME CloseEnds PROVE Uncounted
  BY <1>1, <1>2, <1>3, <1>38 DEF CloseEnds, Uncounted
<1>39. ASSUME CloserStep PROVE Uncounted \/ Budget'
  BY <1>39, <1>34, <1>35, <1>36, <1>37, <1>38 DEF CloserStep
<1>40. ASSUME HearSpeech PROVE Uncounted
  BY <1>1, <1>2, <1>3, <1>40 DEF HearSpeech, Hears, Uncounted
<1>41. ASSUME HearFinal PROVE Budget'
  BY <1>1, <1>2, <1>3, <1>4, <1>5, <1>41 DEF HearFinal, Hears, Budget, One
<1>42. ASSUME ReaderFails PROVE Uncounted
  BY <1>1, <1>2, <1>3, <1>42 DEF ReaderFails, Uncounted
<1>43. ASSUME TransferBegins PROVE Budget'
  BY <1>1, <1>2, <1>3, <1>4, <1>5, <1>43 DEF TransferBegins, Budget, One
<1>44. ASSUME TransferFails PROVE Uncounted
  BY <1>1, <1>2, <1>3, <1>44 DEF TransferFails, Uncounted
<1>45. ASSUME ModelFails PROVE Uncounted
  BY <1>1, <1>2, <1>3, <1>45 DEF ModelFails, TaskAt, Ends, AfterFailure,
     Uncounted
<1>46. ASSUME TaskAppendFails PROVE Uncounted
  BY <1>1, <1>2, <1>3, <1>46 DEF TaskAppendFails, TaskAt, Ends, Uncounted
<1>47. ASSUME TaskSpeaks PROVE Uncounted
  BY <1>1, <1>2, <1>3, <1>47 DEF TaskSpeaks, TaskAt, Uncounted
<1>48. ASSUME SpeechFails PROVE Uncounted
  BY <1>1, <1>2, <1>3, <1>48 DEF SpeechFails, TaskAt, Ends, AfterFailure,
     Uncounted
<1>49. ASSUME NEW g \in audio, ProviderPlays(g) PROVE Uncounted
  BY <1>1, <1>2, <1>3, <1>49 DEF ProviderPlays, Uncounted
<1>50. ASSUME NEW g \in marks, MarkReturns(g) PROVE Uncounted
  BY <1>1, <1>2, <1>3, <1>50 DEF MarkReturns, Uncounted
<1>51. ASSUME Disconnects PROVE Uncounted
  BY <1>1, <1>2, <1>3, <1>51 DEF Disconnects, Uncounted
<1>52. ASSUME PlaybackFails PROVE Uncounted
  BY <1>1, <1>2, <1>3, <1>52 DEF PlaybackFails, Uncounted
<1>53. ASSUME CloseRequested PROVE Uncounted
  BY <1>1, <1>2, <1>3, <1>53 DEF CloseRequested, CloseBegins, Uncounted
<1>54. ASSUME Environment PROVE Uncounted \/ Budget'
  BY <1>54, <1>40, <1>41, <1>42, <1>43, <1>44, <1>45, <1>46, <1>47, <1>48,
     <1>49, <1>50, <1>51, <1>52, <1>53, <1>32 DEF Environment
<1>55. ASSUME PlaybackCompletes PROVE Uncounted
  BY <1>1, <1>2, <1>3, <1>55 DEF PlaybackCompletes, Uncounted
<1>56. ASSUME SocketCloses PROVE Uncounted
  BY <1>1, <1>2, <1>3, <1>56 DEF SocketCloses, CloseBegins, Uncounted
<1> QED
  BY <1>19, <1>24, <1>33, <1>39, <1>54, <1>55, <1>56, BudgetKept DEF Next,
     Progress

-----------------------------------------------------------------------------
(* Type correctness *)

\* A step keeps the type invariant; the budget bounds what it counts.
LEMMA TypeNext ==
    ASSUME TypeOK, Budget', Next
    PROVE  TypeOK'
<1>1. "reader" \in Actors /\ "transfer" \in Actors
  BY DEF Actors
<1>2. \A a \in Actors, where \in Positions : At(a, where) \in [Actors -> ActorRecords]
  BY MovedActor DEF TypeOK
<1>3. \A a \in Actors : Raises(a) =>
          actor' \in [Actors -> ActorRecords] /\ lock' \in Actors \cup {"free"}
  BY RaisedActor DEF TypeOK
<1>4. \A a \in Actors, then \in {"return", "turn", "swap"} :
          Interruptible /\ InterruptBegins(a, then) =>
              /\ actor' \in [Actors -> ActorRecords]
              /\ mark' = 0
              /\ generation' = generation + 1
  <2>1. \A a, then : InterruptBegins(a, then) => mark' = 0 /\ generation' = generation + 1
    BY SMTT(30) DEF InterruptBegins
  <2> QED
    BY <2>1, InterruptingActor DEF TypeOK
<1>5. /\ TaskCancelled \in ResponseRecords
      /\ \A where \in {"announce", "model", "record", "speak", "mark", "done"} :
            [task EXCEPT !.at = where] \in ResponseRecords
      /\ \A g \in Generations : [NoTask EXCEPT !.at = "new", !.gen = g] \in ResponseRecords
      /\ \A written \in Seq(Generations) :
            [task EXCEPT !.at = "announce", !.base = written] \in ResponseRecords
      /\ \A i \in Installed : /\ [task EXCEPT !.at = "model", !.agent = i] \in ResponseRecords
                              /\ [task EXCEPT !.at = "speak", !.voice = i] \in ResponseRecords
      /\ task.gen \in Generations /\ Append(task.base, task.gen) \in Seq(Generations)
  BY ResponseType DEF TypeOK
<1>6. /\ generation \in Nat /\ turns \in Nat /\ agent \in Nat
      /\ requests \in 0 .. MaxRequests
      /\ requests' \in 0 .. MaxRequests =>
            /\ generation' \in Nat => generation' \in Generations
            /\ turns' \in Nat => turns' \in 0 .. MaxRequests
            /\ agent' \in Nat => agent' \in Installed
  BY ConversationAssumption, SMTT(30) DEF TypeOK, Budget, One, Generations, Installed
<1>7. 0 \in Generations
  BY ConversationAssumption DEF Generations
<1> USE ConversationAssumption DEF TypeOK, Positions, session, provider
<1>8. ASSUME NEW a \in Actors, InterruptMoves(a) PROVE TypeOK'
  BY <1>1, <1>2, <1>3, <1>4, <1>5, <1>7, <1>8 DEF InterruptMoves, TurnStates
<1>9. ASSUME NEW a \in Actors, InterruptIllegal(a) PROVE TypeOK'
  BY <1>1, <1>2, <1>3, <1>4, <1>5, <1>7, <1>9 DEF InterruptIllegal
<1>10. ASSUME NEW a \in Actors, InterruptClears(a) PROVE TypeOK'
  BY <1>1, <1>2, <1>3, <1>4, <1>5, <1>7, <1>10 DEF InterruptClears
<1>11. ASSUME NEW a \in Actors, ClearFails(a) PROVE TypeOK'
  BY <1>1, <1>2, <1>3, <1>4, <1>5, <1>7, <1>11 DEF ClearFails
<1>12. ASSUME NEW a \in Actors, Interrupt(a) PROVE TypeOK'
  BY <1>12, <1>8, <1>9, <1>10, <1>11, SMTT(30) DEF Interrupt
<1>13. ASSUME InterruptReturns PROVE TypeOK'
  BY <1>1, <1>2, <1>3, <1>4, <1>5, <1>7, <1>13 DEF InterruptReturns, Gathered,
     AfterInterrupt, TurnStates
<1>14. ASSUME InterruptThenTurn PROVE TypeOK'
  <2>1. /\ generation' \in Nat /\ turns' \in Nat /\ agent' \in Nat
        /\ requests' \in 0 .. MaxRequests
    BY <1>1, <1>4, <1>6, <1>14, SMTT(30) DEF InterruptThenTurn, Gathered, BeginTurn,
       Running, TurnStates
  <2>2. /\ generation' \in Generations /\ turns' \in 0 .. MaxRequests
        /\ agent' \in Installed
    BY <1>6, <2>1
  <2> QED
    BY <1>1, <1>2, <1>3, <1>4, <1>5, <1>7, <2>1, <2>2, <1>14 DEF
       InterruptThenTurn, Gathered, BeginTurn, Running, TurnStates
<1>15. ASSUME SpeechAppended PROVE TypeOK'
  <2>1. /\ generation' \in Nat /\ turns' \in Nat /\ agent' \in Nat
        /\ requests' \in 0 .. MaxRequests
    BY <1>1, <1>4, <1>6, <1>15 DEF SpeechAppended
  <2>2. /\ generation' \in Generations /\ turns' \in 0 .. MaxRequests
        /\ agent' \in Installed
    BY <1>6, <2>1
  <2> QED
    BY <1>1, <1>2, <1>3, <1>4, <1>5, <1>7, <2>1, <2>2, <1>15 DEF SpeechAppended
<1>16. ASSUME FinalAppended PROVE TypeOK'
  BY <1>1, <1>2, <1>3, <1>4, <1>5, <1>7, <1>16 DEF FinalAppended
<1>17. ASSUME FinalIdle PROVE TypeOK'
  <2>1. /\ generation' \in Nat /\ turns' \in Nat /\ agent' \in Nat
        /\ requests' \in 0 .. MaxRequests
    BY <1>1, <1>4, <1>6, <1>17, SMTT(30) DEF FinalIdle, BeginTurn, Running, TurnStates
  <2>2. /\ generation' \in Generations /\ turns' \in 0 .. MaxRequests
        /\ agent' \in Installed
    BY <1>6, <2>1
  <2> QED
    BY <1>1, <1>2, <1>3, <1>4, <1>5, <1>7, <2>1, <2>2, <1>17 DEF FinalIdle,
       BeginTurn, Running, TurnStates
<1>18. ASSUME FinalInterrupts PROVE TypeOK'
  <2>1. /\ generation' \in Nat /\ turns' \in Nat /\ agent' \in Nat
        /\ requests' \in 0 .. MaxRequests
    BY <1>1, <1>4, <1>6, <1>18 DEF FinalInterrupts, Actors
  <2>2. /\ generation' \in Generations /\ turns' \in 0 .. MaxRequests
        /\ agent' \in Installed
    BY <1>6, <2>1
  <2> QED
    BY <1>1, <1>2, <1>3, <1>4, <1>5, <1>7, <2>1, <2>2, <1>18 DEF
       FinalInterrupts, Actors
<1>19. ASSUME FinalIllegal PROVE TypeOK'
  <2>1. /\ generation' \in Nat /\ turns' \in Nat /\ agent' \in Nat
        /\ requests' \in 0 .. MaxRequests
    BY <1>1, <1>4, <1>6, <1>19 DEF FinalIllegal
  <2>2. /\ generation' \in Generations /\ turns' \in 0 .. MaxRequests
        /\ agent' \in Installed
    BY <1>6, <2>1
  <2> QED
    BY <1>1, <1>2, <1>3, <1>4, <1>5, <1>7, <2>1, <2>2, <1>19 DEF FinalIllegal
<1>20. CASE ReaderStep
  BY <1>20, <1>12, <1>13, <1>14, <1>15, <1>16, <1>17, <1>18, <1>19 DEF
     ReaderStep, Actors
<1>21. ASSUME InterruptThenSwap PROVE TypeOK'
  <2>1. /\ generation' \in Nat /\ turns' \in Nat /\ agent' \in Nat
        /\ requests' \in 0 .. MaxRequests
    BY <1>1, <1>4, <1>6, <1>21 DEF InterruptThenSwap, Gathered, Swap,
       AfterInterrupt, TurnStates
  <2>2. /\ generation' \in Generations /\ turns' \in 0 .. MaxRequests
        /\ agent' \in Installed
    BY <1>6, <2>1
  <2> QED
    BY <1>1, <1>2, <1>3, <1>4, <1>5, <1>7, <2>1, <2>2, <1>21 DEF
       InterruptThenSwap, Gathered, Swap, AfterInterrupt, TurnStates
<1>22. ASSUME TransferIdle PROVE TypeOK'
  <2>1. /\ generation' \in Nat /\ turns' \in Nat /\ agent' \in Nat
        /\ requests' \in 0 .. MaxRequests
    BY <1>1, <1>4, <1>6, <1>22 DEF TransferIdle, Swap
  <2>2. /\ generation' \in Generations /\ turns' \in 0 .. MaxRequests
        /\ agent' \in Installed
    BY <1>6, <2>1
  <2> QED
    BY <1>1, <1>2, <1>3, <1>4, <1>5, <1>7, <2>1, <2>2, <1>22 DEF TransferIdle,
       Swap
<1>23. ASSUME TransferInterrupts PROVE TypeOK'
  <2>1. /\ generation' \in Nat /\ turns' \in Nat /\ agent' \in Nat
        /\ requests' \in 0 .. MaxRequests
    BY <1>1, <1>4, <1>6, <1>23 DEF TransferInterrupts, Actors
  <2>2. /\ generation' \in Generations /\ turns' \in 0 .. MaxRequests
        /\ agent' \in Installed
    BY <1>6, <2>1
  <2> QED
    BY <1>1, <1>2, <1>3, <1>4, <1>5, <1>7, <2>1, <2>2, <1>23 DEF
       TransferInterrupts, Actors
<1>24. ASSUME TransferClosed PROVE TypeOK'
  BY <1>1, <1>2, <1>3, <1>4, <1>5, <1>7, <1>24 DEF TransferClosed
<1>25. CASE TransferStep
  BY <1>25, <1>12, <1>21, <1>22, <1>23, <1>24 DEF TransferStep, Actors
<1>26. ASSUME TaskStarts PROVE TypeOK'
  BY <1>1, <1>2, <1>3, <1>4, <1>5, <1>7, <1>26 DEF TaskStarts, TaskAt, Base
<1>27. ASSUME TaskAnnounces PROVE TypeOK'
  BY <1>1, <1>2, <1>3, <1>4, <1>5, <1>7, <1>27 DEF TaskAnnounces, TaskAt
<1>28. ASSUME ModelAnswers PROVE TypeOK'
  BY <1>1, <1>2, <1>3, <1>4, <1>5, <1>7, <1>28 DEF ModelAnswers, TaskAt
<1>29. ASSUME TaskRecords PROVE TypeOK'
  BY <1>1, <1>2, <1>3, <1>4, <1>5, <1>7, <1>29 DEF TaskRecords, TaskAt,
     TurnStates
<1>30. ASSUME TaskSpoken PROVE TypeOK'
  BY <1>1, <1>2, <1>3, <1>4, <1>5, <1>7, <1>30 DEF TaskSpoken, TaskAt
<1>31. ASSUME TaskMarks PROVE TypeOK'
  BY <1>1, <1>2, <1>3, <1>4, <1>5, <1>7, <1>31 DEF TaskMarks, TaskAt, Ends
<1>32. ASSUME TaskEndsCancelled PROVE TypeOK'
  BY <1>1, <1>2, <1>3, <1>4, <1>5, <1>7, <1>32 DEF TaskEndsCancelled
<1>33. ASSUME NEW fails \in BOOLEAN, StrayEnds(fails) PROVE TypeOK'
  BY <1>1, <1>2, <1>3, <1>4, <1>5, <1>7, <1>33 DEF StrayEnds
<1>34. CASE TaskStep
  BY <1>34, <1>26, <1>27, <1>28, <1>29, <1>30, <1>31, <1>32, <1>33 DEF TaskStep
<1>35. ASSUME ReaderStops PROVE TypeOK'
  BY <1>1, <1>2, <1>3, <1>4, <1>5, <1>7, <1>35 DEF ReaderStops
<1>36. ASSUME ConversationCloses PROVE TypeOK'
  <2>1. /\ generation' \in Nat /\ turns' \in Nat /\ agent' \in Nat
        /\ requests' \in 0 .. MaxRequests
    BY <1>1, <1>4, <1>6, <1>36 DEF ConversationCloses
  <2>2. /\ generation' \in Generations /\ turns' \in 0 .. MaxRequests
        /\ agent' \in Installed
    BY <1>6, <2>1
  <2> QED
    BY <1>1, <1>2, <1>3, <1>4, <1>5, <1>7, <2>1, <2>2, <1>36 DEF
       ConversationCloses
<1>37. ASSUME CloseClears PROVE TypeOK'
  BY <1>1, <1>2, <1>3, <1>4, <1>5, <1>7, <1>37 DEF CloseClears
<1>38. ASSUME CloseFails PROVE TypeOK'
  BY <1>1, <1>2, <1>3, <1>4, <1>5, <1>7, <1>38 DEF CloseFails
<1>39. ASSUME CloseEnds PROVE TypeOK'
  BY <1>1, <1>2, <1>3, <1>4, <1>5, <1>7, <1>39 DEF CloseEnds, TurnStates
<1>40. CASE CloserStep
  BY <1>40, <1>35, <1>36, <1>37, <1>38, <1>39, SMTT(30) DEF CloserStep
<1>41. ASSUME HearSpeech PROVE TypeOK'
  BY <1>1, <1>2, <1>3, <1>4, <1>5, <1>7, <1>41 DEF HearSpeech, Hears
<1>42. ASSUME HearFinal PROVE TypeOK'
  <2>1. /\ generation' \in Nat /\ turns' \in Nat /\ agent' \in Nat
        /\ requests' \in 0 .. MaxRequests
    BY <1>1, <1>4, <1>6, <1>42 DEF HearFinal, Hears
  <2>2. /\ generation' \in Generations /\ turns' \in 0 .. MaxRequests
        /\ agent' \in Installed
    BY <1>6, <2>1
  <2> QED
    BY <1>1, <1>2, <1>3, <1>4, <1>5, <1>7, <2>1, <2>2, <1>42 DEF HearFinal,
       Hears
<1>43. ASSUME ReaderFails PROVE TypeOK'
  BY <1>1, <1>2, <1>3, <1>4, <1>5, <1>7, <1>43 DEF ReaderFails
<1>44. ASSUME TransferBegins PROVE TypeOK'
  <2>1. /\ generation' \in Nat /\ turns' \in Nat /\ agent' \in Nat
        /\ requests' \in 0 .. MaxRequests
    BY <1>1, <1>4, <1>6, <1>44 DEF TransferBegins
  <2>2. /\ generation' \in Generations /\ turns' \in 0 .. MaxRequests
        /\ agent' \in Installed
    BY <1>6, <2>1
  <2> QED
    BY <1>1, <1>2, <1>3, <1>4, <1>5, <1>7, <2>1, <2>2, <1>44 DEF TransferBegins
<1>45. ASSUME TransferFails PROVE TypeOK'
  BY <1>1, <1>2, <1>3, <1>4, <1>5, <1>7, <1>45 DEF TransferFails
<1>46. ASSUME ModelFails PROVE TypeOK'
  BY <1>1, <1>2, <1>3, <1>4, <1>5, <1>7, <1>46 DEF ModelFails, TaskAt, Ends,
     AfterFailure, TurnStates
<1>47. ASSUME TaskAppendFails PROVE TypeOK'
  BY <1>1, <1>2, <1>3, <1>4, <1>5, <1>7, <1>47 DEF TaskAppendFails, TaskAt, Ends
<1>48. ASSUME TaskSpeaks PROVE TypeOK'
  BY <1>1, <1>2, <1>3, <1>4, <1>5, <1>7, <1>48 DEF TaskSpeaks, TaskAt
<1>49. ASSUME SpeechFails PROVE TypeOK'
  BY <1>1, <1>2, <1>3, <1>4, <1>5, <1>7, <1>49 DEF SpeechFails, TaskAt, Ends,
     AfterFailure, TurnStates
<1>50. ASSUME NEW g \in audio, ProviderPlays(g) PROVE TypeOK'
  BY <1>1, <1>2, <1>3, <1>4, <1>5, <1>7, <1>50 DEF ProviderPlays
<1>51. ASSUME NEW g \in marks, MarkReturns(g) PROVE TypeOK'
  BY <1>1, <1>2, <1>3, <1>4, <1>5, <1>7, <1>51 DEF MarkReturns
<1>52. ASSUME Disconnects PROVE TypeOK'
  BY <1>1, <1>2, <1>3, <1>4, <1>5, <1>7, <1>52 DEF Disconnects
<1>53. ASSUME PlaybackFails PROVE TypeOK'
  BY <1>1, <1>2, <1>3, <1>4, <1>5, <1>7, <1>53 DEF PlaybackFails
<1>54. ASSUME CloseRequested PROVE TypeOK'
  BY <1>1, <1>2, <1>3, <1>4, <1>5, <1>7, <1>54 DEF CloseRequested, CloseBegins
<1>55. CASE Environment
  BY <1>55, <1>41, <1>42, <1>43, <1>44, <1>45, <1>46, <1>47, <1>48, <1>49,
     <1>50, <1>51, <1>52, <1>53, <1>54, <1>33 DEF Environment
<1>56. ASSUME PlaybackCompletes PROVE TypeOK'
  BY <1>1, <1>2, <1>3, <1>4, <1>5, <1>7, <1>56 DEF PlaybackCompletes, TurnStates
<1>57. ASSUME SocketCloses PROVE TypeOK'
  BY <1>1, <1>2, <1>3, <1>4, <1>5, <1>7, <1>57 DEF SocketCloses, CloseBegins
<1> QED
  BY <1>20, <1>25, <1>34, <1>40, <1>55, <1>56, <1>57 DEF Next, Progress

-----------------------------------------------------------------------------
(* The response and its turn *)

Early == {"new", "announce", "model", "record"}

\* A response that has not written its exchange belongs to a turn under way,
\* or to an interrupted one and is cancelled; it builds on the history as it
\* is, and its agent is still the installed one.
ResponseInv ==
    /\ task.at \in Early => state \in {"thinking", "interrupted"} /\ task.voice = 0
    /\ state = "thinking" => task.at \in Early \cup {"done"}
    /\ state = "interrupted" /\ Running => task.cancelled
    /\ task.at \in {"announce", "model", "record"} => task.base = history
    /\ task.at \in {"model", "record"} /\ ~ task.cancelled => task.agent = agent
    /\ TurnHasOneAgent

\* Interruption, transfer, failure and the close of the session keep it.
LEMMA ResponseNext ==
    ASSUME TypeOK, ResponseInv, Next
    PROVE  ResponseInv'
<1>1. task \in ResponseRecords /\ state \in TurnStates
  BY DEF TypeOK
<1>2. /\ Legal("speaking") => state = "thinking"
      /\ Legal("interrupted") => state \in ActiveStates
  BY <1>1, LegalMoves
<1> USE DEF ResponseInv, Running, ResponseRecords, Early, TurnHasOneAgent,
            session, provider
<1>3. ASSUME NEW a \in Actors, InterruptMoves(a) PROVE ResponseInv'
  BY <1>1, <1>2, <1>3 DEF InterruptMoves, TaskCancelled
<1>4. ASSUME NEW a \in Actors, InterruptIllegal(a) PROVE ResponseInv'
  BY <1>1, <1>2, <1>4 DEF InterruptIllegal
<1>5. ASSUME NEW a \in Actors, InterruptClears(a) PROVE ResponseInv'
  BY <1>1, <1>2, <1>5 DEF InterruptClears
<1>6. ASSUME NEW a \in Actors, ClearFails(a) PROVE ResponseInv'
  BY <1>1, <1>2, <1>6 DEF ClearFails
<1>7. ASSUME NEW a \in Actors, Interrupt(a) PROVE ResponseInv'
  BY <1>7, <1>3, <1>4, <1>5, <1>6 DEF Interrupt
<1>8. ASSUME InterruptReturns PROVE ResponseInv'
  BY <1>1, <1>2, <1>8 DEF InterruptReturns, Gathered, AfterInterrupt
<1>9. ASSUME InterruptThenTurn PROVE ResponseInv'
  BY <1>1, <1>2, <1>9 DEF InterruptThenTurn, Gathered, BeginTurn, Running,
     TurnStates, NoTask, AllowedTargets, AfterInterrupt
<1>10. ASSUME SpeechAppended PROVE ResponseInv'
  BY <1>1, <1>2, <1>10 DEF SpeechAppended, Interruptible, ActiveStates
<1>11. ASSUME FinalAppended PROVE ResponseInv'
  BY <1>1, <1>2, <1>11 DEF FinalAppended
<1>12. ASSUME FinalIdle PROVE ResponseInv'
  BY <1>1, <1>2, <1>12 DEF FinalIdle, BeginTurn, Running, TurnStates, NoTask,
     AllowedTargets, AfterInterrupt
<1>13. ASSUME FinalInterrupts PROVE ResponseInv'
  BY <1>1, <1>2, <1>13 DEF FinalInterrupts, Actors, Interruptible, ActiveStates
<1>14. ASSUME FinalIllegal PROVE ResponseInv'
  BY <1>1, <1>2, <1>14 DEF FinalIllegal
<1>15. CASE ReaderStep
  BY <1>15, <1>7, <1>8, <1>9, <1>10, <1>11, <1>12, <1>13, <1>14 DEF ReaderStep,
     Actors
<1>16. ASSUME InterruptThenSwap PROVE ResponseInv'
  BY <1>1, <1>2, <1>16 DEF InterruptThenSwap, Gathered, Swap, AfterInterrupt
<1>17. ASSUME TransferIdle PROVE ResponseInv'
  BY <1>1, <1>2, <1>17 DEF TransferIdle, Swap, Interruptible, ActiveStates
<1>18. ASSUME TransferInterrupts PROVE ResponseInv'
  BY <1>1, <1>2, <1>18 DEF TransferInterrupts, Actors, Interruptible,
     ActiveStates
<1>19. ASSUME TransferClosed PROVE ResponseInv'
  BY <1>1, <1>2, <1>19 DEF TransferClosed
<1>20. CASE TransferStep
  BY <1>20, <1>7, <1>16, <1>17, <1>18, <1>19 DEF TransferStep, Actors
<1>21. ASSUME TaskStarts PROVE ResponseInv'
  BY <1>1, <1>2, <1>21 DEF TaskStarts, TaskAt, Base
<1>22. ASSUME TaskAnnounces PROVE ResponseInv'
  BY <1>1, <1>2, <1>22 DEF TaskAnnounces, TaskAt
<1>23. ASSUME ModelAnswers PROVE ResponseInv'
  BY <1>1, <1>2, <1>23 DEF ModelAnswers, TaskAt
<1>24. ASSUME TaskRecords PROVE ResponseInv'
  BY <1>1, <1>2, <1>24 DEF TaskRecords, TaskAt
<1>25. ASSUME TaskSpoken PROVE ResponseInv'
  BY <1>1, <1>2, <1>25 DEF TaskSpoken, TaskAt
<1>26. ASSUME TaskMarks PROVE ResponseInv'
  BY <1>1, <1>2, <1>26 DEF TaskMarks, TaskAt, Ends
<1>27. ASSUME TaskEndsCancelled PROVE ResponseInv'
  BY <1>1, <1>2, <1>27 DEF TaskEndsCancelled
<1>28. ASSUME NEW fails \in BOOLEAN, StrayEnds(fails) PROVE ResponseInv'
  BY <1>1, <1>2, <1>28 DEF StrayEnds
<1>29. CASE TaskStep
  BY <1>29, <1>21, <1>22, <1>23, <1>24, <1>25, <1>26, <1>27, <1>28 DEF TaskStep
<1>30. ASSUME ReaderStops PROVE ResponseInv'
  BY <1>1, <1>2, <1>30 DEF ReaderStops
<1>31. ASSUME ConversationCloses PROVE ResponseInv'
  BY <1>1, <1>2, <1>31 DEF ConversationCloses, TaskCancelled
<1>32. ASSUME CloseClears PROVE ResponseInv'
  BY <1>1, <1>2, <1>32 DEF CloseClears
<1>33. ASSUME CloseFails PROVE ResponseInv'
  BY <1>1, <1>2, <1>33 DEF CloseFails
<1>34. ASSUME CloseEnds PROVE ResponseInv'
  BY <1>1, <1>2, <1>34 DEF CloseEnds
<1>35. CASE CloserStep
  BY <1>35, <1>30, <1>31, <1>32, <1>33, <1>34 DEF CloserStep
<1>36. ASSUME HearSpeech PROVE ResponseInv'
  BY <1>1, <1>2, <1>36 DEF HearSpeech, Hears
<1>37. ASSUME HearFinal PROVE ResponseInv'
  BY <1>1, <1>2, <1>37 DEF HearFinal, Hears
<1>38. ASSUME ReaderFails PROVE ResponseInv'
  BY <1>1, <1>2, <1>38 DEF ReaderFails
<1>39. ASSUME TransferBegins PROVE ResponseInv'
  BY <1>1, <1>2, <1>39 DEF TransferBegins
<1>40. ASSUME TransferFails PROVE ResponseInv'
  BY <1>1, <1>2, <1>40 DEF TransferFails
<1>41. ASSUME ModelFails PROVE ResponseInv'
  BY <1>1, <1>2, <1>41 DEF ModelFails, TaskAt, Ends, AfterFailure
<1>42. ASSUME TaskAppendFails PROVE ResponseInv'
  BY <1>1, <1>2, <1>42 DEF TaskAppendFails, TaskAt, Ends
<1>43. ASSUME TaskSpeaks PROVE ResponseInv'
  BY <1>1, <1>2, <1>43 DEF TaskSpeaks, TaskAt
<1>44. ASSUME SpeechFails PROVE ResponseInv'
  BY <1>1, <1>2, <1>44 DEF SpeechFails, TaskAt, Ends, AfterFailure
<1>45. ASSUME NEW g \in audio, ProviderPlays(g) PROVE ResponseInv'
  BY <1>1, <1>2, <1>45 DEF ProviderPlays
<1>46. ASSUME NEW g \in marks, MarkReturns(g) PROVE ResponseInv'
  BY <1>1, <1>2, <1>46 DEF MarkReturns
<1>47. ASSUME Disconnects PROVE ResponseInv'
  BY <1>1, <1>2, <1>47 DEF Disconnects
<1>48. ASSUME PlaybackFails PROVE ResponseInv'
  BY <1>1, <1>2, <1>48 DEF PlaybackFails
<1>49. ASSUME CloseRequested PROVE ResponseInv'
  BY <1>1, <1>2, <1>49 DEF CloseRequested, CloseBegins
<1>50. CASE Environment
  BY <1>50, <1>36, <1>37, <1>38, <1>39, <1>40, <1>41, <1>42, <1>43, <1>44,
     <1>45, <1>46, <1>47, <1>48, <1>49, <1>28 DEF Environment
<1>51. ASSUME PlaybackCompletes PROVE ResponseInv'
  BY <1>1, <1>2, <1>51 DEF PlaybackCompletes
<1>52. ASSUME SocketCloses PROVE ResponseInv'
  BY <1>1, <1>2, <1>52 DEF SocketCloses, CloseBegins
<1> QED
  BY <1>15, <1>20, <1>29, <1>35, <1>50, <1>51, <1>52 DEF Next, Progress

-----------------------------------------------------------------------------
(* What an interruption silences *)

\* The reader interrupts a turn whose generation is over: it is not played any
\* more once playback is cleared, and it was never played if the turn was
\* still thinking when the interruption began.
SilenceInv ==
    /\ task.gen <= generation
    /\ \A g \in audio : g <= generation
    /\ state = "thinking" => task.gen \notin audio
    /\ actor["reader"].at \in {"append", "clear", "gather"} =>
        /\ task.gen # generation
        /\ actor["reader"].prev \in ActiveStates
        /\ actor["reader"].prev = "thinking" \/ actor["reader"].at = "gather" =>
              task.gen \notin audio

\* No step of any task gives the interrupted turn its voice back.
LEMMA SilenceNext ==
    ASSUME TypeOK, ResponseInv, SilenceInv, Next
    PROVE  SilenceInv'
<1>1. /\ task \in ResponseRecords /\ state \in TurnStates /\ generation \in Nat
      /\ audio \subseteq Nat
  BY DEF TypeOK, Generations
<1>2. "reader" \in Actors /\ "transfer" \in Actors /\ Actors = {"reader", "transfer"}
  BY DEF Actors
<1>3. \A a \in Actors, where \in Positions :
           /\ At(a, where)[a].at = where
           /\ At(a, where)[a].prev = actor[a].prev
           /\ \A b \in Actors \ {a} : At(a, where)[b] = actor[b]
  BY MovedActor DEF TypeOK
<1>4. \A a \in Actors : Raises(a) =>
          /\ a = "reader" => actor'[a].at = "dead"
          /\ a = "transfer" => actor'[a].at = "idle"
          /\ \A b \in Actors \ {a} : actor'[b] = actor[b]
  BY RaisedActor DEF TypeOK
<1>5. \A a \in Actors, then \in {"return", "turn", "swap"} :
          Interruptible /\ InterruptBegins(a, then) =>
              /\ actor'[a].at = "append"
              /\ actor'[a].prev = state
              /\ \A b \in Actors \ {a} : actor'[b] = actor[b]
  BY InterruptingActor DEF TypeOK
<1> USE DEF SilenceInv, Running, ResponseRecords, Generations, Positions,
            session, provider
<1>6. ASSUME NEW a \in Actors, InterruptMoves(a) PROVE SilenceInv'
  BY <1>1, <1>2, <1>3, <1>4, <1>5, <1>6 DEF InterruptMoves, TaskCancelled,
     WasSpeaking, ActiveStates
<1>7. ASSUME NEW a \in Actors, InterruptIllegal(a) PROVE SilenceInv'
  BY <1>1, <1>2, <1>3, <1>4, <1>5, <1>7 DEF InterruptIllegal
<1>8. ASSUME NEW a \in Actors, InterruptClears(a) PROVE SilenceInv'
  BY <1>1, <1>2, <1>3, <1>4, <1>5, <1>8 DEF InterruptClears
<1>9. ASSUME NEW a \in Actors, ClearFails(a) PROVE SilenceInv'
  BY <1>1, <1>2, <1>3, <1>4, <1>5, <1>9 DEF ClearFails
<1>10. ASSUME NEW a \in Actors, Interrupt(a) PROVE SilenceInv'
  BY <1>10, <1>6, <1>7, <1>8, <1>9 DEF Interrupt
<1>11. ASSUME InterruptReturns PROVE SilenceInv'
  BY <1>1, <1>2, <1>3, <1>4, <1>5, <1>11 DEF InterruptReturns, Gathered,
     AfterInterrupt
<1>12. ASSUME InterruptThenTurn PROVE SilenceInv'
  BY <1>1, <1>2, <1>3, <1>4, <1>5, <1>12 DEF InterruptThenTurn, Gathered,
     BeginTurn, Running, TurnStates, NoTask, AllowedTargets, AfterInterrupt
<1>13. ASSUME SpeechAppended PROVE SilenceInv'
  BY <1>1, <1>2, <1>3, <1>4, <1>5, <1>13 DEF SpeechAppended, Interruptible,
     ActiveStates, InterruptBegins
<1>14. ASSUME FinalAppended PROVE SilenceInv'
  BY <1>1, <1>2, <1>3, <1>4, <1>5, <1>14 DEF FinalAppended
<1>15. ASSUME FinalIdle PROVE SilenceInv'
  BY <1>1, <1>2, <1>3, <1>4, <1>5, <1>15 DEF FinalIdle, BeginTurn, Running,
     TurnStates, NoTask, AllowedTargets, AfterInterrupt
<1>16. ASSUME FinalInterrupts PROVE SilenceInv'
  BY <1>1, <1>2, <1>3, <1>4, <1>5, <1>16 DEF FinalInterrupts, Actors,
     Interruptible, ActiveStates, InterruptBegins
<1>17. ASSUME FinalIllegal PROVE SilenceInv'
  BY <1>1, <1>2, <1>3, <1>4, <1>5, <1>17 DEF FinalIllegal
<1>18. CASE ReaderStep
  BY <1>18, <1>10, <1>11, <1>12, <1>13, <1>14, <1>15, <1>16, <1>17 DEF
     ReaderStep, Actors
<1>19. ASSUME InterruptThenSwap PROVE SilenceInv'
  BY <1>1, <1>2, <1>3, <1>4, <1>5, <1>19 DEF InterruptThenSwap, Gathered, Swap,
     AfterInterrupt
<1>20. ASSUME TransferIdle PROVE SilenceInv'
  BY <1>1, <1>2, <1>3, <1>4, <1>5, <1>20 DEF TransferIdle, Swap, Interruptible,
     ActiveStates
<1>21. ASSUME TransferInterrupts PROVE SilenceInv'
  BY <1>1, <1>2, <1>3, <1>4, <1>5, <1>21 DEF TransferInterrupts, Actors,
     Interruptible, ActiveStates, InterruptBegins
<1>22. ASSUME TransferClosed PROVE SilenceInv'
  BY <1>1, <1>2, <1>3, <1>4, <1>5, <1>22 DEF TransferClosed
<1>23. CASE TransferStep
  BY <1>23, <1>10, <1>19, <1>20, <1>21, <1>22 DEF TransferStep, Actors
<1>24. ASSUME TaskStarts PROVE SilenceInv'
  BY <1>1, <1>2, <1>3, <1>4, <1>5, <1>24 DEF TaskStarts, TaskAt, Base
<1>25. ASSUME TaskAnnounces PROVE SilenceInv'
  BY <1>1, <1>2, <1>3, <1>4, <1>5, <1>25 DEF TaskAnnounces, TaskAt
<1>26. ASSUME ModelAnswers PROVE SilenceInv'
  BY <1>1, <1>2, <1>3, <1>4, <1>5, <1>26 DEF ModelAnswers, TaskAt
<1>27. ASSUME TaskRecords PROVE SilenceInv'
  BY <1>1, <1>2, <1>3, <1>4, <1>5, <1>27 DEF TaskRecords, TaskAt
<1>28. ASSUME TaskSpoken PROVE SilenceInv'
  BY <1>1, <1>2, <1>3, <1>4, <1>5, <1>28 DEF TaskSpoken, TaskAt
<1>29. ASSUME TaskMarks PROVE SilenceInv'
  BY <1>1, <1>2, <1>3, <1>4, <1>5, <1>29 DEF TaskMarks, TaskAt, Ends
<1>30. ASSUME TaskEndsCancelled PROVE SilenceInv'
  BY <1>1, <1>2, <1>3, <1>4, <1>5, <1>30 DEF TaskEndsCancelled
<1>31. ASSUME NEW fails \in BOOLEAN, StrayEnds(fails) PROVE SilenceInv'
  BY <1>1, <1>2, <1>3, <1>4, <1>5, <1>31 DEF StrayEnds
<1>32. CASE TaskStep
  BY <1>32, <1>24, <1>25, <1>26, <1>27, <1>28, <1>29, <1>30, <1>31 DEF TaskStep
<1>33. ASSUME ReaderStops PROVE SilenceInv'
  BY <1>1, <1>2, <1>3, <1>4, <1>5, <1>33 DEF ReaderStops
<1>34. ASSUME ConversationCloses PROVE SilenceInv'
  BY <1>1, <1>2, <1>3, <1>4, <1>5, <1>34 DEF ConversationCloses, TaskCancelled
<1>35. ASSUME CloseClears PROVE SilenceInv'
  BY <1>1, <1>2, <1>3, <1>4, <1>5, <1>35 DEF CloseClears
<1>36. ASSUME CloseFails PROVE SilenceInv'
  BY <1>1, <1>2, <1>3, <1>4, <1>5, <1>36 DEF CloseFails
<1>37. ASSUME CloseEnds PROVE SilenceInv'
  BY <1>1, <1>2, <1>3, <1>4, <1>5, <1>37 DEF CloseEnds
<1>38. CASE CloserStep
  BY <1>38, <1>33, <1>34, <1>35, <1>36, <1>37 DEF CloserStep
<1>39. ASSUME HearSpeech PROVE SilenceInv'
  BY <1>1, <1>2, <1>3, <1>4, <1>5, <1>39 DEF HearSpeech, Hears
<1>40. ASSUME HearFinal PROVE SilenceInv'
  BY <1>1, <1>2, <1>3, <1>4, <1>5, <1>40 DEF HearFinal, Hears
<1>41. ASSUME ReaderFails PROVE SilenceInv'
  BY <1>1, <1>2, <1>3, <1>4, <1>5, <1>41 DEF ReaderFails
<1>42. ASSUME TransferBegins PROVE SilenceInv'
  BY <1>1, <1>2, <1>3, <1>4, <1>5, <1>42 DEF TransferBegins
<1>43. ASSUME TransferFails PROVE SilenceInv'
  BY <1>1, <1>2, <1>3, <1>4, <1>5, <1>43 DEF TransferFails
<1>44. ASSUME ModelFails PROVE SilenceInv'
  BY <1>1, <1>2, <1>3, <1>4, <1>5, <1>44 DEF ModelFails, TaskAt, Ends,
     AfterFailure
<1>45. ASSUME TaskAppendFails PROVE SilenceInv'
  BY <1>1, <1>2, <1>3, <1>4, <1>5, <1>45 DEF TaskAppendFails, TaskAt, Ends
<1>46. ASSUME TaskSpeaks PROVE SilenceInv'
  BY <1>1, <1>2, <1>3, <1>4, <1>5, <1>46 DEF TaskSpeaks, TaskAt, IsCurrent,
     ResponseInv, Early
<1>47. ASSUME SpeechFails PROVE SilenceInv'
  BY <1>1, <1>2, <1>3, <1>4, <1>5, <1>47 DEF SpeechFails, TaskAt, Ends,
     AfterFailure
<1>48. ASSUME NEW g \in audio, ProviderPlays(g) PROVE SilenceInv'
  BY <1>1, <1>2, <1>3, <1>4, <1>5, <1>48 DEF ProviderPlays
<1>49. ASSUME NEW g \in marks, MarkReturns(g) PROVE SilenceInv'
  BY <1>1, <1>2, <1>3, <1>4, <1>5, <1>49 DEF MarkReturns
<1>50. ASSUME Disconnects PROVE SilenceInv'
  BY <1>1, <1>2, <1>3, <1>4, <1>5, <1>50 DEF Disconnects
<1>51. ASSUME PlaybackFails PROVE SilenceInv'
  BY <1>1, <1>2, <1>3, <1>4, <1>5, <1>51 DEF PlaybackFails
<1>52. ASSUME CloseRequested PROVE SilenceInv'
  BY <1>1, <1>2, <1>3, <1>4, <1>5, <1>52 DEF CloseRequested, CloseBegins
<1>53. CASE Environment
  BY <1>53, <1>39, <1>40, <1>41, <1>42, <1>43, <1>44, <1>45, <1>46, <1>47,
     <1>48, <1>49, <1>50, <1>51, <1>52, <1>31 DEF Environment
<1>54. ASSUME PlaybackCompletes PROVE SilenceInv'
  BY <1>1, <1>2, <1>3, <1>4, <1>5, <1>54 DEF PlaybackCompletes
<1>55. ASSUME SocketCloses PROVE SilenceInv'
  BY <1>1, <1>2, <1>3, <1>4, <1>5, <1>55 DEF SocketCloses, CloseBegins
<1> QED
  BY <1>18, <1>23, <1>32, <1>38, <1>53, <1>54, <1>55 DEF Next, Progress

-----------------------------------------------------------------------------
(* The inductive invariant *)

ConversationInv == TypeOK /\ Budget /\ ResponseInv /\ SilenceInv

\* A new conversation satisfies the invariant.
LEMMA InvInit == Init => ConversationInv
<1> SUFFICES ASSUME Init PROVE ConversationInv
  OBVIOUS
<1>1. /\ 0 \in Generations /\ 1 \in Installed /\ 0 \in Installed
      /\ <<>> \in Seq(Generations)
  BY ConversationAssumption DEF Generations, Installed
<1>2. NoTask \in ResponseRecords
  BY <1>1 DEF NoTask, ResponseRecords
<1>3. AtRest \in ActorRecords /\ AtRest.at = "idle"
  BY DEF AtRest, ActorRecords
<1>4. TypeOK
  <2>1. actor \in [Actors -> ActorRecords] /\ task \in ResponseRecords
    BY <1>2, <1>3 DEF Init
  <2>2. turns \in 0 .. MaxRequests /\ requests \in 0 .. MaxRequests
    BY ConversationAssumption DEF Init
  <2> QED
    BY <1>1, <2>1, <2>2 DEF Init, TypeOK, TurnStates
<1>5. actor["reader"].at = "idle" /\ actor["transfer"].at = "idle"
  BY <1>3 DEF Init, Actors
<1>6. Budget
  BY <1>5 DEF Init, Budget, One, InterruptPending, TurnPending, SwapPending,
              TransferWaits, ClosePending, ActiveStates
<1>7. ResponseInv /\ SilenceInv
  BY <1>5 DEF Init, ResponseInv, SilenceInv, NoTask, Early, TurnHasOneAgent
<1> QED
  BY <1>4, <1>6, <1>7 DEF ConversationInv

\* Every step keeps the invariant.
LEMMA InvNext == ConversationInv /\ [Next]_vars => ConversationInv'
<1>1. CASE Next
  BY <1>1, BudgetNext, TypeNext, ResponseNext, SilenceNext DEF ConversationInv
<1>2. CASE UNCHANGED vars
  <2>1. TypeOK /\ UNCHANGED vars => TypeOK'
    BY DEF vars, TypeOK
  <2>2. Budget /\ UNCHANGED vars => Budget'
    BY DEF vars, Budget, InterruptPending, TurnPending, SwapPending, TransferWaits,
           ClosePending
  <2>3. ResponseInv /\ SilenceInv /\ UNCHANGED vars => ResponseInv' /\ SilenceInv'
    BY DEF vars, ResponseInv, SilenceInv, Running, TurnHasOneAgent
  <2> QED
    BY <1>2, <2>1, <2>2, <2>3 DEF ConversationInv
<1> QED
  BY <1>1, <1>2

\* The invariant holds in every reachable state.
THEOREM InvariantHolds == Spec => []ConversationInv
BY InvInit, InvNext, PTL DEF Spec

\* Every variable keeps its type, and generations, turns and agents stay within
\* what the requests of the conversation account for.
THEOREM TypeCorrect == Spec => []TypeOK
<1>1. ConversationInv => TypeOK
  BY DEF ConversationInv
<1> QED
  BY <1>1, InvariantHolds, PTL

\* A turn is spoken by the agent whose model answered it, whatever transfers
\* meet it (TurnHasOneAgent, response.py: reconfigure).
THEOREM TurnKeepsItsAgent == Spec => []TurnHasOneAgent
<1>1. ConversationInv => TurnHasOneAgent
  BY DEF ConversationInv, ResponseInv
<1> QED
  BY <1>1, InvariantHolds, PTL

-----------------------------------------------------------------------------
(* What a step may never do *)

WritesAlone == task'.gen # task.gen => task.at \in {"done", "speak", "mark"}

\* A turn is begun from listening, where no response still has to write.
LEMMA WriterStep ==
    ASSUME TypeOK, ResponseInv, Next
    PROVE  WritesAlone
<1>1. task \in ResponseRecords /\ state \in TurnStates /\ ResponseInv
  BY DEF TypeOK
<1> USE DEF WritesAlone, ResponseInv, ResponseRecords, Early,
            session, provider
<1>2. ASSUME NEW a \in Actors, InterruptMoves(a) PROVE WritesAlone
  BY <1>1, <1>2 DEF InterruptMoves, TaskCancelled
<1>3. ASSUME NEW a \in Actors, InterruptIllegal(a) PROVE WritesAlone
  BY <1>1, <1>3 DEF InterruptIllegal
<1>4. ASSUME NEW a \in Actors, InterruptClears(a) PROVE WritesAlone
  BY <1>1, <1>4 DEF InterruptClears
<1>5. ASSUME NEW a \in Actors, ClearFails(a) PROVE WritesAlone
  BY <1>1, <1>5 DEF ClearFails
<1>6. ASSUME NEW a \in Actors, Interrupt(a) PROVE WritesAlone
  BY <1>6, <1>2, <1>3, <1>4, <1>5 DEF Interrupt
<1>7. ASSUME InterruptReturns PROVE WritesAlone
  BY <1>1, <1>7 DEF InterruptReturns, Gathered, AfterInterrupt
<1>8. ASSUME InterruptThenTurn PROVE WritesAlone
  BY <1>1, <1>8 DEF InterruptThenTurn, Gathered, BeginTurn, Running, TurnStates,
     AllowedTargets, ActiveStates
<1>9. ASSUME SpeechAppended PROVE WritesAlone
  BY <1>1, <1>9 DEF SpeechAppended
<1>10. ASSUME FinalAppended PROVE WritesAlone
  BY <1>1, <1>10 DEF FinalAppended
<1>11. ASSUME FinalIdle PROVE WritesAlone
  BY <1>1, <1>11 DEF FinalIdle, BeginTurn, Running, TurnStates, AllowedTargets,
     ActiveStates
<1>12. ASSUME FinalInterrupts PROVE WritesAlone
  BY <1>1, <1>12 DEF FinalInterrupts, Actors
<1>13. ASSUME FinalIllegal PROVE WritesAlone
  BY <1>1, <1>13 DEF FinalIllegal
<1>14. CASE ReaderStep
  BY <1>14, <1>6, <1>7, <1>8, <1>9, <1>10, <1>11, <1>12, <1>13 DEF ReaderStep,
     Actors
<1>15. ASSUME InterruptThenSwap PROVE WritesAlone
  BY <1>1, <1>15 DEF InterruptThenSwap, Gathered, Swap, AfterInterrupt
<1>16. ASSUME TransferIdle PROVE WritesAlone
  BY <1>1, <1>16 DEF TransferIdle, Swap
<1>17. ASSUME TransferInterrupts PROVE WritesAlone
  BY <1>1, <1>17 DEF TransferInterrupts, Actors
<1>18. ASSUME TransferClosed PROVE WritesAlone
  BY <1>1, <1>18 DEF TransferClosed
<1>19. CASE TransferStep
  BY <1>19, <1>6, <1>15, <1>16, <1>17, <1>18 DEF TransferStep, Actors
<1>20. ASSUME TaskStarts PROVE WritesAlone
  BY <1>1, <1>20 DEF TaskStarts, TaskAt, Base
<1>21. ASSUME TaskAnnounces PROVE WritesAlone
  BY <1>1, <1>21 DEF TaskAnnounces, TaskAt
<1>22. ASSUME ModelAnswers PROVE WritesAlone
  BY <1>1, <1>22 DEF ModelAnswers, TaskAt
<1>23. ASSUME TaskRecords PROVE WritesAlone
  BY <1>1, <1>23 DEF TaskRecords, TaskAt
<1>24. ASSUME TaskSpoken PROVE WritesAlone
  BY <1>1, <1>24 DEF TaskSpoken, TaskAt
<1>25. ASSUME TaskMarks PROVE WritesAlone
  BY <1>1, <1>25 DEF TaskMarks, TaskAt, Ends
<1>26. ASSUME TaskEndsCancelled PROVE WritesAlone
  BY <1>1, <1>26 DEF TaskEndsCancelled
<1>27. ASSUME NEW fails \in BOOLEAN, StrayEnds(fails) PROVE WritesAlone
  BY <1>1, <1>27 DEF StrayEnds
<1>28. CASE TaskStep
  BY <1>28, <1>20, <1>21, <1>22, <1>23, <1>24, <1>25, <1>26, <1>27 DEF TaskStep
<1>29. ASSUME ReaderStops PROVE WritesAlone
  BY <1>1, <1>29 DEF ReaderStops
<1>30. ASSUME ConversationCloses PROVE WritesAlone
  BY <1>1, <1>30 DEF ConversationCloses, TaskCancelled
<1>31. ASSUME CloseClears PROVE WritesAlone
  BY <1>1, <1>31 DEF CloseClears
<1>32. ASSUME CloseFails PROVE WritesAlone
  BY <1>1, <1>32 DEF CloseFails
<1>33. ASSUME CloseEnds PROVE WritesAlone
  BY <1>1, <1>33 DEF CloseEnds
<1>34. CASE CloserStep
  BY <1>34, <1>29, <1>30, <1>31, <1>32, <1>33 DEF CloserStep
<1>35. ASSUME HearSpeech PROVE WritesAlone
  BY <1>1, <1>35 DEF HearSpeech, Hears
<1>36. ASSUME HearFinal PROVE WritesAlone
  BY <1>1, <1>36 DEF HearFinal, Hears
<1>37. ASSUME ReaderFails PROVE WritesAlone
  BY <1>1, <1>37 DEF ReaderFails
<1>38. ASSUME TransferBegins PROVE WritesAlone
  BY <1>1, <1>38 DEF TransferBegins
<1>39. ASSUME TransferFails PROVE WritesAlone
  BY <1>1, <1>39 DEF TransferFails
<1>40. ASSUME ModelFails PROVE WritesAlone
  BY <1>1, <1>40 DEF ModelFails, TaskAt, Ends, AfterFailure
<1>41. ASSUME TaskAppendFails PROVE WritesAlone
  BY <1>1, <1>41 DEF TaskAppendFails, TaskAt, Ends
<1>42. ASSUME TaskSpeaks PROVE WritesAlone
  BY <1>1, <1>42 DEF TaskSpeaks, TaskAt
<1>43. ASSUME SpeechFails PROVE WritesAlone
  BY <1>1, <1>43 DEF SpeechFails, TaskAt, Ends, AfterFailure
<1>44. ASSUME NEW g \in audio, ProviderPlays(g) PROVE WritesAlone
  BY <1>1, <1>44 DEF ProviderPlays
<1>45. ASSUME NEW g \in marks, MarkReturns(g) PROVE WritesAlone
  BY <1>1, <1>45 DEF MarkReturns
<1>46. ASSUME Disconnects PROVE WritesAlone
  BY <1>1, <1>46 DEF Disconnects
<1>47. ASSUME PlaybackFails PROVE WritesAlone
  BY <1>1, <1>47 DEF PlaybackFails
<1>48. ASSUME CloseRequested PROVE WritesAlone
  BY <1>1, <1>48 DEF CloseRequested, CloseBegins
<1>49. CASE Environment
  BY <1>49, <1>35, <1>36, <1>37, <1>38, <1>39, <1>40, <1>41, <1>42, <1>43,
     <1>44, <1>45, <1>46, <1>47, <1>48, <1>27 DEF Environment
<1>50. ASSUME PlaybackCompletes PROVE WritesAlone
  BY <1>1, <1>50 DEF PlaybackCompletes
<1>51. ASSUME SocketCloses PROVE WritesAlone
  BY <1>1, <1>51 DEF SocketCloses, CloseBegins
<1> QED
  BY <1>14, <1>19, <1>28, <1>34, <1>49, <1>50, <1>51 DEF Next, Progress

Grows == IsPrefix(history, history')

\* A response writes the history it was built on and its own exchange.
LEMMA GrowthStep ==
    ASSUME TypeOK, ResponseInv, Next
    PROVE  Grows
<1>1. UNCHANGED history => Grows
  <2>1. history \in Seq(Generations)
    BY DEF TypeOK
  <2> QED
    BY <2>1 DEF Grows, IsPrefix
<1>2. \A g \in Generations : history' = Append(history, g) => Grows
  <2>1. history \in Seq(Generations)
    BY DEF TypeOK
  <2>2. ASSUME NEW g \in Generations, history' = Append(history, g) PROVE Grows
    <3>1. /\ Len(history) <= Len(history')
          /\ Len(history) \in Nat
          /\ \A i \in 1 .. Len(history) : history'[i] = history[i]
          /\ history' \in Seq(Generations)
      BY <2>1, <2>2, AppendProperties
    <3>2. SubSeq(history, 1, Len(history)) = SubSeq(history', 1, Len(history))
      BY <2>1, <3>1
    <3> QED
      BY <3>1, <3>2 DEF Grows, IsPrefix
  <2> QED
    BY <2>2
<1>3. /\ task.at = "record" => task.base = history
      /\ task.gen \in Generations
  BY DEF TypeOK, ResponseRecords, ResponseInv
<1> USE DEF session, provider
<1>4. ASSUME NEW a \in Actors, InterruptMoves(a) PROVE Grows
  BY <1>1, <1>4 DEF InterruptMoves
<1>5. ASSUME NEW a \in Actors, InterruptIllegal(a) PROVE Grows
  BY <1>1, <1>5 DEF InterruptIllegal
<1>6. ASSUME NEW a \in Actors, InterruptClears(a) PROVE Grows
  BY <1>1, <1>6 DEF InterruptClears
<1>7. ASSUME NEW a \in Actors, ClearFails(a) PROVE Grows
  BY <1>1, <1>7 DEF ClearFails
<1>8. ASSUME NEW a \in Actors, Interrupt(a) PROVE Grows
  BY <1>8, <1>4, <1>5, <1>6, <1>7 DEF Interrupt
<1>9. ASSUME InterruptReturns PROVE Grows
  BY <1>1, <1>9 DEF InterruptReturns, Gathered, AfterInterrupt
<1>10. ASSUME InterruptThenTurn PROVE Grows
  BY <1>1, <1>10 DEF InterruptThenTurn, Gathered, BeginTurn, Running, TurnStates
<1>11. ASSUME SpeechAppended PROVE Grows
  BY <1>1, <1>11 DEF SpeechAppended
<1>12. ASSUME FinalAppended PROVE Grows
  BY <1>1, <1>12 DEF FinalAppended
<1>13. ASSUME FinalIdle PROVE Grows
  BY <1>1, <1>13 DEF FinalIdle, BeginTurn, Running, TurnStates
<1>14. ASSUME FinalInterrupts PROVE Grows
  BY <1>1, <1>14 DEF FinalInterrupts, Actors
<1>15. ASSUME FinalIllegal PROVE Grows
  BY <1>1, <1>15 DEF FinalIllegal
<1>16. CASE ReaderStep
  BY <1>16, <1>8, <1>9, <1>10, <1>11, <1>12, <1>13, <1>14, <1>15 DEF ReaderStep,
     Actors
<1>17. ASSUME InterruptThenSwap PROVE Grows
  BY <1>1, <1>17 DEF InterruptThenSwap, Gathered, Swap, AfterInterrupt
<1>18. ASSUME TransferIdle PROVE Grows
  BY <1>1, <1>18 DEF TransferIdle, Swap
<1>19. ASSUME TransferInterrupts PROVE Grows
  BY <1>1, <1>19 DEF TransferInterrupts, Actors
<1>20. ASSUME TransferClosed PROVE Grows
  BY <1>1, <1>20 DEF TransferClosed
<1>21. CASE TransferStep
  BY <1>21, <1>8, <1>17, <1>18, <1>19, <1>20 DEF TransferStep, Actors
<1>22. ASSUME TaskStarts PROVE Grows
  BY <1>1, <1>22 DEF TaskStarts, TaskAt, Base
<1>23. ASSUME TaskAnnounces PROVE Grows
  BY <1>1, <1>23 DEF TaskAnnounces, TaskAt
<1>24. ASSUME ModelAnswers PROVE Grows
  BY <1>1, <1>24 DEF ModelAnswers, TaskAt
<1>25. ASSUME TaskRecords PROVE Grows
  BY <1>2, <1>3, <1>25 DEF TaskRecords, TaskAt
<1>26. ASSUME TaskSpoken PROVE Grows
  BY <1>1, <1>26 DEF TaskSpoken, TaskAt
<1>27. ASSUME TaskMarks PROVE Grows
  BY <1>1, <1>27 DEF TaskMarks, TaskAt, Ends
<1>28. ASSUME TaskEndsCancelled PROVE Grows
  BY <1>1, <1>28 DEF TaskEndsCancelled
<1>29. ASSUME NEW fails \in BOOLEAN, StrayEnds(fails) PROVE Grows
  BY <1>1, <1>29 DEF StrayEnds
<1>30. CASE TaskStep
  BY <1>30, <1>22, <1>23, <1>24, <1>25, <1>26, <1>27, <1>28, <1>29 DEF TaskStep
<1>31. ASSUME ReaderStops PROVE Grows
  BY <1>1, <1>31 DEF ReaderStops
<1>32. ASSUME ConversationCloses PROVE Grows
  BY <1>1, <1>32 DEF ConversationCloses
<1>33. ASSUME CloseClears PROVE Grows
  BY <1>1, <1>33 DEF CloseClears
<1>34. ASSUME CloseFails PROVE Grows
  BY <1>1, <1>34 DEF CloseFails
<1>35. ASSUME CloseEnds PROVE Grows
  BY <1>1, <1>35 DEF CloseEnds
<1>36. CASE CloserStep
  BY <1>36, <1>31, <1>32, <1>33, <1>34, <1>35 DEF CloserStep
<1>37. ASSUME HearSpeech PROVE Grows
  BY <1>1, <1>37 DEF HearSpeech, Hears
<1>38. ASSUME HearFinal PROVE Grows
  BY <1>1, <1>38 DEF HearFinal, Hears
<1>39. ASSUME ReaderFails PROVE Grows
  BY <1>1, <1>39 DEF ReaderFails
<1>40. ASSUME TransferBegins PROVE Grows
  BY <1>1, <1>40 DEF TransferBegins
<1>41. ASSUME TransferFails PROVE Grows
  BY <1>1, <1>41 DEF TransferFails
<1>42. ASSUME ModelFails PROVE Grows
  BY <1>1, <1>42 DEF ModelFails, TaskAt, Ends, AfterFailure
<1>43. ASSUME TaskAppendFails PROVE Grows
  BY <1>1, <1>43 DEF TaskAppendFails, TaskAt, Ends
<1>44. ASSUME TaskSpeaks PROVE Grows
  BY <1>1, <1>44 DEF TaskSpeaks, TaskAt
<1>45. ASSUME SpeechFails PROVE Grows
  BY <1>1, <1>45 DEF SpeechFails, TaskAt, Ends, AfterFailure
<1>46. ASSUME NEW g \in audio, ProviderPlays(g) PROVE Grows
  BY <1>1, <1>46 DEF ProviderPlays
<1>47. ASSUME NEW g \in marks, MarkReturns(g) PROVE Grows
  BY <1>1, <1>47 DEF MarkReturns
<1>48. ASSUME Disconnects PROVE Grows
  BY <1>1, <1>48 DEF Disconnects
<1>49. ASSUME PlaybackFails PROVE Grows
  BY <1>1, <1>49 DEF PlaybackFails
<1>50. ASSUME CloseRequested PROVE Grows
  BY <1>1, <1>50 DEF CloseRequested, CloseBegins
<1>51. CASE Environment
  BY <1>51, <1>37, <1>38, <1>39, <1>40, <1>41, <1>42, <1>43, <1>44, <1>45,
     <1>46, <1>47, <1>48, <1>49, <1>50, <1>29 DEF Environment
<1>52. ASSUME PlaybackCompletes PROVE Grows
  BY <1>1, <1>52 DEF PlaybackCompletes
<1>53. ASSUME SocketCloses PROVE Grows
  BY <1>1, <1>53 DEF SocketCloses, CloseBegins
<1> QED
  BY <1>16, <1>21, <1>30, <1>36, <1>51, <1>52, <1>53 DEF Next, Progress

Silences ==
    actor["reader"].at = "gather" /\ actor'["reader"].at = "idle" =>
        task.gen \notin audio'

\* Only the end of the interruption takes the reader from gathering to rest.
LEMMA SilencingStep ==
    ASSUME TypeOK, SilenceInv, Next
    PROVE  Silences
<1>1. actor["reader"].at = "gather" => task.gen \notin audio
  BY DEF SilenceInv
<1>2. "reader" \in Actors /\ "transfer" \in Actors /\ Actors = {"reader", "transfer"}
  BY DEF Actors
<1>3. \A a \in Actors, where \in Positions :
           /\ At(a, where)[a].at = where
           /\ \A b \in Actors \ {a} : At(a, where)[b] = actor[b]
  BY MovedActor DEF TypeOK
<1>4. \A a \in Actors : Raises(a) =>
          /\ a = "reader" => actor'[a].at = "dead"
          /\ \A b \in Actors \ {a} : actor'[b] = actor[b]
  BY RaisedActor DEF TypeOK
<1>5. \A a \in Actors, then \in {"return", "turn", "swap"} :
          Interruptible /\ InterruptBegins(a, then) =>
              /\ actor'[a].at = "append"
              /\ \A b \in Actors \ {a} : actor'[b] = actor[b]
  BY InterruptingActor DEF TypeOK
<1> USE DEF Silences, Positions, session, provider
<1>6. ASSUME NEW a \in Actors, InterruptMoves(a) PROVE Silences
  BY <1>1, <1>2, <1>3, <1>4, <1>5, <1>6 DEF InterruptMoves
<1>7. ASSUME NEW a \in Actors, InterruptIllegal(a) PROVE Silences
  BY <1>1, <1>2, <1>3, <1>4, <1>5, <1>7 DEF InterruptIllegal
<1>8. ASSUME NEW a \in Actors, InterruptClears(a) PROVE Silences
  BY <1>1, <1>2, <1>3, <1>4, <1>5, <1>8 DEF InterruptClears
<1>9. ASSUME NEW a \in Actors, ClearFails(a) PROVE Silences
  BY <1>1, <1>2, <1>3, <1>4, <1>5, <1>9 DEF ClearFails
<1>10. ASSUME NEW a \in Actors, Interrupt(a) PROVE Silences
  BY <1>10, <1>6, <1>7, <1>8, <1>9 DEF Interrupt
<1>11. ASSUME InterruptReturns PROVE Silences
  BY <1>1, <1>2, <1>3, <1>4, <1>5, <1>11 DEF InterruptReturns, Gathered,
     AfterInterrupt
<1>12. ASSUME InterruptThenTurn PROVE Silences
  BY <1>1, <1>2, <1>3, <1>4, <1>5, <1>12 DEF InterruptThenTurn, Gathered,
     BeginTurn, Running, TurnStates
<1>13. ASSUME SpeechAppended PROVE Silences
  BY <1>1, <1>2, <1>3, <1>4, <1>5, <1>13 DEF SpeechAppended
<1>14. ASSUME FinalAppended PROVE Silences
  BY <1>1, <1>2, <1>3, <1>4, <1>5, <1>14 DEF FinalAppended
<1>15. ASSUME FinalIdle PROVE Silences
  BY <1>1, <1>2, <1>3, <1>4, <1>5, <1>15 DEF FinalIdle, BeginTurn, Running,
     TurnStates
<1>16. ASSUME FinalInterrupts PROVE Silences
  BY <1>1, <1>2, <1>3, <1>4, <1>5, <1>16 DEF FinalInterrupts, Actors
<1>17. ASSUME FinalIllegal PROVE Silences
  BY <1>1, <1>2, <1>3, <1>4, <1>5, <1>17 DEF FinalIllegal
<1>18. CASE ReaderStep
  BY <1>18, <1>10, <1>11, <1>12, <1>13, <1>14, <1>15, <1>16, <1>17 DEF
     ReaderStep, Actors
<1>19. ASSUME InterruptThenSwap PROVE Silences
  BY <1>1, <1>2, <1>3, <1>4, <1>5, <1>19 DEF InterruptThenSwap, Gathered, Swap,
     AfterInterrupt
<1>20. ASSUME TransferIdle PROVE Silences
  BY <1>1, <1>2, <1>3, <1>4, <1>5, <1>20 DEF TransferIdle, Swap
<1>21. ASSUME TransferInterrupts PROVE Silences
  BY <1>1, <1>2, <1>3, <1>4, <1>5, <1>21 DEF TransferInterrupts, Actors
<1>22. ASSUME TransferClosed PROVE Silences
  BY <1>1, <1>2, <1>3, <1>4, <1>5, <1>22 DEF TransferClosed
<1>23. CASE TransferStep
  BY <1>23, <1>10, <1>19, <1>20, <1>21, <1>22 DEF TransferStep, Actors
<1>24. ASSUME TaskStarts PROVE Silences
  BY <1>1, <1>2, <1>3, <1>4, <1>5, <1>24 DEF TaskStarts, TaskAt, Base
<1>25. ASSUME TaskAnnounces PROVE Silences
  BY <1>1, <1>2, <1>3, <1>4, <1>5, <1>25 DEF TaskAnnounces, TaskAt
<1>26. ASSUME ModelAnswers PROVE Silences
  BY <1>1, <1>2, <1>3, <1>4, <1>5, <1>26 DEF ModelAnswers, TaskAt
<1>27. ASSUME TaskRecords PROVE Silences
  BY <1>1, <1>2, <1>3, <1>4, <1>5, <1>27 DEF TaskRecords, TaskAt
<1>28. ASSUME TaskSpoken PROVE Silences
  BY <1>1, <1>2, <1>3, <1>4, <1>5, <1>28 DEF TaskSpoken, TaskAt
<1>29. ASSUME TaskMarks PROVE Silences
  BY <1>1, <1>2, <1>3, <1>4, <1>5, <1>29 DEF TaskMarks, TaskAt, Ends
<1>30. ASSUME TaskEndsCancelled PROVE Silences
  BY <1>1, <1>2, <1>3, <1>4, <1>5, <1>30 DEF TaskEndsCancelled
<1>31. ASSUME NEW fails \in BOOLEAN, StrayEnds(fails) PROVE Silences
  BY <1>1, <1>2, <1>3, <1>4, <1>5, <1>31 DEF StrayEnds
<1>32. CASE TaskStep
  BY <1>32, <1>24, <1>25, <1>26, <1>27, <1>28, <1>29, <1>30, <1>31 DEF TaskStep
<1>33. ASSUME ReaderStops PROVE Silences
  BY <1>1, <1>2, <1>3, <1>4, <1>5, <1>33 DEF ReaderStops
<1>34. ASSUME ConversationCloses PROVE Silences
  BY <1>1, <1>2, <1>3, <1>4, <1>5, <1>34 DEF ConversationCloses
<1>35. ASSUME CloseClears PROVE Silences
  BY <1>1, <1>2, <1>3, <1>4, <1>5, <1>35 DEF CloseClears
<1>36. ASSUME CloseFails PROVE Silences
  BY <1>1, <1>2, <1>3, <1>4, <1>5, <1>36 DEF CloseFails
<1>37. ASSUME CloseEnds PROVE Silences
  BY <1>1, <1>2, <1>3, <1>4, <1>5, <1>37 DEF CloseEnds
<1>38. CASE CloserStep
  BY <1>38, <1>33, <1>34, <1>35, <1>36, <1>37 DEF CloserStep
<1>39. ASSUME HearSpeech PROVE Silences
  BY <1>1, <1>2, <1>3, <1>4, <1>5, <1>39 DEF HearSpeech, Hears
<1>40. ASSUME HearFinal PROVE Silences
  BY <1>1, <1>2, <1>3, <1>4, <1>5, <1>40 DEF HearFinal, Hears
<1>41. ASSUME ReaderFails PROVE Silences
  BY <1>1, <1>2, <1>3, <1>4, <1>5, <1>41 DEF ReaderFails
<1>42. ASSUME TransferBegins PROVE Silences
  BY <1>1, <1>2, <1>3, <1>4, <1>5, <1>42 DEF TransferBegins
<1>43. ASSUME TransferFails PROVE Silences
  BY <1>1, <1>2, <1>3, <1>4, <1>5, <1>43 DEF TransferFails
<1>44. ASSUME ModelFails PROVE Silences
  BY <1>1, <1>2, <1>3, <1>4, <1>5, <1>44 DEF ModelFails, TaskAt, Ends,
     AfterFailure
<1>45. ASSUME TaskAppendFails PROVE Silences
  BY <1>1, <1>2, <1>3, <1>4, <1>5, <1>45 DEF TaskAppendFails, TaskAt, Ends
<1>46. ASSUME TaskSpeaks PROVE Silences
  BY <1>1, <1>2, <1>3, <1>4, <1>5, <1>46 DEF TaskSpeaks, TaskAt
<1>47. ASSUME SpeechFails PROVE Silences
  BY <1>1, <1>2, <1>3, <1>4, <1>5, <1>47 DEF SpeechFails, TaskAt, Ends,
     AfterFailure
<1>48. ASSUME NEW g \in audio, ProviderPlays(g) PROVE Silences
  BY <1>1, <1>2, <1>3, <1>4, <1>5, <1>48 DEF ProviderPlays
<1>49. ASSUME NEW g \in marks, MarkReturns(g) PROVE Silences
  BY <1>1, <1>2, <1>3, <1>4, <1>5, <1>49 DEF MarkReturns
<1>50. ASSUME Disconnects PROVE Silences
  BY <1>1, <1>2, <1>3, <1>4, <1>5, <1>50 DEF Disconnects
<1>51. ASSUME PlaybackFails PROVE Silences
  BY <1>1, <1>2, <1>3, <1>4, <1>5, <1>51 DEF PlaybackFails
<1>52. ASSUME CloseRequested PROVE Silences
  BY <1>1, <1>2, <1>3, <1>4, <1>5, <1>52 DEF CloseRequested, CloseBegins
<1>53. CASE Environment
  BY <1>53, <1>39, <1>40, <1>41, <1>42, <1>43, <1>44, <1>45, <1>46, <1>47,
     <1>48, <1>49, <1>50, <1>51, <1>52, <1>31 DEF Environment
<1>54. ASSUME PlaybackCompletes PROVE Silences
  BY <1>1, <1>2, <1>3, <1>4, <1>5, <1>54 DEF PlaybackCompletes
<1>55. ASSUME SocketCloses PROVE Silences
  BY <1>1, <1>2, <1>3, <1>4, <1>5, <1>55 DEF SocketCloses, CloseBegins
<1> QED
  BY <1>18, <1>23, <1>32, <1>38, <1>53, <1>54, <1>55 DEF Next, Progress

\* Two responses never work on one history: a turn begins only when the response
\* before has ended or has written its exchange (response.py: on_transcript).
THEOREM OneWriter == Spec => OneWriterOfHistory
<1>1. ConversationInv /\ [Next]_vars =>
          [task'.gen # task.gen => task.at \in {"done", "speak", "mark"}]_vars
  BY WriterStep DEF ConversationInv, WritesAlone
<1> QED
  BY <1>1, InvariantHolds, PTL DEF OneWriterOfHistory, Spec

\* No exchange is ever lost from the history (response.py: candidate_history).
THEOREM HistoryGrows == Spec => HistoryOnlyGrows
<1>1. ConversationInv /\ [Next]_vars => [IsPrefix(history, history')]_vars
  BY GrowthStep DEF ConversationInv, Grows
<1> QED
  BY <1>1, InvariantHolds, PTL DEF HistoryOnlyGrows, Spec

\* When the handler of the caller's speech returns, nothing of the turn it
\* interrupted is left to play (response.py: _interrupt_active_turn).
THEOREM BargeInSilences == Spec => BargeInSilencesTurn
<1>1. ConversationInv /\ [Next]_vars =>
          [actor["reader"].at = "gather" /\ actor'["reader"].at = "idle"
              => task.gen \notin audio']_vars
  BY SilencingStep DEF ConversationInv, Silences
<1> QED
  BY <1>1, InvariantHolds, PTL DEF BargeInSilencesTurn, Spec

================================================================================
