----------------------------- MODULE TransfersProofs -----------------------------
(***************************************************************************)
(* Media sessions and call transfers, proved for any calls, streams,       *)
(* agents, handlers and restarts.  The inductive invariant relates the two *)
(* indexes of the registry to the sessions (RegistryInv), a start to its   *)
(* session (StartInv), the transfer lock to the transfer that holds it     *)
(* (LockInv), a handler to the session it found (FoundInv), the handlers   *)
(* to the rows they write (RowInv) and an ended session to the transfer it *)
(* was handed over by (CloseInv).  Each lemma about a step has one case    *)
(* for each action.                                                        *)
(***************************************************************************)
EXTENDS Transfers, SequenceTheorems, TLAPS

-----------------------------------------------------------------------------
(* What the handlers' helpers do *)

Stages == {"acting", "swapping", "recording", "writing", "handing"}
Outcomes == {"accepted", "completed", "failed"}

Busy(h) == handler[h] \in HandlerRecords

\* A handler that goes on keeps what it has read.
LEMMA Going ==
    ASSUME handler \in [Handlers -> HandlerRecords \cup {Idle}],
           NEW h \in Handlers, handler[h].at # "idle", NEW at \in Stages, Goes(h, at)
    PROVE  /\ handler' \in [Handlers -> HandlerRecords \cup {Idle}]
           /\ handler'[h] = [handler[h] EXCEPT !.at = at]
           /\ handler'[h].at = at
           /\ handler'[h].call = handler[h].call
           /\ handler'[h].key = handler[h].key
           /\ handler'[h].target = handler[h].target
           /\ handler'[h].session = handler[h].session
           /\ handler'[h].outcome = handler[h].outcome
           /\ \A g \in Handlers \ {h} : handler'[g] = handler[g]
<1>1. handler[h] \in HandlerRecords
  BY DEF Idle
<1>2. [handler[h] EXCEPT !.at = at] \in HandlerRecords
  BY <1>1 DEF HandlerRecords, Stages
<1> QED
  BY <1>1, <1>2 DEF Goes, HandlerRecords

\* So does one that goes on to _finish, with an outcome.
LEMMA Finishing ==
    ASSUME handler \in [Handlers -> HandlerRecords \cup {Idle}],
           NEW h \in Handlers, handler[h].at # "idle", NEW outcome \in Outcomes,
           Finishes(h, outcome)
    PROVE  /\ handler' \in [Handlers -> HandlerRecords \cup {Idle}]
           /\ handler'[h].at = "finishing"
           /\ handler'[h].call = handler[h].call
           /\ handler'[h].key = handler[h].key
           /\ handler'[h].target = handler[h].target
           /\ handler'[h].session = handler[h].session
           /\ handler'[h].outcome = outcome
           /\ \A g \in Handlers \ {h} : handler'[g] = handler[g]
<1>1. handler[h] \in HandlerRecords
  BY DEF Idle
<1>2. [handler[h] EXCEPT !.at = "finishing", !.outcome = outcome] \in HandlerRecords
  BY <1>1 DEF HandlerRecords, Outcomes
<1> QED
  BY <1>1, <1>2 DEF Finishes, HandlerRecords

\* A handler that returns is idle.
LEMMA Returning ==
    ASSUME handler \in [Handlers -> HandlerRecords \cup {Idle}],
           NEW h \in Handlers, Returns(h)
    PROVE  /\ handler' \in [Handlers -> HandlerRecords \cup {Idle}]
           /\ handler'[h] = Idle
           /\ handler'[h].at = "idle"
           /\ \A g \in Handlers \ {h} : handler'[g] = handler[g]
BY DEF Returns, Idle

\* A handler that is being served has read a call, a key and a session.
LEMMA Served ==
    ASSUME TypeOK, NEW h \in Handlers, handler[h].at # "idle"
    PROVE  /\ handler[h] \in HandlerRecords
           /\ handler[h].call \in Calls
           /\ handler[h].key \in Keys
           /\ handler[h].target \in Agents \cup {NoTarget}
           /\ handler[h].session \in Sockets \cup {NoSocket}
BY DEF TypeOK, Idle, HandlerRecords

-----------------------------------------------------------------------------
(* What happens to sessions *)

\* registry.close takes one session out of both indexes.
LEMMA Deregistering ==
    ASSUME session \in [Sockets -> SessionRecords(Handlers)],
           streamOf \in [Calls -> Sockets \cup {NoSocket}],
           NEW s \in Sockets, Deregistered(s)
    PROVE  /\ session' \in [Sockets -> SessionRecords(Handlers)]
           /\ session'[s].stage = "closing"
           /\ session'[s].transcriber = session[s].transcriber
           /\ session'[s].spoken = session[s].spoken
           /\ session'[s].lock = session[s].lock
           /\ \A t \in Sockets \ {s} : session'[t] = session[t]
           /\ byStream' = byStream \ {s}
           /\ streamOf' \in [Calls -> Sockets \cup {NoSocket}]
           /\ socket[s].call \in Calls => streamOf'[socket[s].call] = NoSocket
           /\ \A c \in Calls \ {socket[s].call} : streamOf'[c] = streamOf[c]
BY DEF Deregistered, SessionRecords

\* A restart ends every session there was.
LEMMA Forgetting ==
    ASSUME session \in [Sockets -> SessionRecords(Handlers)],
           socket \in [Sockets -> SocketRecords], MemoryLost
    PROVE  /\ session' \in [Sockets -> SessionRecords(Handlers)]
           /\ socket' \in [Sockets -> SocketRecords]
           /\ \A s \in Sockets :
                 /\ socket'[s].call = socket[s].call
                 /\ socket'[s].at = IF socket[s].at = "connected" THEN "connected" ELSE "gone"
           /\ \A s \in Sockets :
                 /\ session'[s].spoken = session[s].spoken
                 /\ \/ /\ session[s].stage = "none" /\ session[s].transcriber = "none"
                       /\ session'[s] = session[s]
                    \/ /\ session[s].stage # "none" \/ session[s].transcriber # "none"
                       /\ session'[s].stage = "closed"
                       /\ session'[s].transcriber = "closed"
                       /\ session'[s].lock = Free
           /\ byStream' = {}
           /\ streamOf' = [c \in Calls |-> NoSocket]
<1>1. \A s \in Sockets :
          session[s] \in SessionRecords(Handlers) /\ socket[s] \in SocketRecords
  OBVIOUS
<1>2. /\ socket' \in [Sockets -> SocketRecords]
      /\ \A s \in Sockets :
            /\ socket'[s].call = socket[s].call
            /\ socket'[s].at = IF socket[s].at = "connected" THEN "connected" ELSE "gone"
  BY <1>1 DEF MemoryLost, SocketRecords
<1>3. /\ session' \in [Sockets -> SessionRecords(Handlers)]
      /\ \A s \in Sockets :
            /\ session'[s].spoken = session[s].spoken
            /\ \/ /\ session[s].stage = "none" /\ session[s].transcriber = "none"
                  /\ session'[s] = session[s]
               \/ /\ session[s].stage # "none" \/ session[s].transcriber # "none"
                  /\ session'[s].stage = "closed"
                  /\ session'[s].transcriber = "closed"
                  /\ session'[s].lock = Free
  BY <1>1 DEF MemoryLost, SessionRecords
<1> QED
  BY <1>2, <1>3 DEF MemoryLost

\* A reconfigured session has been spoken by one agent more.
LEMMA Swapping ==
    ASSUME session \in [Sockets -> SessionRecords(Handlers)],
           NEW h \in Handlers, handler[h].session \in Sockets, handler[h].target \in Agents,
           Swaps(h)
    PROVE  LET s == handler[h].session
           IN  /\ session' \in [Sockets -> SessionRecords(Handlers)]
               /\ session'[s].stage = session[s].stage
               /\ session'[s].transcriber = session[s].transcriber
               /\ session'[s].spoken = Append(session[s].spoken, handler[h].target)
               /\ session'[s].lock = Free
               /\ \A t \in Sockets \ {s} : session'[t] = session[t]
<1> DEFINE s == handler[h].session
           swapped == [session[s] EXCEPT !.spoken = Append(@, handler[h].target), !.lock = Free]
<1>1. session[s] \in SessionRecords(Handlers)
  OBVIOUS
<1>2. Append(session[s].spoken, handler[h].target) \in Seq(Agents)
  BY <1>1, AppendProperties DEF SessionRecords
<1>3. swapped \in SessionRecords(Handlers)
  BY <1>1, <1>2 DEF SessionRecords
<1>4. session' = [session EXCEPT ![s] = swapped]
  BY DEF Swaps
<1> QED
  BY <1>1, <1>3, <1>4 DEF SessionRecords

-----------------------------------------------------------------------------
(* The inductive invariant *)

\* A session is live exactly as long as its stream is registered, and the two
\* indexes of the registry mirror each other.
RegistryInv ==
    /\ \A s \in Sockets : session[s].stage = "live" <=> s \in byStream
    /\ \A s \in byStream : socket[s].call \in Calls /\ streamOf[socket[s].call] = s
    /\ \A c \in Calls : streamOf[c] # NoSocket => socket[streamOf[c]].call = c

\* A start has no session to close before it registers one; until then nobody
\* can have found the session to transfer it.
Started(s) ==
    /\ socket[s].at \in {"connected", "looked"} => session[s].transcriber = "none"
    /\ socket[s].at \in {"connected", "looked", "opened"} => session[s].stage = "none"
    /\ socket[s].at \in {"looked", "opened", "registered", "streaming"} =>
          socket[s].call \in Calls
    /\ socket[s].at \in {"registered", "streaming"} => session[s].stage # "none"
    /\ session[s].stage = "none" => session[s].lock = Free

StartInv == \A s \in Sockets : Started(s)

\* The transfer lock is held by exactly the transfer that is swapping, whose
\* target has not spoken yet.
Holds(h) ==
    /\ session[handler[h].session].lock = h
    /\ handler[h].target \in Agents
    /\ handler[h].target \notin Range(session[handler[h].session].spoken)

LockInv ==
    /\ TransferLockIsServed
    /\ \A h \in Handlers : handler[h].at = "swapping" => Holds(h)

\* The session a handler has found is, or was, a session of its call.
Found(h) ==
    /\ handler[h].at \in {"checked", "acting", "swapping"} => handler[h].session \in Sockets
    /\ handler[h].at # "idle" /\ handler[h].session # NoSocket =>
          /\ socket[handler[h].session].call = handler[h].call
          /\ session[handler[h].session].stage # "none"

FoundInv == \A h \in Handlers : Found(h)

Acting(h)   == handler[h].at \in {"acting", "swapping"}
AtRow(h)    == handler[h].at \in {"acting", "swapping", "recording", "finishing", "writing"}
Made(h)     == made[handler[h].call][handler[h].key]
SameRow(g, h) == handler[g].call = handler[h].call /\ handler[g].key = handler[h].key

\* Only the handler that has inserted a pending row acts on it; the row of an
\* agent transfer has no other writer at all.
Claim(h) ==
    /\ AtRow(h) \/ handler[h].at = "handing" =>
          RowOf(h).status # "absent" /\ RowOf(h).target = handler[h].target
    /\ Acting(h) => RowOf(h).status = "pending" /\ Made(h) = 0
    /\ handler[h].at = "recording" =>
          handler[h].target # NoTarget /\ RowOf(h).status = "pending" /\ Made(h) = 1
    /\ handler[h].at \in {"finishing", "writing", "handing"} =>
          /\ handler[h].outcome # "none"
          /\ handler[h].target # NoTarget =>
                handler[h].outcome = "failed" /\ RowOf(h).status = "pending" /\ Made(h) = 0
          /\ handler[h].outcome = "accepted" => handler[h].target = NoTarget /\ Made(h) = 1
    /\ handler[h].at = "handing" => handler[h].outcome = "accepted"

Alone(g, h) ==
    AtRow(g) /\ AtRow(h) /\ SameRow(g, h) /\ (Acting(g) \/ handler[g].target # NoTarget)
       => g = h

Unmade(c, k) ==
    transfer[c][k].status = "absent" => transfer[c][k] = NoTransfer /\ made[c][k] = 0

RowInv ==
    /\ \A c \in Calls, k \in Keys : Unmade(c, k)
    /\ \A h \in Handlers : Claim(h)
    /\ \A g, h \in Handlers : Alone(g, h)

\* A session that ends before its socket has been handed over to a human.
Ending(s) == socket[s].at \in {"registered", "streaming"} /\ session[s].stage # "live"

HandedOver(c) ==
    \E k \in Keys : transfer[c][k].target = NoTarget /\ made[c][k] > 0

CloseInv == \A s \in Sockets : Ending(s) => HandedOver(socket[s].call)

TransfersInv ==
    /\ TypeOK /\ RegistryInv /\ StartInv /\ TranscriberIsOwned
    /\ LockInv /\ NoAgentSpeaksTwice /\ FoundInv
    /\ RowInv /\ TransferIsMadeOnce /\ AgentTransferIsToldTruly /\ CloseInv

-----------------------------------------------------------------------------
(* The registry and its sessions *)

\* A stream that is taken out of both indexes leaves them mirrored.
LEMMA DeregisteredMirror ==
    ASSUME TypeOK, RegistryInv, NEW s \in byStream, Deregistered(s),
           \A t \in Sockets : socket'[t].call = socket[t].call
    PROVE  RegistryInv'
<1>1. /\ session \in [Sockets -> SessionRecords(Handlers)]
      /\ s \in Sockets /\ byStream \in SUBSET Sockets
      /\ streamOf \in [Calls -> Sockets \cup {NoSocket}]
      /\ \A c \in Calls : streamOf[c] # NoSocket => streamOf[c] \in byStream
  BY DEF TypeOK, MediaTypeOK
<1>2. /\ session'[s].stage = "closing"
      /\ \A t \in Sockets \ {s} : session'[t] = session[t]
      /\ byStream' = byStream \ {s}
      /\ socket[s].call \in Calls => streamOf'[socket[s].call] = NoSocket
      /\ \A c \in Calls \ {socket[s].call} : streamOf'[c] = streamOf[c]
  BY <1>1, Deregistering
<1>3. socket[s].call \in Calls /\ streamOf[socket[s].call] = s
  BY DEF RegistryInv
<1>4. \A t \in Sockets : session'[t].stage = "live" <=> t \in byStream'
  BY <1>1, <1>2 DEF RegistryInv
<1>5. ASSUME NEW t \in byStream'
      PROVE  socket'[t].call \in Calls /\ streamOf'[socket'[t].call] = t
  <2>1. t \in byStream /\ t # s /\ t \in Sockets
    BY <1>1, <1>2
  <2>2. socket[t].call \in Calls /\ streamOf[socket[t].call] = t
    BY <2>1 DEF RegistryInv
  <2> QED
    BY <1>2, <1>3, <2>1, <2>2
<1>6. ASSUME NEW c \in Calls, streamOf'[c] # NoSocket
      PROVE  socket'[streamOf'[c]].call = c
  <2>1. c # socket[s].call /\ streamOf'[c] = streamOf[c]
    BY <1>2, <1>3, <1>6
  <2>2. streamOf[c] \in Sockets /\ socket[streamOf[c]].call = c
    BY <1>1, <1>6, <2>1 DEF RegistryInv
  <2> QED
    BY <2>1, <2>2
<1> QED
  BY <1>4, <1>5, <1>6 DEF RegistryInv

\* A start registers its stream in both indexes; whatever takes it out of one
\* takes it out of the other, and ends the session.
LEMMA RegistryNext ==
    ASSUME TypeOK, RegistryInv, StartInv, Next
    PROVE  RegistryInv'
<1>1. /\ socket \in [Sockets -> SocketRecords]
      /\ session \in [Sockets -> SessionRecords(Handlers)]
      /\ byStream \in SUBSET Sockets
      /\ streamOf \in [Calls -> Sockets \cup {NoSocket}]
  BY DEF TypeOK, MediaTypeOK
<1>2. \A s \in Sockets : Deregistered(s) =>
          /\ session'[s].stage = "closing"
          /\ session'[s].transcriber = session[s].transcriber
          /\ session'[s].spoken = session[s].spoken
          /\ session'[s].lock = session[s].lock
          /\ \A t \in Sockets \ {s} : session'[t] = session[t]
          /\ byStream' = byStream \ {s}
  BY <1>1, Deregistering
<1>3. MemoryLost =>
          /\ \A s \in Sockets :
                /\ socket'[s].call = socket[s].call
                /\ socket'[s].at = IF socket[s].at = "connected" THEN "connected" ELSE "gone"
                /\ session'[s].spoken = session[s].spoken
                /\ \/ /\ session[s].stage = "none" /\ session[s].transcriber = "none"
                      /\ session'[s] = session[s]
                   \/ /\ session[s].stage # "none" \/ session[s].transcriber # "none"
                      /\ session'[s].stage = "closed"
                      /\ session'[s].transcriber = "closed"
                      /\ session'[s].lock = Free
          /\ byStream' = {}
          /\ streamOf' = [c \in Calls |-> NoSocket]
  BY <1>1, Forgetting
<1>4. \A c \in Calls : streamOf[c] # NoSocket => streamOf[c] \in byStream
  BY DEF TypeOK, MediaTypeOK
<1> USE SessionAssumption
        DEF mediaVars, RegistryInv, StartInv, Started, SocketRecords, SessionRecords
<1>5. ASSUME NEW s \in Sockets, NEW c \in Calls, StartLooks(s, c),
             UNCHANGED <<transfer, handler, made>>
      PROVE  RegistryInv'
  BY <1>1, <1>4, <1>5 DEF StartLooks, Spoken
<1>6. ASSUME NEW s \in Sockets, StartOpens(s), UNCHANGED <<transfer, handler, made>>
      PROVE  RegistryInv'
  BY <1>1, <1>4, <1>6 DEF StartOpens
<1>7. ASSUME NEW s \in Sockets, StartRegisters(s), UNCHANGED <<transfer, handler, made>>
      PROVE  RegistryInv'
  BY <1>1, <1>4, <1>7 DEF StartRegisters, Registrable
<1>8. ASSUME NEW s \in Sockets, StartIsDuplicate(s), UNCHANGED <<transfer, handler, made>>
      PROVE  RegistryInv'
  BY <1>1, <1>4, <1>8 DEF StartIsDuplicate, Registrable, Discarded, NoSession
<1>9. ASSUME NEW s \in Sockets, StartAnnounces(s), UNCHANGED <<transfer, handler, made>>
      PROVE  RegistryInv'
  BY <1>1, <1>4, <1>9 DEF StartAnnounces
<1>10. ASSUME NEW s \in Sockets, StartFails(s), UNCHANGED <<transfer, handler, made>>
      PROVE  RegistryInv'
  BY <1>1, <1>4, <1>10 DEF StartFails
<1>11. ASSUME NEW s \in Sockets, SocketCloses(s), UNCHANGED <<transfer, handler, made>>
      PROVE  RegistryInv'
  <2>1. \A t \in Sockets : socket'[t].call = socket[t].call
    BY <1>1, <1>11 DEF SocketCloses, SocketRecords
  <2>2. CASE s \in byStream
    BY <1>11, <2>1, <2>2, DeregisteredMirror DEF SocketCloses
  <2>3. CASE s \notin byStream
    BY <1>1, <1>4, <1>11, <2>1, <2>3 DEF SocketCloses
  <2> QED
    BY <2>2, <2>3
<1>12. ASSUME NEW s \in Sockets, SessionCloses(s), UNCHANGED <<transfer, handler, made>>
      PROVE  RegistryInv'
  BY <1>1, <1>4, <1>12 DEF SessionCloses
<1>13. ASSUME NEW c \in Calls, CallEnds(c), UNCHANGED <<transfer, handler, made>>
      PROVE  RegistryInv'
  BY <1>1, <1>4, <1>13 DEF CallEnds
<1>14. CASE MediaActs
  BY <1>14, <1>5, <1>6, <1>7, <1>8, <1>9, <1>10, <1>11, <1>12, <1>13 DEF
     MediaActs, MediaStep
<1>15. CASE Restart
  BY <1>1, <1>3, <1>15 DEF Restart
<1>16. ASSUME NEW h \in Handlers, Inserts(h) PROVE RegistryInv'
  BY <1>1, <1>4, <1>16 DEF Inserts, Insertable, Pending
<1>17. ASSUME NEW h \in Handlers, InsertFails(h) PROVE RegistryInv'
  BY <1>1, <1>4, <1>17 DEF InsertFails
<1>18. ASSUME NEW h \in Handlers, TransferLocks(h) PROVE RegistryInv'
  BY <1>1, <1>4, <1>18 DEF TransferLocks, Locks, Unlocked, Acceptable
<1>19. ASSUME NEW h \in Handlers, TransferRefused(h) PROVE RegistryInv'
  BY <1>1, <1>4, <1>19 DEF TransferRefused, FailsWith
<1>20. ASSUME NEW h \in Handlers, Swaps(h) PROVE RegistryInv'
  BY <1>1, <1>4, <1>20 DEF Swaps, CarriedOut
<1>21. ASSUME NEW h \in Handlers, SwapFails(h) PROVE RegistryInv'
  BY <1>1, <1>4, <1>21 DEF SwapFails, ReleasesLock, FailsWith
<1>22. ASSUME NEW h \in Handlers, Records(h) PROVE RegistryInv'
  BY <1>1, <1>4, <1>22 DEF Records
<1>23. ASSUME NEW h \in Handlers, DialReturns(h) PROVE RegistryInv'
  BY <1>1, <1>4, <1>23 DEF DialReturns, CarriedOut
<1>24. ASSUME NEW h \in Handlers, DialRaises(h) PROVE RegistryInv'
  BY <1>1, <1>4, <1>24 DEF DialRaises, CarriedOut
<1>25. ASSUME NEW h \in Handlers, FinishReads(h) PROVE RegistryInv'
  BY <1>1, <1>4, <1>25 DEF FinishReads, Finished, ClosesMedia, Settled
<1>26. ASSUME NEW h \in Handlers, FinishWrites(h) PROVE RegistryInv'
  BY <1>1, <1>4, <1>26 DEF FinishWrites, Finished, ClosesMedia
<1>27. ASSUME NEW h \in Handlers, HandsOver(h) PROVE RegistryInv'
  <2>1. \A t \in Sockets : socket'[t].call = socket[t].call
    BY <1>1, <1>27 DEF HandsOver, SocketRecords
  <2>2. CASE handler[h].session \in byStream
    BY <1>27, <2>1, <2>2, DeregisteredMirror DEF HandsOver
  <2>3. CASE handler[h].session \notin byStream
    BY <1>1, <1>4, <1>27, <2>1, <2>3 DEF HandsOver
  <2> QED
    BY <2>2, <2>3
<1>28. ASSUME NEW h \in Handlers, HandlerStep(h) PROVE RegistryInv'
  BY <1>28, <1>16, <1>17, <1>18, <1>19, <1>20, <1>21, <1>22, <1>23, <1>24,
     <1>25, <1>26, <1>27 DEF HandlerStep
<1>29. ASSUME NEW h \in Handlers, NEW c \in Calls, NEW k \in Keys,
             NEW target \in Agents \cup {NoTarget},
             Requests(h, c, k, target)
      PROVE  RegistryInv'
  BY <1>1, <1>4, <1>29 DEF Requests, NoTransfer
<1>30. ASSUME NEW h \in Handlers, NEW c \in Calls, NEW k \in Keys,
             NEW outcome \in {"completed", "failed"},
             ProviderReports(h, c, k, outcome)
      PROVE  RegistryInv'
  BY <1>1, <1>4, <1>30 DEF ProviderReports
<1> QED
  BY <1>14, <1>15, <1>28, <1>29, <1>30 DEF Next

\* Only the steps of a start change what it has, and a transcriber that loses
\* its stream belongs to a session that is closing.
LEMMA StartNext ==
    ASSUME TypeOK, RegistryInv, StartInv, LockInv, FoundInv, TranscriberIsOwned, Next
    PROVE  (StartInv /\ TranscriberIsOwned)'
<1>1. /\ socket \in [Sockets -> SocketRecords]
      /\ session \in [Sockets -> SessionRecords(Handlers)]
      /\ byStream \in SUBSET Sockets
      /\ streamOf \in [Calls -> Sockets \cup {NoSocket}]
  BY DEF TypeOK, MediaTypeOK
<1>2. \A s \in Sockets : Deregistered(s) =>
          /\ session'[s].stage = "closing"
          /\ session'[s].transcriber = session[s].transcriber
          /\ session'[s].spoken = session[s].spoken
          /\ session'[s].lock = session[s].lock
          /\ \A t \in Sockets \ {s} : session'[t] = session[t]
          /\ byStream' = byStream \ {s}
  BY <1>1, Deregistering
<1>3. MemoryLost =>
          /\ \A s \in Sockets :
                /\ socket'[s].call = socket[s].call
                /\ socket'[s].at = IF socket[s].at = "connected" THEN "connected" ELSE "gone"
                /\ session'[s].spoken = session[s].spoken
                /\ \/ /\ session[s].stage = "none" /\ session[s].transcriber = "none"
                      /\ session'[s] = session[s]
                   \/ /\ session[s].stage # "none" \/ session[s].transcriber # "none"
                      /\ session'[s].stage = "closed"
                      /\ session'[s].transcriber = "closed"
                      /\ session'[s].lock = Free
          /\ byStream' = {}
          /\ streamOf' = [c \in Calls |-> NoSocket]
  BY <1>1, Forgetting
<1>4. \A h \in Handlers : handler[h].at # "idle" =>
          handler[h].session \in Sockets \cup {NoSocket}
  BY Served
<1>5. \A h \in Handlers : handler[h].at = "swapping" =>
          /\ handler[h].session \in Sockets
          /\ handler[h].session # NoSocket
          /\ handler[h].target \in Agents
          /\ session[handler[h].session].stage # "none"
  BY SessionAssumption, SMTT(30) DEF FoundInv, Found, LockInv, Holds
<1>6. \A h \in Handlers : Swaps(h) =>
          LET s == handler[h].session
          IN  /\ handler[h].at = "swapping"
              /\ session'[s].stage = session[s].stage
              /\ session'[s].transcriber = session[s].transcriber
              /\ \A t \in Sockets \ {s} : session'[t] = session[t]
              /\ UNCHANGED <<socket, byStream>>
  BY <1>1, <1>5, Swapping DEF Swaps
<1> USE SessionAssumption, TransferAssumption
        DEF mediaVars, StartInv, Started, TranscriberIsOwned, SocketRecords, SessionRecords
<1>7. ASSUME NEW s \in Sockets, NEW c \in Calls, StartLooks(s, c),
             UNCHANGED <<transfer, handler, made>>
      PROVE  (StartInv /\ TranscriberIsOwned)'
  BY <1>1, <1>4, <1>7 DEF StartLooks, Spoken
<1>8. ASSUME NEW s \in Sockets, StartOpens(s), UNCHANGED <<transfer, handler, made>>
      PROVE  (StartInv /\ TranscriberIsOwned)'
  BY <1>1, <1>4, <1>8 DEF StartOpens
<1>9. ASSUME NEW s \in Sockets, StartRegisters(s), UNCHANGED <<transfer, handler, made>>
      PROVE  (StartInv /\ TranscriberIsOwned)'
  BY <1>1, <1>4, <1>9 DEF StartRegisters, Registrable
<1>10. ASSUME NEW s \in Sockets, StartIsDuplicate(s), UNCHANGED <<transfer, handler, made>>
      PROVE  (StartInv /\ TranscriberIsOwned)'
  BY <1>1, <1>4, <1>10 DEF StartIsDuplicate, Registrable, Discarded, NoSession
<1>11. ASSUME NEW s \in Sockets, StartAnnounces(s), UNCHANGED <<transfer, handler, made>>
      PROVE  (StartInv /\ TranscriberIsOwned)'
  BY <1>1, <1>4, <1>11 DEF StartAnnounces
<1>12. ASSUME NEW s \in Sockets, StartFails(s), UNCHANGED <<transfer, handler, made>>
      PROVE  (StartInv /\ TranscriberIsOwned)'
  BY <1>1, <1>4, <1>12 DEF StartFails
<1>13. ASSUME NEW s \in Sockets, SocketCloses(s), UNCHANGED <<transfer, handler, made>>
      PROVE  (StartInv /\ TranscriberIsOwned)'
  BY <1>1, <1>4, <1>2, <1>13 DEF SocketCloses
<1>14. ASSUME NEW s \in Sockets, SessionCloses(s), UNCHANGED <<transfer, handler, made>>
      PROVE  (StartInv /\ TranscriberIsOwned)'
  BY <1>1, <1>4, <1>14 DEF SessionCloses
<1>15. ASSUME NEW c \in Calls, CallEnds(c), UNCHANGED <<transfer, handler, made>>
      PROVE  (StartInv /\ TranscriberIsOwned)'
  BY <1>1, <1>4, <1>15 DEF CallEnds
<1>16. CASE MediaActs
  BY <1>16, <1>7, <1>8, <1>9, <1>10, <1>11, <1>12, <1>13, <1>14, <1>15 DEF
     MediaActs, MediaStep
<1>17. CASE Restart
  <2>1. MemoryLost
    BY <1>17 DEF Restart
  <2>8. ASSUME NEW t \in Sockets PROVE Started(t)'
    BY <1>1, <1>3, <2>1
  <2>9. ASSUME NEW t \in Sockets, session'[t].transcriber = "open"
       PROVE  socket'[t].at = "opened" \/ t \in byStream' \/ session'[t].stage = "closing"
    BY <1>1, <1>3, <2>1, <2>9
  <2> QED
    BY <2>8, <2>9
<1>18. ASSUME NEW h \in Handlers, Inserts(h) PROVE (StartInv /\ TranscriberIsOwned)'
  BY <1>1, <1>4, <1>18 DEF Inserts, Insertable, Pending
<1>19. ASSUME NEW h \in Handlers, InsertFails(h) PROVE (StartInv /\ TranscriberIsOwned)'
  BY <1>1, <1>4, <1>19 DEF InsertFails
<1>20. ASSUME NEW h \in Handlers, TransferLocks(h) PROVE (StartInv /\ TranscriberIsOwned)'
  BY <1>1, <1>4, <1>20 DEF TransferLocks, Locks, Unlocked, Acceptable
<1>21. ASSUME NEW h \in Handlers, TransferRefused(h) PROVE (StartInv /\ TranscriberIsOwned)'
  BY <1>1, <1>4, <1>21 DEF TransferRefused, FailsWith
<1>22. ASSUME NEW h \in Handlers, Swaps(h) PROVE (StartInv /\ TranscriberIsOwned)'
  <2>1. \A t \in Sockets : /\ session'[t].stage = session[t].stage
                           /\ session'[t].transcriber = session[t].transcriber
                           /\ session[t].stage = "none" => session'[t] = session[t]
    BY <1>5, <1>6, <1>22
  <2>2. socket' = socket /\ byStream' = byStream
    BY <1>6, <1>22
  <2>8. ASSUME NEW t \in Sockets PROVE Started(t)'
    BY <1>1, <2>1, <2>2
  <2>9. ASSUME NEW t \in Sockets, session'[t].transcriber = "open"
       PROVE  socket'[t].at = "opened" \/ t \in byStream' \/ session'[t].stage = "closing"
    BY <1>1, <2>1, <2>2, <2>9
  <2> QED
    BY <2>8, <2>9
<1>23. ASSUME NEW h \in Handlers, SwapFails(h) PROVE (StartInv /\ TranscriberIsOwned)'
  BY <1>1, <1>4, <1>23 DEF SwapFails, ReleasesLock, FailsWith
<1>24. ASSUME NEW h \in Handlers, Records(h) PROVE (StartInv /\ TranscriberIsOwned)'
  BY <1>1, <1>4, <1>24 DEF Records
<1>25. ASSUME NEW h \in Handlers, DialReturns(h) PROVE (StartInv /\ TranscriberIsOwned)'
  BY <1>1, <1>4, <1>25 DEF DialReturns, CarriedOut
<1>26. ASSUME NEW h \in Handlers, DialRaises(h) PROVE (StartInv /\ TranscriberIsOwned)'
  BY <1>1, <1>4, <1>26 DEF DialRaises, CarriedOut
<1>27. ASSUME NEW h \in Handlers, FinishReads(h) PROVE (StartInv /\ TranscriberIsOwned)'
  BY <1>1, <1>4, <1>27 DEF FinishReads, Finished, ClosesMedia, Settled
<1>28. ASSUME NEW h \in Handlers, FinishWrites(h) PROVE (StartInv /\ TranscriberIsOwned)'
  BY <1>1, <1>4, <1>28 DEF FinishWrites, Finished, ClosesMedia
<1>29. ASSUME NEW h \in Handlers, HandsOver(h) PROVE (StartInv /\ TranscriberIsOwned)'
  <2>1. CASE handler[h].session \in byStream
    <3> DEFINE r == handler[h].session
    <3>1. /\ r \in Sockets /\ Deregistered(r)
          /\ session[r].stage = "live"
          /\ socket' = socket
      BY <1>1, <1>29, <2>1 DEF HandsOver, RegistryInv
    <3>2. /\ session'[r].stage = "closing"
          /\ byStream' = byStream \ {r}
          /\ \A t \in Sockets \ {r} : session'[t] = session[t]
      BY <1>2, <3>1
    <3> HIDE DEF r
    <3>8. ASSUME NEW t \in Sockets PROVE Started(t)'
      BY <1>1, <1>2, <3>1
    <3>9. ASSUME NEW t \in Sockets, session'[t].transcriber = "open"
         PROVE  socket'[t].at = "opened" \/ t \in byStream' \/ session'[t].stage = "closing"
      BY <3>1, <3>2, <3>9
    <3> QED
      BY <3>8, <3>9
  <2>2. CASE handler[h].session \notin byStream
    BY <1>1, <1>29, <2>2 DEF HandsOver
  <2> QED
    BY <2>1, <2>2
<1>30. ASSUME NEW h \in Handlers, HandlerStep(h) PROVE (StartInv /\ TranscriberIsOwned)'
  BY <1>30, <1>18, <1>19, <1>20, <1>21, <1>22, <1>23, <1>24, <1>25, <1>26,
     <1>27, <1>28, <1>29 DEF HandlerStep
<1>31. ASSUME NEW h \in Handlers, NEW c \in Calls, NEW k \in Keys,
             NEW target \in Agents \cup {NoTarget},
             Requests(h, c, k, target)
      PROVE  (StartInv /\ TranscriberIsOwned)'
  BY <1>1, <1>4, <1>31 DEF Requests, NoTransfer
<1>32. ASSUME NEW h \in Handlers, NEW c \in Calls, NEW k \in Keys,
             NEW outcome \in {"completed", "failed"},
             ProviderReports(h, c, k, outcome)
      PROVE  (StartInv /\ TranscriberIsOwned)'
  BY <1>1, <1>4, <1>32 DEF ProviderReports
<1> QED
  BY <1>16, <1>17, <1>30, <1>31, <1>32 DEF Next

-----------------------------------------------------------------------------
(* Handlers, their sessions and the transfer lock *)

\* A session that has started keeps its call, its lock and its agents; one that
\* has not is free, and spoken by one agent at most.
MediaKeeps(s) ==
    /\ session'[s].lock \in {session[s].lock, Free}
    /\ IsInjective(session[s].spoken) => IsInjective(session'[s].spoken)
    /\ session[s].stage # "none" =>
          /\ session'[s].stage # "none"
          /\ session'[s].lock = session[s].lock
          /\ session'[s].spoken = session[s].spoken
          /\ socket'[s].call = socket[s].call

\* A new session has been spoken by one agent at most.
LEMMA SpokenInjective ==
    ASSUME NEW a \in Agents \cup {NoAgent}
    PROVE  IsInjective(Spoken(a))
BY DEF Spoken, IsInjective

\* An agent who has not spoken yet can be appended to those who have.
LEMMA AppendKeepsInjective ==
    ASSUME NEW seq \in Seq(Agents), NEW agent \in Agents,
           IsInjective(seq), agent \notin Range(seq)
    PROVE  IsInjective(Append(seq, agent))
<1>1. /\ Append(seq, agent) \in Seq(Agents)
      /\ Len(Append(seq, agent)) = Len(seq) + 1
      /\ \A i \in 1 .. Len(seq) : Append(seq, agent)[i] = seq[i]
      /\ Append(seq, agent)[Len(seq) + 1] = agent
  BY AppendProperties
<1>2. DOMAIN seq = 1 .. Len(seq) /\ Len(seq) \in Nat
  BY LenProperties
<1>3. DOMAIN Append(seq, agent) = 1 .. Len(seq) + 1
  BY <1>1, LenProperties
<1>4. \A i \in 1 .. Len(seq) : seq[i] # agent
  BY <1>2 DEF Range
<1>5. ASSUME NEW i \in 1 .. Len(seq) + 1, NEW j \in 1 .. Len(seq) + 1,
             Append(seq, agent)[i] = Append(seq, agent)[j]
      PROVE  i = j
  <2>1. CASE i \in 1 .. Len(seq) /\ j \in 1 .. Len(seq)
    BY <1>1, <1>2, <1>5, <2>1 DEF IsInjective
  <2>2. CASE ~(i \in 1 .. Len(seq) /\ j \in 1 .. Len(seq))
    BY <1>1, <1>2, <1>4, <1>5, <2>2
  <2> QED
    BY <2>1, <2>2
<1> QED
  BY <1>3, <1>5 DEF IsInjective

\* The steps of a socket and the end of a session do nothing more to a session
\* that has started than to end it.
LEMMA MediaStepKeeps ==
    ASSUME TypeOK, StartInv, MediaStep
    PROVE  \A s \in Sockets : MediaKeeps(s)
<1>1. /\ socket \in [Sockets -> SocketRecords]
      /\ session \in [Sockets -> SessionRecords(Handlers)]
      /\ byStream \in SUBSET Sockets
      /\ streamOf \in [Calls -> Sockets \cup {NoSocket}]
      /\ agentOf \in [Calls -> Agents \cup {NoAgent}]
  BY DEF TypeOK, MediaTypeOK
<1>2. \A s \in Sockets : Deregistered(s) =>
          /\ session'[s].stage = "closing"
          /\ session'[s].spoken = session[s].spoken
          /\ session'[s].lock = session[s].lock
          /\ \A t \in Sockets \ {s} : session'[t] = session[t]
  BY <1>1, Deregistering
<1>3. IsInjective(<<>>)
  BY DEF IsInjective
<1> USE DEF MediaKeeps, StartInv, Started, SocketRecords, SessionRecords
<1>4. ASSUME NEW s \in Sockets, NEW c \in Calls, StartLooks(s, c)
      PROVE  \A t \in Sockets : MediaKeeps(t)
  <2>1. IsInjective(Spoken(agentOf[c]))
    BY <1>1, SpokenInjective
  <2>2. session[s].stage = "none" /\ session[s].lock = Free
    BY <1>4 DEF StartLooks
  <2>3. /\ session'[s].lock = session[s].lock
        /\ session'[s].spoken = Spoken(agentOf[c])
        /\ \A t \in Sockets \ {s} : session'[t] = session[t] /\ socket'[t] = socket[t]
    BY <1>1, <1>4 DEF StartLooks
  <2> QED
    BY <2>1, <2>2, <2>3
<1>5. ASSUME NEW s \in Sockets, StartOpens(s) PROVE \A t \in Sockets : MediaKeeps(t)
  BY <1>1, <1>5 DEF StartOpens
<1>6. ASSUME NEW s \in Sockets, StartRegisters(s) PROVE \A t \in Sockets : MediaKeeps(t)
  BY <1>1, <1>6 DEF StartRegisters, Registrable
<1>7. ASSUME NEW s \in Sockets, StartIsDuplicate(s) PROVE \A t \in Sockets : MediaKeeps(t)
  <2>1. session[s].stage = "none"
    BY <1>7 DEF StartIsDuplicate
  <2>2. /\ session'[s].lock = Free
        /\ session'[s].spoken = <<>>
        /\ \A t \in Sockets \ {s} : session'[t] = session[t] /\ socket'[t] = socket[t]
    BY <1>1, <1>7 DEF StartIsDuplicate, Discarded, NoSession
  <2> QED
    BY <1>3, <2>1, <2>2
<1>8. ASSUME NEW s \in Sockets, StartAnnounces(s) PROVE \A t \in Sockets : MediaKeeps(t)
  BY <1>1, <1>8 DEF StartAnnounces
<1>9. ASSUME NEW s \in Sockets, StartFails(s) PROVE \A t \in Sockets : MediaKeeps(t)
  BY <1>1, <1>9 DEF StartFails
<1>10. ASSUME NEW s \in Sockets, SocketCloses(s) PROVE \A t \in Sockets : MediaKeeps(t)
  BY <1>1, <1>2, <1>10 DEF SocketCloses
<1>11. ASSUME NEW s \in Sockets, SessionCloses(s) PROVE \A t \in Sockets : MediaKeeps(t)
  BY <1>1, <1>11 DEF SessionCloses
<1>12. ASSUME NEW c \in Calls, CallEnds(c) PROVE \A t \in Sockets : MediaKeeps(t)
  BY <1>1, <1>12 DEF CallEnds
<1> QED
  BY <1>4, <1>5, <1>6, <1>7, <1>8, <1>9, <1>10, <1>11, <1>12 DEF MediaStep

\* What a handler has found stays a session of its call, live or not.
LEMMA FoundNext ==
    ASSUME TypeOK, RegistryInv, StartInv, LockInv, FoundInv, Next
    PROVE  FoundInv'
<1>1. \A h \in Handlers, at \in Stages : handler[h].at # "idle" /\ Goes(h, at) =>
          /\ handler' \in [Handlers -> HandlerRecords \cup {Idle}]
          /\ handler'[h].at = at
          /\ handler'[h].call = handler[h].call
          /\ handler'[h].key = handler[h].key
          /\ handler'[h].target = handler[h].target
          /\ handler'[h].session = handler[h].session
          /\ handler'[h].outcome = handler[h].outcome
          /\ \A g \in Handlers \ {h} : handler'[g] = handler[g]
  BY Going DEF TypeOK
<1>2. \A h \in Handlers, outcome \in Outcomes :
          handler[h].at # "idle" /\ Finishes(h, outcome) =>
          /\ handler' \in [Handlers -> HandlerRecords \cup {Idle}]
          /\ handler'[h].at = "finishing"
          /\ handler'[h].call = handler[h].call
          /\ handler'[h].key = handler[h].key
          /\ handler'[h].target = handler[h].target
          /\ handler'[h].session = handler[h].session
          /\ handler'[h].outcome = outcome
          /\ \A g \in Handlers \ {h} : handler'[g] = handler[g]
  BY Finishing DEF TypeOK
<1>3. \A h \in Handlers : Returns(h) =>
          /\ handler' \in [Handlers -> HandlerRecords \cup {Idle}]
          /\ handler'[h].at = "idle"
          /\ \A g \in Handlers \ {h} : handler'[g] = handler[g]
  BY Returning DEF TypeOK
<1>4. \A h \in Handlers : handler[h].at # "idle" =>
          /\ handler[h].call \in Calls
          /\ handler[h].key \in Keys
          /\ handler[h].target \in Agents \cup {NoTarget}
          /\ handler[h].session \in Sockets \cup {NoSocket}
  BY Served
<1>5. MediaStep => \A s \in Sockets : MediaKeeps(s)
  BY MediaStepKeeps
<1>6. /\ socket \in [Sockets -> SocketRecords]
      /\ session \in [Sockets -> SessionRecords(Handlers)]
      /\ byStream \in SUBSET Sockets
      /\ streamOf \in [Calls -> byStream \cup {NoSocket}]
  BY DEF TypeOK, MediaTypeOK
<1>7. MemoryLost =>
          \A s \in Sockets :
             /\ socket'[s].call = socket[s].call
             /\ session'[s].spoken = session[s].spoken
             /\ \/ session[s].stage = "none" /\ session'[s] = session[s]
                \/ session'[s].stage = "closed" /\ session'[s].lock = Free
  BY <1>6, Forgetting
<1>8. \A s \in Sockets : Deregistered(s) =>
          /\ session'[s].stage = "closing"
          /\ session'[s].spoken = session[s].spoken
          /\ session'[s].lock = session[s].lock
          /\ \A t \in Sockets \ {s} : session'[t] = session[t]
  BY <1>6, Deregistering
<1>9. \A h \in Handlers : Swaps(h) =>
          LET s == handler[h].session
          IN  /\ handler[h].at = "swapping"
              /\ handler[h].session \in Sockets
              /\ handler[h].target \in Agents
              /\ Goes(h, "recording")
              /\ socket' = socket
              /\ session'[s].stage = session[s].stage
              /\ session'[s].spoken = Append(session[s].spoken, handler[h].target)
              /\ session'[s].lock = Free
              /\ \A t \in Sockets \ {s} : session'[t] = session[t]
  BY <1>6, Swapping DEF FoundInv, Found, LockInv, Holds, Swaps
<1> USE SessionAssumption, TransferAssumption
        DEF mediaVars, Stages, Outcomes, Idle, FoundInv, Found, MediaKeeps, RegistryInv
<1>10. CASE MediaActs
  BY <1>4, <1>6, <1>5, <1>10 DEF MediaActs
<1>11. CASE Restart
  BY <1>4, <1>6, <1>7, <1>11 DEF Restart
<1>12. ASSUME NEW h \in Handlers, Inserts(h) PROVE FoundInv'
  <2>1. \A s \in Sockets : session[s].stage # "none" =>
           session'[s].stage # "none" /\ socket'[s].call = socket[s].call
    BY <1>4, <1>6, <1>1, <1>12 DEF Inserts, Insertable, Pending
  <2>2. \A g \in Handlers \ {h} : Found(g)'
    BY <1>4, <1>6, <1>1, <1>12, <2>1 DEF Inserts, Insertable, Pending
  <2>3. Found(h)'
    BY <1>4, <1>6, <1>1, <1>12, <2>1 DEF Inserts, Insertable, Pending
  <2> QED
    BY <2>2, <2>3
<1>13. ASSUME NEW h \in Handlers, InsertFails(h) PROVE FoundInv'
  <2>1. \A s \in Sockets : session[s].stage # "none" =>
           session'[s].stage # "none" /\ socket'[s].call = socket[s].call
    BY <1>4, <1>6, <1>3, <1>13 DEF InsertFails
  <2>2. \A g \in Handlers \ {h} : Found(g)'
    BY <1>4, <1>6, <1>3, <1>13, <2>1 DEF InsertFails
  <2>3. Found(h)'
    BY <1>4, <1>6, <1>3, <1>13, <2>1 DEF InsertFails
  <2> QED
    BY <2>2, <2>3
<1>14. ASSUME NEW h \in Handlers, TransferLocks(h) PROVE FoundInv'
  <2>1. \A s \in Sockets : session[s].stage # "none" =>
           session'[s].stage # "none" /\ socket'[s].call = socket[s].call
    BY <1>4, <1>6, <1>1, <1>14 DEF TransferLocks, Locks, Unlocked, Acceptable
  <2>2. \A g \in Handlers \ {h} : Found(g)'
    BY <1>4, <1>6, <1>1, <1>14, <2>1 DEF TransferLocks, Locks, Unlocked,
       Acceptable
  <2>3. Found(h)'
    BY <1>4, <1>6, <1>1, <1>14, <2>1 DEF TransferLocks, Locks, Unlocked,
       Acceptable
  <2> QED
    BY <2>2, <2>3
<1>15. ASSUME NEW h \in Handlers, TransferRefused(h) PROVE FoundInv'
  <2>1. \A s \in Sockets : session[s].stage # "none" =>
           session'[s].stage # "none" /\ socket'[s].call = socket[s].call
    BY <1>4, <1>6, <1>2, <1>15 DEF TransferRefused, FailsWith
  <2>2. \A g \in Handlers \ {h} : Found(g)'
    BY <1>4, <1>6, <1>2, <1>15, <2>1 DEF TransferRefused, FailsWith
  <2>3. Found(h)'
    BY <1>4, <1>6, <1>2, <1>15, <2>1 DEF TransferRefused, FailsWith
  <2> QED
    BY <2>2, <2>3
<1>16. ASSUME NEW h \in Handlers, Swaps(h) PROVE FoundInv'
  <2>1. \A s \in Sockets : session[s].stage # "none" =>
           session'[s].stage # "none" /\ socket'[s].call = socket[s].call
    BY <1>4, <1>6, <1>1, <1>9, <1>16
  <2>2. \A g \in Handlers \ {h} : Found(g)'
    BY <1>4, <1>6, <1>1, <1>9, <1>16, <2>1
  <2>3. Found(h)'
    BY <1>4, <1>6, <1>1, <1>9, <1>16, <2>1
  <2> QED
    BY <2>2, <2>3
<1>17. ASSUME NEW h \in Handlers, SwapFails(h) PROVE FoundInv'
  <2>1. \A s \in Sockets : session[s].stage # "none" =>
           session'[s].stage # "none" /\ socket'[s].call = socket[s].call
    BY <1>4, <1>6, <1>2, <1>17 DEF SwapFails, ReleasesLock, FailsWith
  <2>2. \A g \in Handlers \ {h} : Found(g)'
    BY <1>4, <1>6, <1>2, <1>17, <2>1 DEF SwapFails, ReleasesLock, FailsWith
  <2>3. Found(h)'
    BY <1>4, <1>6, <1>2, <1>17, <2>1 DEF SwapFails, ReleasesLock, FailsWith
  <2> QED
    BY <2>2, <2>3
<1>18. ASSUME NEW h \in Handlers, Records(h) PROVE FoundInv'
  <2>1. \A s \in Sockets : session[s].stage # "none" =>
           session'[s].stage # "none" /\ socket'[s].call = socket[s].call
    BY <1>4, <1>6, <1>3, <1>18 DEF Records
  <2>2. \A g \in Handlers \ {h} : Found(g)'
    BY <1>4, <1>6, <1>3, <1>18, <2>1 DEF Records
  <2>3. Found(h)'
    BY <1>4, <1>6, <1>3, <1>18, <2>1 DEF Records
  <2> QED
    BY <2>2, <2>3
<1>19. ASSUME NEW h \in Handlers, DialReturns(h) PROVE FoundInv'
  <2>1. \A s \in Sockets : session[s].stage # "none" =>
           session'[s].stage # "none" /\ socket'[s].call = socket[s].call
    BY <1>4, <1>6, <1>2, <1>19 DEF DialReturns, CarriedOut
  <2>2. \A g \in Handlers \ {h} : Found(g)'
    BY <1>4, <1>6, <1>2, <1>19, <2>1 DEF DialReturns, CarriedOut
  <2>3. Found(h)'
    BY <1>4, <1>6, <1>2, <1>19, <2>1 DEF DialReturns, CarriedOut
  <2> QED
    BY <2>2, <2>3
<1>20. ASSUME NEW h \in Handlers, DialRaises(h) PROVE FoundInv'
  <2>1. \A s \in Sockets : session[s].stage # "none" =>
           session'[s].stage # "none" /\ socket'[s].call = socket[s].call
    BY <1>4, <1>6, <1>2, <1>20 DEF DialRaises, CarriedOut
  <2>2. \A g \in Handlers \ {h} : Found(g)'
    BY <1>4, <1>6, <1>2, <1>20, <2>1 DEF DialRaises, CarriedOut
  <2>3. Found(h)'
    BY <1>4, <1>6, <1>2, <1>20, <2>1 DEF DialRaises, CarriedOut
  <2> QED
    BY <2>2, <2>3
<1>21. ASSUME NEW h \in Handlers, FinishReads(h) PROVE FoundInv'
  <2>1. \A s \in Sockets : session[s].stage # "none" =>
           session'[s].stage # "none" /\ socket'[s].call = socket[s].call
    BY <1>4, <1>6, <1>1, <1>3, <1>21 DEF FinishReads, Finished, ClosesMedia,
       Settled
  <2>2. \A g \in Handlers \ {h} : Found(g)'
    BY <1>4, <1>6, <1>1, <1>3, <1>21, <2>1 DEF FinishReads, Finished,
       ClosesMedia, Settled
  <2>3. Found(h)'
    BY <1>4, <1>6, <1>1, <1>3, <1>21, <2>1 DEF FinishReads, Finished,
       ClosesMedia, Settled
  <2> QED
    BY <2>2, <2>3
<1>22. ASSUME NEW h \in Handlers, FinishWrites(h) PROVE FoundInv'
  <2>1. \A s \in Sockets : session[s].stage # "none" =>
           session'[s].stage # "none" /\ socket'[s].call = socket[s].call
    BY <1>4, <1>6, <1>1, <1>3, <1>22 DEF FinishWrites, Finished, ClosesMedia
  <2>2. \A g \in Handlers \ {h} : Found(g)'
    BY <1>4, <1>6, <1>1, <1>3, <1>22, <2>1 DEF FinishWrites, Finished,
       ClosesMedia
  <2>3. Found(h)'
    BY <1>4, <1>6, <1>1, <1>3, <1>22, <2>1 DEF FinishWrites, Finished,
       ClosesMedia
  <2> QED
    BY <2>2, <2>3
<1>23. ASSUME NEW h \in Handlers, HandsOver(h) PROVE FoundInv'
  <2>1. \A s \in Sockets : session[s].stage # "none" =>
           session'[s].stage # "none" /\ socket'[s].call = socket[s].call
    BY <1>4, <1>6, <1>3, <1>8, <1>23 DEF HandsOver
  <2>2. \A g \in Handlers \ {h} : Found(g)'
    BY <1>4, <1>6, <1>3, <1>8, <1>23, <2>1 DEF HandsOver
  <2>3. Found(h)'
    BY <1>4, <1>6, <1>3, <1>8, <1>23, <2>1 DEF HandsOver
  <2> QED
    BY <2>2, <2>3
<1>24. ASSUME NEW h \in Handlers, HandlerStep(h) PROVE FoundInv'
  BY <1>24, <1>12, <1>13, <1>14, <1>15, <1>16, <1>17, <1>18, <1>19, <1>20,
     <1>21, <1>22, <1>23 DEF HandlerStep
<1>25. ASSUME NEW h \in Handlers, NEW c \in Calls, NEW k \in Keys,
             NEW target \in Agents \cup {NoTarget},
             Requests(h, c, k, target)
      PROVE  FoundInv'
  <2>1. \A s \in Sockets : session[s].stage # "none" =>
           session'[s].stage # "none" /\ socket'[s].call = socket[s].call
    BY <1>4, <1>6, <1>25 DEF Requests, NoTransfer
  <2>2. \A g \in Handlers \ {h} : Found(g)'
    BY <1>4, <1>6, <1>25, <2>1 DEF Requests, NoTransfer
  <2>3. Found(h)'
    BY <1>4, <1>6, <1>25, <2>1 DEF Requests, NoTransfer
  <2> QED
    BY <2>2, <2>3
<1>26. ASSUME NEW h \in Handlers, NEW c \in Calls, NEW k \in Keys,
             NEW outcome \in {"completed", "failed"},
             ProviderReports(h, c, k, outcome)
      PROVE  FoundInv'
  <2>1. \A s \in Sockets : session[s].stage # "none" =>
           session'[s].stage # "none" /\ socket'[s].call = socket[s].call
    BY <1>4, <1>6, <1>26 DEF ProviderReports
  <2>2. \A g \in Handlers \ {h} : Found(g)'
    BY <1>4, <1>6, <1>26, <2>1 DEF ProviderReports
  <2>3. Found(h)'
    BY <1>4, <1>6, <1>26, <2>1 DEF ProviderReports
  <2> QED
    BY <2>2, <2>3
<1> QED
  BY <1>10, <1>11, <1>24, <1>25, <1>26 DEF Next

\* A lock is taken when it is free and given back by whoever swaps; in between
\* nobody else appends to the agents of the session.
LEMMA LockNext ==
    ASSUME TypeOK, RegistryInv, StartInv, LockInv, FoundInv, NoAgentSpeaksTwice, Next
    PROVE  (LockInv /\ NoAgentSpeaksTwice)'
<1>1. \A h \in Handlers, at \in Stages : handler[h].at # "idle" /\ Goes(h, at) =>
          /\ handler' \in [Handlers -> HandlerRecords \cup {Idle}]
          /\ handler'[h].at = at
          /\ handler'[h].call = handler[h].call
          /\ handler'[h].key = handler[h].key
          /\ handler'[h].target = handler[h].target
          /\ handler'[h].session = handler[h].session
          /\ handler'[h].outcome = handler[h].outcome
          /\ \A g \in Handlers \ {h} : handler'[g] = handler[g]
  BY Going DEF TypeOK
<1>2. \A h \in Handlers, outcome \in Outcomes :
          handler[h].at # "idle" /\ Finishes(h, outcome) =>
          /\ handler' \in [Handlers -> HandlerRecords \cup {Idle}]
          /\ handler'[h].at = "finishing"
          /\ handler'[h].call = handler[h].call
          /\ handler'[h].key = handler[h].key
          /\ handler'[h].target = handler[h].target
          /\ handler'[h].session = handler[h].session
          /\ handler'[h].outcome = outcome
          /\ \A g \in Handlers \ {h} : handler'[g] = handler[g]
  BY Finishing DEF TypeOK
<1>3. \A h \in Handlers : Returns(h) =>
          /\ handler' \in [Handlers -> HandlerRecords \cup {Idle}]
          /\ handler'[h].at = "idle"
          /\ \A g \in Handlers \ {h} : handler'[g] = handler[g]
  BY Returning DEF TypeOK
<1>4. \A h \in Handlers : handler[h].at # "idle" =>
          /\ handler[h].call \in Calls
          /\ handler[h].key \in Keys
          /\ handler[h].target \in Agents \cup {NoTarget}
          /\ handler[h].session \in Sockets \cup {NoSocket}
  BY Served
<1>5. MediaStep => \A s \in Sockets : MediaKeeps(s)
  BY MediaStepKeeps
<1>6. /\ socket \in [Sockets -> SocketRecords]
      /\ session \in [Sockets -> SessionRecords(Handlers)]
      /\ byStream \in SUBSET Sockets
      /\ streamOf \in [Calls -> byStream \cup {NoSocket}]
  BY DEF TypeOK, MediaTypeOK
<1>7. MemoryLost =>
          \A s \in Sockets :
             /\ socket'[s].call = socket[s].call
             /\ session'[s].spoken = session[s].spoken
             /\ \/ session[s].stage = "none" /\ session'[s] = session[s]
                \/ session'[s].stage = "closed" /\ session'[s].lock = Free
  BY <1>6, Forgetting
<1>8. \A s \in Sockets : Deregistered(s) =>
          /\ session'[s].stage = "closing"
          /\ session'[s].spoken = session[s].spoken
          /\ session'[s].lock = session[s].lock
          /\ \A t \in Sockets \ {s} : session'[t] = session[t]
  BY <1>6, Deregistering
<1>9. \A h \in Handlers : Swaps(h) =>
          LET s == handler[h].session
          IN  /\ handler[h].at = "swapping"
              /\ handler[h].session \in Sockets
              /\ handler[h].target \in Agents
              /\ Goes(h, "recording")
              /\ socket' = socket
              /\ session'[s].stage = session[s].stage
              /\ session'[s].spoken = Append(session[s].spoken, handler[h].target)
              /\ session'[s].lock = Free
              /\ \A t \in Sockets \ {s} : session'[t] = session[t]
  BY <1>6, Swapping DEF FoundInv, Found, LockInv, Holds, Swaps
<1>10. \A s \in Sockets : session[s].lock # Free =>
           /\ session[s].lock \in Handlers
           /\ handler[session[s].lock].at = "swapping"
           /\ handler[session[s].lock].session = s
  BY <1>6 DEF LockInv, TransferLockIsServed, SessionRecords
<1>11. \A h \in Handlers : handler[h].at = "swapping" =>
           /\ handler[h].session \in Sockets
           /\ handler[h].session # NoSocket
           /\ session[handler[h].session].stage # "none"
           /\ Holds(h)
  BY SessionAssumption DEF FoundInv, Found, LockInv
<1>12. \A s \in Sockets : /\ session[s].stage = "none" => session[s].lock = Free
                          /\ IsInjective(session[s].spoken)
  BY DEF StartInv, Started, NoAgentSpeaksTwice
<1> USE SessionAssumption, TransferAssumption
        DEF mediaVars, Stages, Outcomes, Idle, MediaKeeps, Holds
<1>13. CASE MediaActs
  <2>7. ASSUME NEW g \in Handlers, handler'[g].at = "swapping" PROVE Holds(g)'
    BY <1>4, <1>6, <1>5, <1>10, <1>11, <1>12, <1>13, <2>7 DEF MediaActs
  <2>8. ASSUME NEW s \in Sockets, session'[s].lock # Free
        PROVE  /\ handler'[session'[s].lock].at = "swapping"
               /\ handler'[session'[s].lock].session = s
    BY <1>4, <1>6, <1>5, <1>10, <1>11, <1>12, <1>13, <2>8 DEF MediaActs
  <2>9. \A s \in Sockets : IsInjective(session'[s].spoken)
    BY <1>4, <1>6, <1>5, <1>10, <1>11, <1>12, <1>13 DEF MediaActs
  <2> QED
    BY <2>7, <2>8, <2>9 DEF LockInv, TransferLockIsServed, NoAgentSpeaksTwice
<1>14. CASE Restart
  <2>7. ASSUME NEW g \in Handlers, handler'[g].at = "swapping" PROVE Holds(g)'
    BY <1>4, <1>6, <1>7, <1>10, <1>11, <1>12, <1>14, <2>7 DEF Restart
  <2>8. ASSUME NEW s \in Sockets, session'[s].lock # Free
        PROVE  /\ handler'[session'[s].lock].at = "swapping"
               /\ handler'[session'[s].lock].session = s
    BY <1>4, <1>6, <1>7, <1>10, <1>11, <1>12, <1>14, <2>8 DEF Restart
  <2>9. \A s \in Sockets : IsInjective(session'[s].spoken)
    BY <1>4, <1>6, <1>7, <1>10, <1>11, <1>12, <1>14 DEF Restart
  <2> QED
    BY <2>7, <2>8, <2>9 DEF LockInv, TransferLockIsServed, NoAgentSpeaksTwice
<1>15. ASSUME NEW h \in Handlers, Inserts(h) PROVE (LockInv /\ NoAgentSpeaksTwice)'
  <2>1. \A s \in Sockets : /\ session'[s].lock = session[s].lock
                           /\ session'[s].spoken = session[s].spoken
    BY <1>4, <1>6, <1>15 DEF Inserts, Insertable, Pending
  <2>2. /\ handler[h].at # "swapping" /\ handler'[h].at # "swapping"
        /\ \A g \in Handlers \ {h} : handler'[g] = handler[g]
    BY <1>4, <1>6, <1>1, <1>15 DEF Inserts, Insertable, Pending
  <2>7. ASSUME NEW g \in Handlers, handler'[g].at = "swapping" PROVE Holds(g)'
    BY <1>11, <1>12, <2>1, <2>2, <2>7
  <2>8. ASSUME NEW s \in Sockets, session'[s].lock # Free
        PROVE  /\ handler'[session'[s].lock].at = "swapping"
               /\ handler'[session'[s].lock].session = s
    BY <1>10, <1>12, <2>1, <2>2, <2>8
  <2>9. \A s \in Sockets : IsInjective(session'[s].spoken)
    BY <1>12, <2>1
  <2> QED
    BY <2>7, <2>8, <2>9 DEF LockInv, TransferLockIsServed, NoAgentSpeaksTwice
<1>16. ASSUME NEW h \in Handlers, InsertFails(h) PROVE (LockInv /\ NoAgentSpeaksTwice)'
  <2>1. \A s \in Sockets : /\ session'[s].lock = session[s].lock
                           /\ session'[s].spoken = session[s].spoken
    BY <1>4, <1>6, <1>16 DEF InsertFails
  <2>2. /\ handler[h].at # "swapping" /\ handler'[h].at # "swapping"
        /\ \A g \in Handlers \ {h} : handler'[g] = handler[g]
    BY <1>4, <1>6, <1>3, <1>16 DEF InsertFails
  <2>7. ASSUME NEW g \in Handlers, handler'[g].at = "swapping" PROVE Holds(g)'
    BY <1>11, <1>12, <2>1, <2>2, <2>7
  <2>8. ASSUME NEW s \in Sockets, session'[s].lock # Free
        PROVE  /\ handler'[session'[s].lock].at = "swapping"
               /\ handler'[session'[s].lock].session = s
    BY <1>10, <1>12, <2>1, <2>2, <2>8
  <2>9. \A s \in Sockets : IsInjective(session'[s].spoken)
    BY <1>12, <2>1
  <2> QED
    BY <2>7, <2>8, <2>9 DEF LockInv, TransferLockIsServed, NoAgentSpeaksTwice
<1>17. ASSUME NEW h \in Handlers, TransferLocks(h) PROVE (LockInv /\ NoAgentSpeaksTwice)'
  <2>1. /\ handler[h].session \in Sockets
        /\ session'[handler[h].session].lock = h
        /\ \A t \in Sockets : session'[t].spoken = session[t].spoken
        /\ \A t \in Sockets \ {handler[h].session} : session'[t].lock = session[t].lock
    BY <1>6, <1>17 DEF TransferLocks, SessionRecords, FoundInv, Found
  <2>2. /\ handler[h].target \in Agents
        /\ handler[h].target \notin Range(session[handler[h].session].spoken)
        /\ session[handler[h].session].lock = Free
        /\ Goes(h, "swapping") /\ handler[h].at = "acting"
    BY <1>4, <1>17 DEF TransferLocks, Locks, Unlocked, Acceptable
  <2>7. ASSUME NEW g \in Handlers, handler'[g].at = "swapping" PROVE Holds(g)'
    BY <1>1, <1>10, <1>11, <2>1, <2>2, <2>7
  <2>8. ASSUME NEW s \in Sockets, session'[s].lock # Free
        PROVE  /\ handler'[session'[s].lock].at = "swapping"
               /\ handler'[session'[s].lock].session = s
    BY <1>1, <1>10, <1>11, <2>1, <2>2, <2>8
  <2>9. \A s \in Sockets : IsInjective(session'[s].spoken)
    BY <1>12, <2>1
  <2> QED
    BY <2>7, <2>8, <2>9 DEF LockInv, TransferLockIsServed, NoAgentSpeaksTwice
<1>18. ASSUME NEW h \in Handlers, TransferRefused(h) PROVE (LockInv /\ NoAgentSpeaksTwice)'
  <2>1. \A s \in Sockets : /\ session'[s].lock = session[s].lock
                           /\ session'[s].spoken = session[s].spoken
    BY <1>4, <1>6, <1>18 DEF TransferRefused, FailsWith
  <2>2. /\ handler[h].at # "swapping" /\ handler'[h].at # "swapping"
        /\ \A g \in Handlers \ {h} : handler'[g] = handler[g]
    BY <1>4, <1>6, <1>2, <1>18 DEF TransferRefused, FailsWith
  <2>7. ASSUME NEW g \in Handlers, handler'[g].at = "swapping" PROVE Holds(g)'
    BY <1>11, <1>12, <2>1, <2>2, <2>7
  <2>8. ASSUME NEW s \in Sockets, session'[s].lock # Free
        PROVE  /\ handler'[session'[s].lock].at = "swapping"
               /\ handler'[session'[s].lock].session = s
    BY <1>10, <1>12, <2>1, <2>2, <2>8
  <2>9. \A s \in Sockets : IsInjective(session'[s].spoken)
    BY <1>12, <2>1
  <2> QED
    BY <2>7, <2>8, <2>9 DEF LockInv, TransferLockIsServed, NoAgentSpeaksTwice
<1>19. ASSUME NEW h \in Handlers, Swaps(h) PROVE (LockInv /\ NoAgentSpeaksTwice)'
  <2>1. IsInjective(Append(session[handler[h].session].spoken, handler[h].target))
    BY <1>6, <1>9, <1>11, <1>12, <1>19, AppendKeepsInjective DEF SessionRecords
  <2>2. \A t \in Sockets : \/ session'[t].spoken = session[t].spoken
                            \/ IsInjective(session'[t].spoken)
    BY <1>9, <1>19, <2>1
  <2>7. ASSUME NEW g \in Handlers, handler'[g].at = "swapping" PROVE Holds(g)'
    BY <1>4, <1>6, <1>1, <1>9, <1>10, <1>11, <1>12, <1>19, <2>7
  <2>8. ASSUME NEW s \in Sockets, session'[s].lock # Free
        PROVE  /\ handler'[session'[s].lock].at = "swapping"
               /\ handler'[session'[s].lock].session = s
    BY <1>4, <1>6, <1>1, <1>9, <1>10, <1>11, <1>12, <1>19, <2>8, SMTT(30)
  <2>9. \A s \in Sockets : IsInjective(session'[s].spoken)
    BY <1>12, <2>2
  <2> QED
    BY <2>7, <2>8, <2>9 DEF LockInv, TransferLockIsServed, NoAgentSpeaksTwice
<1>20. ASSUME NEW h \in Handlers, SwapFails(h) PROVE (LockInv /\ NoAgentSpeaksTwice)'
  <2>7. ASSUME NEW g \in Handlers, handler'[g].at = "swapping" PROVE Holds(g)'
    BY <1>4, <1>6, <1>2, <1>10, <1>11, <1>12, <1>20, <2>7 DEF SwapFails,
       ReleasesLock, FailsWith
  <2>8. ASSUME NEW s \in Sockets, session'[s].lock # Free
        PROVE  /\ handler'[session'[s].lock].at = "swapping"
               /\ handler'[session'[s].lock].session = s
    BY <1>4, <1>6, <1>2, <1>10, <1>11, <1>12, <1>20, <2>8 DEF SwapFails,
       ReleasesLock, FailsWith
  <2>9. \A s \in Sockets : IsInjective(session'[s].spoken)
    BY <1>4, <1>6, <1>2, <1>10, <1>11, <1>12, <1>20 DEF SwapFails, ReleasesLock,
       FailsWith
  <2> QED
    BY <2>7, <2>8, <2>9 DEF LockInv, TransferLockIsServed, NoAgentSpeaksTwice
<1>21. ASSUME NEW h \in Handlers, Records(h) PROVE (LockInv /\ NoAgentSpeaksTwice)'
  <2>1. \A s \in Sockets : /\ session'[s].lock = session[s].lock
                           /\ session'[s].spoken = session[s].spoken
    BY <1>4, <1>6, <1>21 DEF Records
  <2>2. /\ handler[h].at # "swapping" /\ handler'[h].at # "swapping"
        /\ \A g \in Handlers \ {h} : handler'[g] = handler[g]
    BY <1>4, <1>6, <1>3, <1>21 DEF Records
  <2>7. ASSUME NEW g \in Handlers, handler'[g].at = "swapping" PROVE Holds(g)'
    BY <1>11, <1>12, <2>1, <2>2, <2>7
  <2>8. ASSUME NEW s \in Sockets, session'[s].lock # Free
        PROVE  /\ handler'[session'[s].lock].at = "swapping"
               /\ handler'[session'[s].lock].session = s
    BY <1>10, <1>12, <2>1, <2>2, <2>8
  <2>9. \A s \in Sockets : IsInjective(session'[s].spoken)
    BY <1>12, <2>1
  <2> QED
    BY <2>7, <2>8, <2>9 DEF LockInv, TransferLockIsServed, NoAgentSpeaksTwice
<1>22. ASSUME NEW h \in Handlers, DialReturns(h) PROVE (LockInv /\ NoAgentSpeaksTwice)'
  <2>1. \A s \in Sockets : /\ session'[s].lock = session[s].lock
                           /\ session'[s].spoken = session[s].spoken
    BY <1>4, <1>6, <1>22 DEF DialReturns, CarriedOut
  <2>2. /\ handler[h].at # "swapping" /\ handler'[h].at # "swapping"
        /\ \A g \in Handlers \ {h} : handler'[g] = handler[g]
    BY <1>4, <1>6, <1>2, <1>22 DEF DialReturns, CarriedOut
  <2>7. ASSUME NEW g \in Handlers, handler'[g].at = "swapping" PROVE Holds(g)'
    BY <1>11, <1>12, <2>1, <2>2, <2>7
  <2>8. ASSUME NEW s \in Sockets, session'[s].lock # Free
        PROVE  /\ handler'[session'[s].lock].at = "swapping"
               /\ handler'[session'[s].lock].session = s
    BY <1>10, <1>12, <2>1, <2>2, <2>8
  <2>9. \A s \in Sockets : IsInjective(session'[s].spoken)
    BY <1>12, <2>1
  <2> QED
    BY <2>7, <2>8, <2>9 DEF LockInv, TransferLockIsServed, NoAgentSpeaksTwice
<1>23. ASSUME NEW h \in Handlers, DialRaises(h) PROVE (LockInv /\ NoAgentSpeaksTwice)'
  <2>1. \A s \in Sockets : /\ session'[s].lock = session[s].lock
                           /\ session'[s].spoken = session[s].spoken
    BY <1>4, <1>6, <1>23 DEF DialRaises, CarriedOut
  <2>2. /\ handler[h].at # "swapping" /\ handler'[h].at # "swapping"
        /\ \A g \in Handlers \ {h} : handler'[g] = handler[g]
    BY <1>4, <1>6, <1>2, <1>23 DEF DialRaises, CarriedOut
  <2>7. ASSUME NEW g \in Handlers, handler'[g].at = "swapping" PROVE Holds(g)'
    BY <1>11, <1>12, <2>1, <2>2, <2>7
  <2>8. ASSUME NEW s \in Sockets, session'[s].lock # Free
        PROVE  /\ handler'[session'[s].lock].at = "swapping"
               /\ handler'[session'[s].lock].session = s
    BY <1>10, <1>12, <2>1, <2>2, <2>8
  <2>9. \A s \in Sockets : IsInjective(session'[s].spoken)
    BY <1>12, <2>1
  <2> QED
    BY <2>7, <2>8, <2>9 DEF LockInv, TransferLockIsServed, NoAgentSpeaksTwice
<1>24. ASSUME NEW h \in Handlers, FinishReads(h) PROVE (LockInv /\ NoAgentSpeaksTwice)'
  <2>1. \A s \in Sockets : /\ session'[s].lock = session[s].lock
                           /\ session'[s].spoken = session[s].spoken
    BY <1>4, <1>6, <1>24 DEF FinishReads, Finished, ClosesMedia, Settled
  <2>2. /\ handler[h].at # "swapping" /\ handler'[h].at # "swapping"
        /\ \A g \in Handlers \ {h} : handler'[g] = handler[g]
    BY <1>4, <1>6, <1>1, <1>3, <1>24 DEF FinishReads, Finished, ClosesMedia,
       Settled
  <2>7. ASSUME NEW g \in Handlers, handler'[g].at = "swapping" PROVE Holds(g)'
    BY <1>11, <1>12, <2>1, <2>2, <2>7
  <2>8. ASSUME NEW s \in Sockets, session'[s].lock # Free
        PROVE  /\ handler'[session'[s].lock].at = "swapping"
               /\ handler'[session'[s].lock].session = s
    BY <1>10, <1>12, <2>1, <2>2, <2>8
  <2>9. \A s \in Sockets : IsInjective(session'[s].spoken)
    BY <1>12, <2>1
  <2> QED
    BY <2>7, <2>8, <2>9 DEF LockInv, TransferLockIsServed, NoAgentSpeaksTwice
<1>25. ASSUME NEW h \in Handlers, FinishWrites(h) PROVE (LockInv /\ NoAgentSpeaksTwice)'
  <2>1. \A s \in Sockets : /\ session'[s].lock = session[s].lock
                           /\ session'[s].spoken = session[s].spoken
    BY <1>4, <1>6, <1>25 DEF FinishWrites, Finished, ClosesMedia
  <2>2. /\ handler[h].at # "swapping" /\ handler'[h].at # "swapping"
        /\ \A g \in Handlers \ {h} : handler'[g] = handler[g]
    BY <1>4, <1>6, <1>1, <1>3, <1>25 DEF FinishWrites, Finished, ClosesMedia
  <2>7. ASSUME NEW g \in Handlers, handler'[g].at = "swapping" PROVE Holds(g)'
    BY <1>11, <1>12, <2>1, <2>2, <2>7
  <2>8. ASSUME NEW s \in Sockets, session'[s].lock # Free
        PROVE  /\ handler'[session'[s].lock].at = "swapping"
               /\ handler'[session'[s].lock].session = s
    BY <1>10, <1>12, <2>1, <2>2, <2>8
  <2>9. \A s \in Sockets : IsInjective(session'[s].spoken)
    BY <1>12, <2>1
  <2> QED
    BY <2>7, <2>8, <2>9 DEF LockInv, TransferLockIsServed, NoAgentSpeaksTwice
<1>26. ASSUME NEW h \in Handlers, HandsOver(h) PROVE (LockInv /\ NoAgentSpeaksTwice)'
  <2>1. \A s \in Sockets : /\ session'[s].lock = session[s].lock
                           /\ session'[s].spoken = session[s].spoken
    BY <1>4, <1>6, <1>8, <1>26 DEF HandsOver
  <2>2. /\ handler[h].at # "swapping" /\ handler'[h].at # "swapping"
        /\ \A g \in Handlers \ {h} : handler'[g] = handler[g]
    BY <1>4, <1>6, <1>3, <1>8, <1>26 DEF HandsOver
  <2>7. ASSUME NEW g \in Handlers, handler'[g].at = "swapping" PROVE Holds(g)'
    BY <1>11, <1>12, <2>1, <2>2, <2>7
  <2>8. ASSUME NEW s \in Sockets, session'[s].lock # Free
        PROVE  /\ handler'[session'[s].lock].at = "swapping"
               /\ handler'[session'[s].lock].session = s
    BY <1>10, <1>12, <2>1, <2>2, <2>8
  <2>9. \A s \in Sockets : IsInjective(session'[s].spoken)
    BY <1>12, <2>1
  <2> QED
    BY <2>7, <2>8, <2>9 DEF LockInv, TransferLockIsServed, NoAgentSpeaksTwice
<1>27. ASSUME NEW h \in Handlers, HandlerStep(h) PROVE (LockInv /\ NoAgentSpeaksTwice)'
  BY <1>27, <1>15, <1>16, <1>17, <1>18, <1>19, <1>20, <1>21, <1>22, <1>23,
     <1>24, <1>25, <1>26 DEF HandlerStep
<1>28. ASSUME NEW h \in Handlers, NEW c \in Calls, NEW k \in Keys,
             NEW target \in Agents \cup {NoTarget},
             Requests(h, c, k, target)
      PROVE  (LockInv /\ NoAgentSpeaksTwice)'
  <2>1. \A s \in Sockets : /\ session'[s].lock = session[s].lock
                           /\ session'[s].spoken = session[s].spoken
    BY <1>4, <1>6, <1>28 DEF Requests, NoTransfer
  <2>2. /\ handler[h].at # "swapping" /\ handler'[h].at # "swapping"
        /\ \A g \in Handlers \ {h} : handler'[g] = handler[g]
    BY <1>4, <1>6, <1>28 DEF Requests, NoTransfer
  <2>7. ASSUME NEW g \in Handlers, handler'[g].at = "swapping" PROVE Holds(g)'
    BY <1>11, <1>12, <2>1, <2>2, <2>7
  <2>8. ASSUME NEW s \in Sockets, session'[s].lock # Free
        PROVE  /\ handler'[session'[s].lock].at = "swapping"
               /\ handler'[session'[s].lock].session = s
    BY <1>10, <1>12, <2>1, <2>2, <2>8
  <2>9. \A s \in Sockets : IsInjective(session'[s].spoken)
    BY <1>12, <2>1
  <2> QED
    BY <2>7, <2>8, <2>9 DEF LockInv, TransferLockIsServed, NoAgentSpeaksTwice
<1>29. ASSUME NEW h \in Handlers, NEW c \in Calls, NEW k \in Keys,
             NEW outcome \in {"completed", "failed"},
             ProviderReports(h, c, k, outcome)
      PROVE  (LockInv /\ NoAgentSpeaksTwice)'
  <2>1. \A s \in Sockets : /\ session'[s].lock = session[s].lock
                           /\ session'[s].spoken = session[s].spoken
    BY <1>4, <1>6, <1>29 DEF ProviderReports
  <2>2. /\ handler[h].at # "swapping" /\ handler'[h].at # "swapping"
        /\ \A g \in Handlers \ {h} : handler'[g] = handler[g]
    BY <1>4, <1>6, <1>29 DEF ProviderReports
  <2>7. ASSUME NEW g \in Handlers, handler'[g].at = "swapping" PROVE Holds(g)'
    BY <1>11, <1>12, <2>1, <2>2, <2>7
  <2>8. ASSUME NEW s \in Sockets, session'[s].lock # Free
        PROVE  /\ handler'[session'[s].lock].at = "swapping"
               /\ handler'[session'[s].lock].session = s
    BY <1>10, <1>12, <2>1, <2>2, <2>8
  <2>9. \A s \in Sockets : IsInjective(session'[s].spoken)
    BY <1>12, <2>1
  <2> QED
    BY <2>7, <2>8, <2>9 DEF LockInv, TransferLockIsServed, NoAgentSpeaksTwice
<1> QED
  BY <1>13, <1>14, <1>27, <1>28, <1>29 DEF Next

-----------------------------------------------------------------------------
(* Rows of transfers *)

\* A write to one row leaves the others alone.
LEMMA Writing ==
    ASSUME transfer \in [Calls -> [Keys -> Rows]], NEW c \in Calls, NEW k \in Keys,
           NEW status \in {"pending", "accepted", "completed", "failed"},
           transfer' = [transfer EXCEPT ![c][k].status = status]
    PROVE  /\ transfer' \in [Calls -> [Keys -> Rows]]
           /\ transfer'[c][k].status = status
           /\ transfer'[c][k].target = transfer[c][k].target
           /\ \A d \in Calls, l \in Keys :
                 d # c \/ l # k => transfer'[d][l] = transfer[d][l]
<1>1. transfer[c] \in [Keys -> Rows] /\ transfer[c][k] \in Rows
  OBVIOUS
<1>2. [transfer[c][k] EXCEPT !.status = status] \in Rows
  BY <1>1 DEF Rows
<1> QED
  BY <1>1, <1>2 DEF Rows

\* The row that lets a handler in is pending.
LEMMA Inserting ==
    ASSUME transfer \in [Calls -> [Keys -> Rows]], NEW c \in Calls, NEW k \in Keys,
           NEW target \in Agents \cup {NoTarget},
           transfer' = [transfer EXCEPT ![c][k] = Pending(target)]
    PROVE  /\ transfer' \in [Calls -> [Keys -> Rows]]
           /\ transfer'[c][k].status = "pending"
           /\ transfer'[c][k].target = target
           /\ \A d \in Calls, l \in Keys :
                 d # c \/ l # k => transfer'[d][l] = transfer[d][l]
<1>1. Pending(target) \in Rows
  BY DEF Rows, Pending
<1>2. transfer[c] \in [Keys -> Rows]
  OBVIOUS
<1> QED
  BY <1>1, <1>2 DEF Pending

\* What is carried out is counted for its own row.
LEMMA Carrying ==
    ASSUME made \in [Calls -> [Keys -> Nat]], NEW h \in Handlers,
           handler[h].call \in Calls, handler[h].key \in Keys, CarriedOut(h)
    PROVE  /\ made' \in [Calls -> [Keys -> Nat]]
           /\ made'[handler[h].call][handler[h].key] = Made(h) + 1
           /\ \A d \in Calls, l \in Keys :
                 d # handler[h].call \/ l # handler[h].key => made'[d][l] = made[d][l]
<1>1. made[handler[h].call] \in [Keys -> Nat]
  BY SMTT(30)
<1> QED
  BY <1>1 DEF CarriedOut, Made

\* A row is inserted once, acted on by who inserted it, and settled with what
\* that handler met; a callback comes after the dial and changes no agent
\* transfer.
LEMMA RowNext ==
    ASSUME TypeOK, LockInv, RowInv, TransferIsMadeOnce, AgentTransferIsToldTruly, Next
    PROVE  RowInv' /\ TransferIsMadeOnce' /\ AgentTransferIsToldTruly'
<1>1. \A h \in Handlers, at \in Stages : handler[h].at # "idle" /\ Goes(h, at) =>
          /\ handler' \in [Handlers -> HandlerRecords \cup {Idle}]
          /\ handler'[h].at = at
          /\ handler'[h].call = handler[h].call
          /\ handler'[h].key = handler[h].key
          /\ handler'[h].target = handler[h].target
          /\ handler'[h].session = handler[h].session
          /\ handler'[h].outcome = handler[h].outcome
          /\ \A g \in Handlers \ {h} : handler'[g] = handler[g]
  BY Going DEF TypeOK
<1>2. \A h \in Handlers, outcome \in Outcomes :
          handler[h].at # "idle" /\ Finishes(h, outcome) =>
          /\ handler' \in [Handlers -> HandlerRecords \cup {Idle}]
          /\ handler'[h].at = "finishing"
          /\ handler'[h].call = handler[h].call
          /\ handler'[h].key = handler[h].key
          /\ handler'[h].target = handler[h].target
          /\ handler'[h].session = handler[h].session
          /\ handler'[h].outcome = outcome
          /\ \A g \in Handlers \ {h} : handler'[g] = handler[g]
  BY Finishing DEF TypeOK
<1>3. \A h \in Handlers : Returns(h) =>
          /\ handler' \in [Handlers -> HandlerRecords \cup {Idle}]
          /\ handler'[h].at = "idle"
          /\ \A g \in Handlers \ {h} : handler'[g] = handler[g]
  BY Returning DEF TypeOK
<1>4. \A h \in Handlers : handler[h].at # "idle" =>
          /\ handler[h].call \in Calls
          /\ handler[h].key \in Keys
          /\ handler[h].target \in Agents \cup {NoTarget}
          /\ handler[h].session \in Sockets \cup {NoSocket}
  BY Served
<1>5. /\ transfer \in [Calls -> [Keys -> Rows]]
      /\ made \in [Calls -> [Keys -> Nat]]
  BY DEF TypeOK
<1> USE SessionAssumption, TransferAssumption
        DEF mediaVars, Stages, Outcomes, RowInv, TransferIsMadeOnce, AgentTransferIsToldTruly,
            Unmade, Claim, Alone, Acting, AtRow, SameRow, Made, RowOf, NoTransfer
<1>6. CASE MediaActs
  <2>1. transfer' = transfer /\ made' = made
    BY <1>6 DEF MediaActs
  <2>2. handler' = handler
    BY <1>6 DEF MediaActs
  <2> QED
    BY <2>1, <2>2
<1>7. CASE Restart
  <2>1. transfer' = transfer /\ made' = made
    BY <1>7 DEF Restart, Idle
  <2>2. \A h \in Handlers : handler'[h].at = "idle"
    BY <1>7, SMTT(30) DEF Restart, Idle
  <2> QED
    BY <2>1, <2>2
<1>8. ASSUME NEW h \in Handlers, Inserts(h)
      PROVE  RowInv' /\ TransferIsMadeOnce' /\ AgentTransferIsToldTruly'
  <2>1. /\ made' = made
        /\ handler[h].at = "checked"
        /\ RowOf(h).status = "absent"
        /\ Made(h) = 0
        /\ Goes(h, "acting")
    BY <1>4, <1>8 DEF Inserts, Insertable
  <2>2. /\ transfer'[handler[h].call][handler[h].key].status = "pending"
        /\ transfer'[handler[h].call][handler[h].key].target = handler[h].target
        /\ \A d \in Calls, l \in Keys :
              d # handler[h].call \/ l # handler[h].key => transfer'[d][l] = transfer[d][l]
    <3> DEFINE c == handler[h].call
               k == handler[h].key
               x == handler[h].target
    <3>1. transfer' = [transfer EXCEPT ![c][k] = Pending(x)]
      BY <1>8 DEF Inserts
    <3>2. c \in Calls /\ k \in Keys /\ x \in Agents \cup {NoTarget}
      BY <1>4, <2>1
    <3> HIDE DEF c, k, x
    <3>3. /\ transfer'[c][k].status = "pending"
          /\ transfer'[c][k].target = x
          /\ \A d \in Calls, l \in Keys : d # c \/ l # k => transfer'[d][l] = transfer[d][l]
      BY ONLY <1>5, <3>1, <3>2, Inserting DEF Pending
    <3> QED
      BY <3>3 DEF c, k, x
  <2>3. RowOf(h).status = "absent"
    BY <2>1
  <2>5. \A g \in Handlers \ {h} : handler'[g] = handler[g]
    BY <1>4, <1>1, <1>8 DEF Inserts
  <2>6. ASSUME NEW d \in Calls, NEW l \in Keys
        PROVE  /\ Unmade(d, l)'
               /\ made'[d][l] <= 1
               /\ transfer'[d][l].target # NoTarget =>
                     /\ transfer'[d][l].status = "completed" => made'[d][l] = 1
                     /\ transfer'[d][l].status = "failed" => made'[d][l] = 0
    <3>1. CASE d = handler[h].call /\ l = handler[h].key
      BY <1>4, <1>5, <2>1, <2>2, <2>3, <3>1
    <3>2. CASE ~(d = handler[h].call /\ l = handler[h].key)
      <4>1. transfer'[d][l] = transfer[d][l] /\ made'[d][l] = made[d][l]
        BY <2>1, <2>2, <3>2
      <4> QED
        BY <4>1
    <3> QED
      BY <3>1, <3>2, SMTT(30)
  <2>4. \A g \in Handlers : Claim(g) /\ \A e \in Handlers : Alone(e, g)
    OBVIOUS
  <2> HIDE DEF RowInv, TransferIsMadeOnce, AgentTransferIsToldTruly
  <2>7. ASSUME NEW g \in Handlers \ {h} PROVE Claim(g)'
    <3>1. CASE SameRow(g, h) /\ handler[g].at # "idle"
      BY <1>4, <2>1, <2>2, <2>3, <2>5, <2>4, <3>1
    <3>2. CASE ~(SameRow(g, h) /\ handler[g].at # "idle")
      <4>1. CASE handler[g].at = "idle"
        BY <2>5, <4>1
      <4>2. CASE handler[g].at # "idle"
        <5>1. RowOf(g)' = RowOf(g) /\ Made(g)' = Made(g) /\ handler'[g] = handler[g]
          BY <1>4, <2>1, <2>2, <2>5, <3>2, <4>2
        <5> QED
          BY <2>4, <5>1
      <4> QED
        BY <4>1, <4>2
    <3> QED
      BY <3>1, <3>2, SMTT(30)
  <2>8. Claim(h)'
    BY <1>4, <1>1, <2>1, <2>2, <2>3, SMTT(30)
  <2>9. ASSUME NEW e \in Handlers, NEW g \in Handlers PROVE Alone(e, g)'
    BY <1>4, <1>1, <2>1, <2>2, <2>3, <2>5, <2>4
  <2> QED
    BY <2>6, <2>7, <2>8, <2>9 DEF RowInv, TransferIsMadeOnce,
       AgentTransferIsToldTruly
<1>9. ASSUME NEW h \in Handlers, InsertFails(h)
      PROVE  RowInv' /\ TransferIsMadeOnce' /\ AgentTransferIsToldTruly'
  <2>1. transfer' = transfer /\ made' = made
    BY <1>9 DEF InsertFails
  <2>5. \A g \in Handlers \ {h} : handler'[g] = handler[g]
    BY <1>4, <1>3, <1>9 DEF InsertFails
  <2>6. ASSUME NEW d \in Calls, NEW l \in Keys
        PROVE  /\ Unmade(d, l)'
               /\ made'[d][l] <= 1
               /\ transfer'[d][l].target # NoTarget =>
                     /\ transfer'[d][l].status = "completed" => made'[d][l] = 1
                     /\ transfer'[d][l].status = "failed" => made'[d][l] = 0
    BY <1>5, <2>1
  <2>7. ASSUME NEW g \in Handlers \ {h} PROVE Claim(g)'
    BY <2>1, <2>5
  <2>8. Claim(h)'
    BY <1>4, <1>3, <2>1, <1>9 DEF InsertFails
  <2>9. ASSUME NEW e \in Handlers, NEW g \in Handlers PROVE Alone(e, g)'
    BY <1>4, <1>3, <2>1, <1>9, <2>5 DEF InsertFails
  <2> QED
    BY <2>6, <2>7, <2>8, <2>9
<1>10. ASSUME NEW h \in Handlers, TransferLocks(h)
      PROVE  RowInv' /\ TransferIsMadeOnce' /\ AgentTransferIsToldTruly'
  <2>1. transfer' = transfer /\ made' = made
    BY <1>10 DEF TransferLocks
  <2>5. \A g \in Handlers \ {h} : handler'[g] = handler[g]
    BY <1>4, <1>1, <1>10 DEF TransferLocks
  <2>6. ASSUME NEW d \in Calls, NEW l \in Keys
        PROVE  /\ Unmade(d, l)'
               /\ made'[d][l] <= 1
               /\ transfer'[d][l].target # NoTarget =>
                     /\ transfer'[d][l].status = "completed" => made'[d][l] = 1
                     /\ transfer'[d][l].status = "failed" => made'[d][l] = 0
    BY <1>5, <2>1
  <2>7. ASSUME NEW g \in Handlers \ {h} PROVE Claim(g)'
    BY <2>1, <2>5
  <2>8. Claim(h)'
    BY <1>4, <1>1, <2>1, <1>10 DEF TransferLocks
  <2>9. ASSUME NEW e \in Handlers, NEW g \in Handlers PROVE Alone(e, g)'
    BY <1>4, <1>1, <2>1, <1>10, <2>5 DEF TransferLocks
  <2> QED
    BY <2>6, <2>7, <2>8, <2>9
<1>11. ASSUME NEW h \in Handlers, TransferRefused(h)
      PROVE  RowInv' /\ TransferIsMadeOnce' /\ AgentTransferIsToldTruly'
  <2>1. transfer' = transfer /\ made' = made
    BY <1>11 DEF TransferRefused
  <2>5. \A g \in Handlers \ {h} : handler'[g] = handler[g]
    BY <1>4, <1>2, <1>11 DEF TransferRefused, FailsWith
  <2>6. ASSUME NEW d \in Calls, NEW l \in Keys
        PROVE  /\ Unmade(d, l)'
               /\ made'[d][l] <= 1
               /\ transfer'[d][l].target # NoTarget =>
                     /\ transfer'[d][l].status = "completed" => made'[d][l] = 1
                     /\ transfer'[d][l].status = "failed" => made'[d][l] = 0
    BY <1>5, <2>1
  <2>7. ASSUME NEW g \in Handlers \ {h} PROVE Claim(g)'
    BY <2>1, <2>5
  <2>8. Claim(h)'
    BY <1>4, <1>2, <2>1, <1>11 DEF TransferRefused, FailsWith
  <2>9. ASSUME NEW e \in Handlers, NEW g \in Handlers PROVE Alone(e, g)'
    BY <1>4, <1>2, <2>1, <1>11, <2>5 DEF TransferRefused, FailsWith
  <2> QED
    BY <2>6, <2>7, <2>8, <2>9
<1>12. ASSUME NEW h \in Handlers, Swaps(h)
      PROVE  RowInv' /\ TransferIsMadeOnce' /\ AgentTransferIsToldTruly'
  <2>1. transfer' = transfer /\ Acting(h) /\ handler[h].at = "swapping" /\ Goes(h, "recording")
    BY <1>12 DEF Swaps
  <2>2. /\ made'[handler[h].call][handler[h].key] = Made(h) + 1
        /\ \A d \in Calls, l \in Keys :
              d # handler[h].call \/ l # handler[h].key => made'[d][l] = made[d][l]
    BY <1>4, <1>5, <1>12, Carrying DEF Swaps
  <2>3. handler[h].target # NoTarget
    BY <2>1 DEF LockInv, Holds
  <2>5. \A g \in Handlers \ {h} : handler'[g] = handler[g]
    BY <1>4, <1>1, <1>12 DEF Swaps
  <2>6. ASSUME NEW d \in Calls, NEW l \in Keys
        PROVE  /\ Unmade(d, l)'
               /\ made'[d][l] <= 1
               /\ transfer'[d][l].target # NoTarget =>
                     /\ transfer'[d][l].status = "completed" => made'[d][l] = 1
                     /\ transfer'[d][l].status = "failed" => made'[d][l] = 0
    BY <1>4, <1>5, <2>1, <2>2
  <2>7. ASSUME NEW g \in Handlers \ {h} PROVE Claim(g)'
    BY <1>4, <2>1, <2>2, <2>5, SMTT(30)
  <2>8. Claim(h)'
    BY <1>1, <1>4, <2>1, <2>2, <2>3
  <2>9. ASSUME NEW e \in Handlers, NEW g \in Handlers PROVE Alone(e, g)'
    BY <1>1, <1>4, <2>1, <2>2, <2>3, <2>5
  <2> QED
    BY <2>6, <2>7, <2>8, <2>9
<1>13. ASSUME NEW h \in Handlers, SwapFails(h)
      PROVE  RowInv' /\ TransferIsMadeOnce' /\ AgentTransferIsToldTruly'
  <2>1. transfer' = transfer /\ made' = made
    BY <1>13 DEF SwapFails
  <2>5. \A g \in Handlers \ {h} : handler'[g] = handler[g]
    BY <1>4, <1>2, <1>13 DEF SwapFails, FailsWith
  <2>6. ASSUME NEW d \in Calls, NEW l \in Keys
        PROVE  /\ Unmade(d, l)'
               /\ made'[d][l] <= 1
               /\ transfer'[d][l].target # NoTarget =>
                     /\ transfer'[d][l].status = "completed" => made'[d][l] = 1
                     /\ transfer'[d][l].status = "failed" => made'[d][l] = 0
    BY <1>5, <2>1
  <2>7. ASSUME NEW g \in Handlers \ {h} PROVE Claim(g)'
    BY <2>1, <2>5
  <2>8. Claim(h)'
    BY <1>4, <1>2, <2>1, <1>13 DEF SwapFails, FailsWith
  <2>9. ASSUME NEW e \in Handlers, NEW g \in Handlers PROVE Alone(e, g)'
    BY <1>4, <1>2, <2>1, <1>13, <2>5 DEF SwapFails, FailsWith
  <2> QED
    BY <2>6, <2>7, <2>8, <2>9
<1>14. ASSUME NEW h \in Handlers, Records(h)
      PROVE  RowInv' /\ TransferIsMadeOnce' /\ AgentTransferIsToldTruly'
  <2>1. /\ made' = made
        /\ handler[h].at = "recording"
        /\ Returns(h)
    BY <1>4, <1>14, SMTT(30) DEF Records
  <2>2. /\ transfer'[handler[h].call][handler[h].key].status = "completed"
        /\ transfer'[handler[h].call][handler[h].key].target = RowOf(h).target
        /\ \A d \in Calls, l \in Keys :
              d # handler[h].call \/ l # handler[h].key => transfer'[d][l] = transfer[d][l]
    <3> DEFINE c == handler[h].call
               k == handler[h].key
               x == "completed"
    <3>1. transfer' = [transfer EXCEPT ![c][k].status = x]
      BY <1>14 DEF Records
    <3>2. c \in Calls /\ k \in Keys /\ x \in {"pending", "accepted", "completed", "failed"}
      BY <1>4, <2>1
    <3> HIDE DEF c, k, x
    <3>3. /\ transfer'[c][k].status = x
          /\ transfer'[c][k].target = transfer[c][k].target
          /\ \A d \in Calls, l \in Keys : d # c \/ l # k => transfer'[d][l] = transfer[d][l]
      BY ONLY <1>5, <3>1, <3>2, Writing
    <3> QED
      BY <3>3 DEF c, k, x
  <2>3. /\ handler[h].target # NoTarget /\ RowOf(h).target = handler[h].target
        /\ Made(h) = 1
    BY <2>1
  <2>5. \A g \in Handlers \ {h} : handler'[g] = handler[g]
    BY <1>4, <1>3, <1>14, SMTT(30) DEF Records
  <2>6. ASSUME NEW d \in Calls, NEW l \in Keys
        PROVE  /\ Unmade(d, l)'
               /\ made'[d][l] <= 1
               /\ transfer'[d][l].target # NoTarget =>
                     /\ transfer'[d][l].status = "completed" => made'[d][l] = 1
                     /\ transfer'[d][l].status = "failed" => made'[d][l] = 0
    <3>1. CASE d = handler[h].call /\ l = handler[h].key
      BY <1>4, <1>5, <2>1, <2>2, <2>3, <3>1
    <3>2. CASE ~(d = handler[h].call /\ l = handler[h].key)
      <4>1. transfer'[d][l] = transfer[d][l] /\ made'[d][l] = made[d][l]
        BY <2>1, <2>2, <3>2
      <4> QED
        BY <4>1
    <3> QED
      BY <3>1, <3>2
  <2>4. \A g \in Handlers : Claim(g) /\ \A e \in Handlers : Alone(e, g)
    OBVIOUS
  <2> HIDE DEF RowInv, TransferIsMadeOnce, AgentTransferIsToldTruly
  <2>7. ASSUME NEW g \in Handlers \ {h} PROVE Claim(g)'
    <3>1. CASE SameRow(g, h) /\ handler[g].at # "idle"
      <4>1. CASE handler[h].target # NoTarget
        <5>1. ~AtRow(g)
          BY <2>1, <2>4, <3>1, <4>1, SMTT(30)
        <5>2. handler[g].at # "handing"
          BY <2>3, <2>4, <3>1, <4>1
        <5> QED
          BY <2>5, <5>1, <5>2
      <4>2. CASE handler[h].target = NoTarget
        BY <2>3, <4>2
      <4> QED
        BY <4>1, <4>2
    <3>2. CASE ~(SameRow(g, h) /\ handler[g].at # "idle")
      <4>1. CASE handler[g].at = "idle"
        BY <2>5, <4>1
      <4>2. CASE handler[g].at # "idle"
        <5>1. RowOf(g)' = RowOf(g) /\ Made(g)' = Made(g) /\ handler'[g] = handler[g]
          BY <1>4, <2>1, <2>2, <2>5, <3>2, <4>2
        <5> QED
          BY <2>4, <5>1
      <4> QED
        BY <4>1, <4>2
    <3> QED
      BY <3>1, <3>2
  <2>8. Claim(h)'
    BY <1>4, <1>3, <2>1, <2>2, <2>3
  <2>9. ASSUME NEW e \in Handlers, NEW g \in Handlers PROVE Alone(e, g)'
    <3>1. ~AtRow(h)'
      BY <1>4, <1>3, <2>1, <2>2, <2>3
    <3> QED
      BY <2>4, <2>5, <3>1
  <2> QED
    BY <2>6, <2>7, <2>8, <2>9 DEF RowInv, TransferIsMadeOnce,
       AgentTransferIsToldTruly
<1>15. ASSUME NEW h \in Handlers, DialReturns(h)
      PROVE  RowInv' /\ TransferIsMadeOnce' /\ AgentTransferIsToldTruly'
  <2>1. transfer' = transfer /\ Acting(h) /\ handler[h].at # "idle"
    BY <1>15 DEF DialReturns
  <2>2. /\ made'[handler[h].call][handler[h].key] = Made(h) + 1
        /\ \A d \in Calls, l \in Keys :
              d # handler[h].call \/ l # handler[h].key => made'[d][l] = made[d][l]
    BY <1>4, <1>5, <1>15, Carrying DEF DialReturns
  <2>5. \A g \in Handlers \ {h} : handler'[g] = handler[g]
    BY <1>4, <1>2, <1>15, SMTT(30) DEF DialReturns
  <2>6. ASSUME NEW d \in Calls, NEW l \in Keys
        PROVE  /\ Unmade(d, l)'
               /\ made'[d][l] <= 1
               /\ transfer'[d][l].target # NoTarget =>
                     /\ transfer'[d][l].status = "completed" => made'[d][l] = 1
                     /\ transfer'[d][l].status = "failed" => made'[d][l] = 0
    BY <1>4, <1>5, <2>1, <2>2, SMTT(30)
  <2>7. ASSUME NEW g \in Handlers \ {h} PROVE Claim(g)'
    BY <1>4, <2>1, <2>2, <2>5, SMTT(30)
  <2>8. Claim(h)'
    BY <1>4, <1>2, <2>1, <2>2, <1>15, SMTT(30) DEF DialReturns
  <2>9. ASSUME NEW e \in Handlers, NEW g \in Handlers PROVE Alone(e, g)'
    BY <1>4, <1>2, <2>1, <2>2, <1>15, <2>5, SMTT(30) DEF DialReturns
  <2> QED
    BY <2>6, <2>7, <2>8, <2>9
<1>16. ASSUME NEW h \in Handlers, DialRaises(h)
      PROVE  RowInv' /\ TransferIsMadeOnce' /\ AgentTransferIsToldTruly'
  <2>1. transfer' = transfer /\ Acting(h) /\ handler[h].at # "idle"
    BY <1>16 DEF DialRaises
  <2>2. \/ made' = made
        \/ /\ made'[handler[h].call][handler[h].key] = Made(h) + 1
           /\ \A d \in Calls, l \in Keys :
                 d # handler[h].call \/ l # handler[h].key => made'[d][l] = made[d][l]
    BY <1>4, <1>5, <1>16, Carrying DEF DialRaises
  <2>5. \A g \in Handlers \ {h} : handler'[g] = handler[g]
    BY <1>4, <1>2, <1>16 DEF DialRaises
  <2>6. ASSUME NEW d \in Calls, NEW l \in Keys
        PROVE  /\ Unmade(d, l)'
               /\ made'[d][l] <= 1
               /\ transfer'[d][l].target # NoTarget =>
                     /\ transfer'[d][l].status = "completed" => made'[d][l] = 1
                     /\ transfer'[d][l].status = "failed" => made'[d][l] = 0
    BY <1>4, <1>5, <2>1, <2>2
  <2>7. ASSUME NEW g \in Handlers \ {h} PROVE Claim(g)'
    BY <1>4, <2>1, <2>2, <2>5, SMTT(30)
  <2>8. Claim(h)'
    BY <1>4, <1>2, <2>1, <2>2, <1>16 DEF DialRaises
  <2>9. ASSUME NEW e \in Handlers, NEW g \in Handlers PROVE Alone(e, g)'
    BY <1>4, <1>2, <2>1, <2>2, <1>16, <2>5 DEF DialRaises
  <2> QED
    BY <2>6, <2>7, <2>8, <2>9
<1>17. ASSUME NEW h \in Handlers, FinishReads(h)
      PROVE  RowInv' /\ TransferIsMadeOnce' /\ AgentTransferIsToldTruly'
  <2>1. transfer' = transfer /\ made' = made
    BY <1>17 DEF FinishReads
  <2>5. \A g \in Handlers \ {h} : handler'[g] = handler[g]
    BY <1>4, <1>1, <1>3, <1>17 DEF FinishReads, Finished, ClosesMedia, Settled
  <2>6. ASSUME NEW d \in Calls, NEW l \in Keys
        PROVE  /\ Unmade(d, l)'
               /\ made'[d][l] <= 1
               /\ transfer'[d][l].target # NoTarget =>
                     /\ transfer'[d][l].status = "completed" => made'[d][l] = 1
                     /\ transfer'[d][l].status = "failed" => made'[d][l] = 0
    BY <1>5, <2>1
  <2>7. ASSUME NEW g \in Handlers \ {h} PROVE Claim(g)'
    BY <2>1, <2>5
  <2>8. Claim(h)'
    BY <1>4, <1>1, <1>3, <2>1, <1>17 DEF FinishReads, Finished, ClosesMedia,
       Settled
  <2>9. ASSUME NEW e \in Handlers, NEW g \in Handlers PROVE Alone(e, g)'
    BY <1>4, <1>1, <1>3, <2>1, <1>17, <2>5 DEF FinishReads, Finished,
       ClosesMedia, Settled
  <2> QED
    BY <2>6, <2>7, <2>8, <2>9
<1>18. ASSUME NEW h \in Handlers, FinishWrites(h)
      PROVE  RowInv' /\ TransferIsMadeOnce' /\ AgentTransferIsToldTruly'
  <2>0. handler[h].at = "writing" /\ handler[h] \in HandlerRecords
    BY <1>18, Served DEF FinishWrites
  <2>1. /\ made' = made
        /\ handler[h].at = "writing"
        /\ handler[h].outcome \in Outcomes
        /\ IF handler[h].outcome = "accepted" THEN Goes(h, "handing") ELSE Returns(h)
    BY <2>0, <1>18, SMTT(30) DEF FinishWrites, Finished, ClosesMedia, HandlerRecords
  <2>2. /\ transfer'[handler[h].call][handler[h].key].status = handler[h].outcome
        /\ transfer'[handler[h].call][handler[h].key].target = RowOf(h).target
        /\ \A d \in Calls, l \in Keys :
              d # handler[h].call \/ l # handler[h].key => transfer'[d][l] = transfer[d][l]
    <3> DEFINE c == handler[h].call
               k == handler[h].key
               x == handler[h].outcome
    <3>1. transfer' = [transfer EXCEPT ![c][k].status = x]
      BY <1>18 DEF FinishWrites
    <3>2. c \in Calls /\ k \in Keys /\ x \in {"pending", "accepted", "completed", "failed"}
      BY <1>4, <2>1
    <3> HIDE DEF c, k, x
    <3>3. /\ transfer'[c][k].status = x
          /\ transfer'[c][k].target = transfer[c][k].target
          /\ \A d \in Calls, l \in Keys : d # c \/ l # k => transfer'[d][l] = transfer[d][l]
      BY ONLY <1>5, <3>1, <3>2, Writing
    <3> QED
      BY <3>3 DEF c, k, x
  <2>3. /\ RowOf(h).status # "absent" /\ RowOf(h).target = handler[h].target
        /\ handler[h].target # NoTarget => handler[h].outcome = "failed" /\ Made(h) = 0
        /\ handler[h].outcome = "accepted" => handler[h].target = NoTarget /\ Made(h) = 1
    BY <2>1
  <2>5. \A g \in Handlers \ {h} : handler'[g] = handler[g]
    BY <1>4, <1>1, <1>3, <1>18, SMTT(30) DEF FinishWrites, Finished, ClosesMedia
  <2>6. ASSUME NEW d \in Calls, NEW l \in Keys
        PROVE  /\ Unmade(d, l)'
               /\ made'[d][l] <= 1
               /\ transfer'[d][l].target # NoTarget =>
                     /\ transfer'[d][l].status = "completed" => made'[d][l] = 1
                     /\ transfer'[d][l].status = "failed" => made'[d][l] = 0
    <3>1. CASE d = handler[h].call /\ l = handler[h].key
      BY <1>4, <1>5, <2>1, <2>2, <2>3, <3>1
    <3>2. CASE ~(d = handler[h].call /\ l = handler[h].key)
      <4>1. transfer'[d][l] = transfer[d][l] /\ made'[d][l] = made[d][l]
        BY <2>1, <2>2, <3>2
      <4> QED
        BY <4>1
    <3> QED
      BY <3>1, <3>2
  <2>4. \A g \in Handlers : Claim(g) /\ \A e \in Handlers : Alone(e, g)
    OBVIOUS
  <2> HIDE DEF RowInv, TransferIsMadeOnce, AgentTransferIsToldTruly
  <2>7. ASSUME NEW g \in Handlers \ {h} PROVE Claim(g)'
    <3>1. CASE SameRow(g, h) /\ handler[g].at # "idle"
      <4>1. CASE handler[h].target # NoTarget
        <5>1. ~AtRow(g)
          BY <2>1, <2>4, <3>1, <4>1, SMTT(30)
        <5>2. handler[g].at # "handing"
          BY <2>3, <2>4, <3>1, <4>1
        <5> QED
          BY <2>5, <5>1, <5>2
      <4>2. CASE handler[h].target = NoTarget
        <5>1. ~Acting(g)
          BY <2>1, <2>4, <3>1, <4>2
        <5>2. /\ RowOf(g)'.status = handler[h].outcome
              /\ RowOf(g)'.target = RowOf(h).target
              /\ RowOf(h).target = NoTarget
              /\ RowOf(g) = RowOf(h) /\ Made(g)' = Made(g)
              /\ handler'[g] = handler[g]
              /\ handler[h].outcome # "absent"
          BY <2>1, <2>2, <2>3, <2>5, <3>1, <4>2
        <5>3. Claim(g)
          BY <2>4
        <5> HIDE DEF RowOf, Made
        <5> QED
          BY <5>1, <5>2, <5>3
      <4> QED
        BY <4>1, <4>2
    <3>2. CASE ~(SameRow(g, h) /\ handler[g].at # "idle")
      <4>1. CASE handler[g].at = "idle"
        BY <2>5, <4>1
      <4>2. CASE handler[g].at # "idle"
        <5>1. RowOf(g)' = RowOf(g) /\ Made(g)' = Made(g) /\ handler'[g] = handler[g]
          BY <1>4, <2>1, <2>2, <2>5, <3>2, <4>2
        <5> QED
          BY <2>4, <5>1
      <4> QED
        BY <4>1, <4>2
    <3> QED
      BY <3>1, <3>2
  <2>8. Claim(h)'
    BY <1>4, <1>1, <1>3, <2>1, <2>2, <2>3
  <2>9. ASSUME NEW e \in Handlers, NEW g \in Handlers PROVE Alone(e, g)'
    <3>1. ~AtRow(h)'
      BY <1>4, <1>1, <1>3, <2>1, <2>2, <2>3
    <3> QED
      BY <2>4, <2>5, <3>1
  <2> QED
    BY <2>6, <2>7, <2>8, <2>9 DEF RowInv, TransferIsMadeOnce,
       AgentTransferIsToldTruly
<1>19. ASSUME NEW h \in Handlers, HandsOver(h)
      PROVE  RowInv' /\ TransferIsMadeOnce' /\ AgentTransferIsToldTruly'
  <2>1. transfer' = transfer /\ made' = made
    BY <1>19 DEF HandsOver
  <2>5. \A g \in Handlers \ {h} : handler'[g] = handler[g]
    BY <1>4, <1>3, <1>19 DEF HandsOver
  <2>6. ASSUME NEW d \in Calls, NEW l \in Keys
        PROVE  /\ Unmade(d, l)'
               /\ made'[d][l] <= 1
               /\ transfer'[d][l].target # NoTarget =>
                     /\ transfer'[d][l].status = "completed" => made'[d][l] = 1
                     /\ transfer'[d][l].status = "failed" => made'[d][l] = 0
    BY <1>5, <2>1
  <2>7. ASSUME NEW g \in Handlers \ {h} PROVE Claim(g)'
    BY <2>1, <2>5
  <2>8. Claim(h)'
    BY <1>4, <1>3, <2>1, <1>19 DEF HandsOver
  <2>9. ASSUME NEW e \in Handlers, NEW g \in Handlers PROVE Alone(e, g)'
    BY <1>4, <1>3, <2>1, <1>19, <2>5, SMTT(30) DEF HandsOver
  <2> QED
    BY <2>6, <2>7, <2>8, <2>9
<1>20. ASSUME NEW h \in Handlers, HandlerStep(h)
      PROVE  RowInv' /\ TransferIsMadeOnce' /\ AgentTransferIsToldTruly'
  BY <1>20, <1>8, <1>9, <1>10, <1>11, <1>12, <1>13, <1>14, <1>15, <1>16, <1>17,
     <1>18, <1>19 DEF HandlerStep
<1>21. ASSUME NEW h \in Handlers, NEW c \in Calls, NEW k \in Keys,
             NEW target \in Agents \cup {NoTarget},
             Requests(h, c, k, target)
      PROVE  RowInv' /\ TransferIsMadeOnce' /\ AgentTransferIsToldTruly'
  <2>1. transfer' = transfer /\ made' = made
    BY <1>21 DEF Requests
  <2>5. \A g \in Handlers \ {h} : handler'[g] = handler[g]
    BY <1>4, <1>21 DEF Requests, NoTransfer
  <2>6. ASSUME NEW d \in Calls, NEW l \in Keys
        PROVE  /\ Unmade(d, l)'
               /\ made'[d][l] <= 1
               /\ transfer'[d][l].target # NoTarget =>
                     /\ transfer'[d][l].status = "completed" => made'[d][l] = 1
                     /\ transfer'[d][l].status = "failed" => made'[d][l] = 0
    BY <1>5, <2>1
  <2>7. ASSUME NEW g \in Handlers \ {h} PROVE Claim(g)'
    BY <2>1, <2>5
  <2>8. Claim(h)'
    BY <1>4, <2>1, <1>21 DEF Requests, NoTransfer
  <2>9. ASSUME NEW e \in Handlers, NEW g \in Handlers PROVE Alone(e, g)'
    BY <1>4, <2>1, <1>21, <2>5, SMTT(30) DEF Requests, NoTransfer
  <2> QED
    BY <2>6, <2>7, <2>8, <2>9
<1>22. ASSUME NEW h \in Handlers, NEW c \in Calls, NEW k \in Keys,
             NEW outcome \in {"completed", "failed"},
             ProviderReports(h, c, k, outcome)
      PROVE  RowInv' /\ TransferIsMadeOnce' /\ AgentTransferIsToldTruly'
  <2>1. transfer' = transfer /\ made' = made
    BY <1>22 DEF ProviderReports
  <2>5. \A g \in Handlers \ {h} : handler'[g] = handler[g]
    BY <1>4, <1>22 DEF ProviderReports
  <2>6. ASSUME NEW d \in Calls, NEW l \in Keys
        PROVE  /\ Unmade(d, l)'
               /\ made'[d][l] <= 1
               /\ transfer'[d][l].target # NoTarget =>
                     /\ transfer'[d][l].status = "completed" => made'[d][l] = 1
                     /\ transfer'[d][l].status = "failed" => made'[d][l] = 0
    BY <1>5, <2>1
  <2>7. ASSUME NEW g \in Handlers \ {h} PROVE Claim(g)'
    BY <2>1, <2>5
  <2>8. Claim(h)'
    BY <1>4, <2>1, <1>22 DEF ProviderReports
  <2>9. ASSUME NEW e \in Handlers, NEW g \in Handlers PROVE Alone(e, g)'
    BY <1>4, <2>1, <1>22, <2>5 DEF ProviderReports
  <2> QED
    BY <2>6, <2>7, <2>8, <2>9
<1> QED
  BY <1>6, <1>7, <1>20, <1>21, <1>22 DEF Next

-----------------------------------------------------------------------------
(* Sessions that end before their socket *)

\* What the provider has carried out stays carried out, for the same target.
LEMMA HandedOverStays ==
    ASSUME TypeOK, RowInv, Next
    PROVE  \A c \in Calls : HandedOver(c) => HandedOver(c)'
<1> DEFINE Stays == \A c \in Calls, k \in Keys :
                       made[c][k] > 0 =>
                          /\ made'[c][k] > 0
                          /\ transfer'[c][k].target = transfer[c][k].target
<1>1. /\ transfer \in [Calls -> [Keys -> Rows]]
      /\ made \in [Calls -> [Keys -> Nat]]
  BY DEF TypeOK
<1>2. ASSUME transfer' = transfer /\ made' = made PROVE Stays
  BY <1>2
<1>3. \A h \in Handlers : handler[h].at # "idle" =>
          /\ handler[h] \in HandlerRecords
          /\ handler[h].call \in Calls
          /\ handler[h].key \in Keys
          /\ handler[h].target \in Agents \cup {NoTarget}
  BY Served
<1>4. ASSUME NEW h \in Handlers, transfer' = transfer, CarriedOut(h), handler[h].at # "idle"
      PROVE  Stays
  <2>1. /\ made'[handler[h].call][handler[h].key] = Made(h) + 1
        /\ \A d \in Calls, l \in Keys :
              d # handler[h].call \/ l # handler[h].key => made'[d][l] = made[d][l]
        /\ Made(h) \in Nat
    BY <1>1, <1>3, <1>4, Carrying DEF Made
  <2> QED
    BY <1>1, <1>4, <2>1
<1>5. ASSUME NEW h \in Handlers, Inserts(h) PROVE Stays
  <2> DEFINE c == handler[h].call
             k == handler[h].key
             x == handler[h].target
  <2>1. /\ c \in Calls /\ k \in Keys /\ x \in Agents \cup {NoTarget}
        /\ transfer' = [transfer EXCEPT ![c][k] = Pending(x)]
        /\ made' = made /\ made[c][k] = 0
    BY <1>3, <1>5 DEF Inserts, Insertable, RowOf, NoTransfer, RowInv, Unmade
  <2> HIDE DEF c, k, x
  <2>2. \A d \in Calls, l \in Keys : d # c \/ l # k => transfer'[d][l] = transfer[d][l]
    BY ONLY <1>1, <2>1, Inserting DEF Pending
  <2> QED
    BY <2>1, <2>2
<1>6. ASSUME NEW h \in Handlers, made' = made, handler[h].at # "idle",
             NEW status \in {"pending", "accepted", "completed", "failed"},
             transfer' = [transfer EXCEPT ![handler[h].call][handler[h].key].status = status]
      PROVE  Stays
  <2> DEFINE c == handler[h].call
             k == handler[h].key
  <2>1. /\ c \in Calls /\ k \in Keys /\ status \in {"pending", "accepted", "completed", "failed"}
        /\ transfer' = [transfer EXCEPT ![c][k].status = status]
    BY <1>3, <1>6
  <2> HIDE DEF c, k
  <2>2. /\ transfer'[c][k].target = transfer[c][k].target
        /\ \A d \in Calls, l \in Keys : d # c \/ l # k => transfer'[d][l] = transfer[d][l]
    BY ONLY <1>1, <2>1, Writing, SMTT(30)
  <2> QED
    BY <1>6, <2>2
<1>7. ASSUME NEW h \in Handlers, Records(h) PROVE Stays
  BY <1>6, <1>7 DEF Records
<1>8. ASSUME NEW h \in Handlers, FinishWrites(h) PROVE Stays
  <2>1. handler[h].outcome \in Outcomes
    BY <1>3, <1>8 DEF FinishWrites, HandlerRecords, Outcomes, RowInv, Claim
  <2> QED
    BY <1>6, <1>8, <2>1 DEF FinishWrites, Outcomes
<1>9. ASSUME NEW h \in Handlers, HandlerStep(h) PROVE Stays
  <2>1. CASE Swaps(h) \/ DialReturns(h) \/ DialRaises(h)
    BY <1>2, <1>4, <2>1 DEF Swaps, DialReturns, DialRaises
  <2>2. CASE \/ InsertFails(h) \/ TransferLocks(h) \/ TransferRefused(h)
             \/ SwapFails(h) \/ FinishReads(h) \/ HandsOver(h)
    BY <1>2, <2>2 DEF InsertFails, TransferLocks, TransferRefused, SwapFails, FinishReads,
       HandsOver
  <2> QED
    BY <1>5, <1>7, <1>8, <1>9, <2>1, <2>2 DEF HandlerStep
<1>10. Stays
  BY <1>2, <1>9 DEF Next, MediaActs, Restart, Requests, ProviderReports
<1> QED
  BY <1>10 DEF HandedOver

\* Nothing but the acceptance of a human transfer ends a session under its
\* socket.
LEMMA EndingNext ==
    ASSUME TypeOK, StartInv, LockInv, FoundInv, RowInv, Next
    PROVE  \A t \in Sockets : Ending(t)' =>
                socket'[t].call = socket[t].call /\ (Ending(t) \/ HandedOver(socket[t].call))
<1> DEFINE Stays == \A t \in Sockets : Ending(t)' =>
                       /\ socket'[t].call = socket[t].call
                       /\ Ending(t) \/ HandedOver(socket[t].call)
<1>1. /\ socket \in [Sockets -> SocketRecords]
      /\ session \in [Sockets -> SessionRecords(Handlers)]
      /\ byStream \in SUBSET Sockets
      /\ streamOf \in [Calls -> Sockets \cup {NoSocket}]
  BY DEF TypeOK, MediaTypeOK
<1>2. \A s \in Sockets : Deregistered(s) =>
          /\ session'[s].stage = "closing"
          /\ session'[s].transcriber = session[s].transcriber
          /\ session'[s].spoken = session[s].spoken
          /\ session'[s].lock = session[s].lock
          /\ \A t \in Sockets \ {s} : session'[t] = session[t]
          /\ byStream' = byStream \ {s}
  BY <1>1, Deregistering
<1>3. MemoryLost =>
          /\ \A s \in Sockets :
                /\ socket'[s].call = socket[s].call
                /\ socket'[s].at = IF socket[s].at = "connected" THEN "connected" ELSE "gone"
                /\ session'[s].spoken = session[s].spoken
                /\ \/ /\ session[s].stage = "none" /\ session[s].transcriber = "none"
                      /\ session'[s] = session[s]
                   \/ /\ session[s].stage # "none" \/ session[s].transcriber # "none"
                      /\ session'[s].stage = "closed"
                      /\ session'[s].transcriber = "closed"
                      /\ session'[s].lock = Free
          /\ byStream' = {}
          /\ streamOf' = [c \in Calls |-> NoSocket]
  BY <1>1, Forgetting
<1>4. \A h \in Handlers : handler[h].at # "idle" => handler[h].key \in Keys
  BY Served
<1>5. \A h \in Handlers : handler[h].at = "swapping" =>
          handler[h].session \in Sockets /\ handler[h].target \in Agents
  BY DEF FoundInv, Found, LockInv, Holds
<1> USE SessionAssumption DEF mediaVars, Ending, SocketRecords, SessionRecords
<1>6. ASSUME NEW s \in Sockets, NEW c \in Calls, StartLooks(s, c),
             UNCHANGED <<transfer, handler, made>>
      PROVE  Stays
  BY <1>1, <1>6 DEF StartLooks, Spoken
<1>7. ASSUME NEW s \in Sockets, StartOpens(s), UNCHANGED <<transfer, handler, made>>
      PROVE  Stays
  BY <1>1, <1>7 DEF StartOpens
<1>8. ASSUME NEW s \in Sockets, StartRegisters(s), UNCHANGED <<transfer, handler, made>>
      PROVE  Stays
  BY <1>1, <1>8 DEF StartRegisters, Registrable
<1>9. ASSUME NEW s \in Sockets, StartIsDuplicate(s), UNCHANGED <<transfer, handler, made>>
      PROVE  Stays
  BY <1>1, <1>9 DEF StartIsDuplicate, Registrable, Discarded, NoSession
<1>10. ASSUME NEW s \in Sockets, StartAnnounces(s), UNCHANGED <<transfer, handler, made>>
      PROVE  Stays
  BY <1>1, <1>10 DEF StartAnnounces
<1>11. ASSUME NEW s \in Sockets, StartFails(s), UNCHANGED <<transfer, handler, made>>
      PROVE  Stays
  BY <1>1, <1>11 DEF StartFails
<1>12. ASSUME NEW s \in Sockets, SocketCloses(s), UNCHANGED <<transfer, handler, made>>
      PROVE  Stays
  BY <1>1, <1>2, <1>12 DEF SocketCloses
<1>13. ASSUME NEW s \in Sockets, SessionCloses(s), UNCHANGED <<transfer, handler, made>>
      PROVE  Stays
  BY <1>1, <1>13 DEF SessionCloses
<1>14. ASSUME NEW c \in Calls, CallEnds(c), UNCHANGED <<transfer, handler, made>>
      PROVE  Stays
  BY <1>1, <1>14 DEF CallEnds
<1>15. CASE MediaActs
  BY <1>15, <1>6, <1>7, <1>8, <1>9, <1>10, <1>11, <1>12, <1>13, <1>14 DEF
     MediaActs, MediaStep
<1>16. CASE Restart
  BY <1>1, <1>3, <1>16 DEF Restart
<1>17. ASSUME NEW h \in Handlers, Inserts(h) PROVE Stays
  BY <1>1, <1>17 DEF Inserts, Insertable, Pending
<1>18. ASSUME NEW h \in Handlers, InsertFails(h) PROVE Stays
  BY <1>1, <1>18 DEF InsertFails
<1>19. ASSUME NEW h \in Handlers, TransferLocks(h) PROVE Stays
  BY <1>1, <1>19 DEF TransferLocks, Locks, Unlocked, Acceptable
<1>20. ASSUME NEW h \in Handlers, TransferRefused(h) PROVE Stays
  BY <1>1, <1>20 DEF TransferRefused, FailsWith
<1>21. ASSUME NEW h \in Handlers, Swaps(h) PROVE Stays
  <2>1. /\ socket' = socket
        /\ \A t \in Sockets : session'[t].stage = session[t].stage
    BY <1>1, <1>5, <1>21, Swapping DEF Swaps
  <2> QED
    BY <2>1, SMTT(30)
<1>22. ASSUME NEW h \in Handlers, SwapFails(h) PROVE Stays
  BY <1>1, <1>22 DEF SwapFails, ReleasesLock, FailsWith
<1>23. ASSUME NEW h \in Handlers, Records(h) PROVE Stays
  BY <1>1, <1>23 DEF Records
<1>24. ASSUME NEW h \in Handlers, DialReturns(h) PROVE Stays
  BY <1>1, <1>24 DEF DialReturns, CarriedOut
<1>25. ASSUME NEW h \in Handlers, DialRaises(h) PROVE Stays
  BY <1>1, <1>25 DEF DialRaises, CarriedOut
<1>26. ASSUME NEW h \in Handlers, FinishReads(h) PROVE Stays
  BY <1>1, <1>26 DEF FinishReads, Finished, ClosesMedia, Settled
<1>27. ASSUME NEW h \in Handlers, FinishWrites(h) PROVE Stays
  BY <1>1, <1>27 DEF FinishWrites, Finished, ClosesMedia
<1>28. ASSUME NEW h \in Handlers, HandsOver(h) PROVE Stays
  <2>1. CASE handler[h].session \in byStream
    <3> DEFINE r == handler[h].session
    <3>1. handler[h].at = "handing" /\ socket' = socket /\ Deregistered(r) /\ r \in Sockets
      BY <1>1, <1>28, <2>1 DEF HandsOver
    <3>2. HandedOver(socket[r].call)
      <4>1. handler[h].target = NoTarget /\ RowOf(h).target = NoTarget /\ Made(h) = 1
        BY <3>1 DEF RowInv, Claim
      <4>2. socket[r].call = handler[h].call /\ handler[h].key \in Keys
        BY <1>1, <1>4, <2>1, <3>1 DEF FoundInv, Found
      <4> QED
        BY <4>1, <4>2 DEF HandedOver, RowOf, Made
    <3>3. \A t \in Sockets \ {r} : session'[t] = session[t]
      BY <1>2, <3>1
    <3> HIDE DEF r
    <3> QED
      BY <3>1, <3>2, <3>3
  <2>2. CASE handler[h].session \notin byStream
    BY <1>28, <2>2 DEF HandsOver
  <2> QED
    BY <2>1, <2>2
<1>29. ASSUME NEW h \in Handlers, HandlerStep(h) PROVE Stays
  BY <1>29, <1>17, <1>18, <1>19, <1>20, <1>21, <1>22, <1>23, <1>24, <1>25,
     <1>26, <1>27, <1>28 DEF HandlerStep
<1>30. ASSUME NEW h \in Handlers, NEW c \in Calls, NEW k \in Keys,
             NEW target \in Agents \cup {NoTarget},
             Requests(h, c, k, target)
      PROVE  Stays
  BY <1>1, <1>30 DEF Requests, NoTransfer
<1>31. ASSUME NEW h \in Handlers, NEW c \in Calls, NEW k \in Keys,
             NEW outcome \in {"completed", "failed"},
             ProviderReports(h, c, k, outcome)
      PROVE  Stays
  BY <1>1, <1>31 DEF ProviderReports
<1> QED
  BY <1>15, <1>16, <1>29, <1>30, <1>31 DEF Next

\* An acceptance, once given, goes on excusing the session it has ended.
LEMMA CloseNext ==
    ASSUME TypeOK, StartInv, LockInv, FoundInv, RowInv, CloseInv, Next, StartInv'
    PROVE  CloseInv'
<1>1. \A c \in Calls : HandedOver(c) => HandedOver(c)'
  BY HandedOverStays
<1>2. ASSUME NEW s \in Sockets, Ending(s)'
      PROVE  HandedOver(socket[s].call)'
  <2>1. socket'[s].call = socket[s].call /\ HandedOver(socket[s].call)
    BY <1>2, EndingNext DEF CloseInv
  <2>2. socket'[s].call \in Calls
    BY <1>2 DEF Ending, StartInv, Started
  <2> QED
    BY <1>1, <2>1, <2>2 DEF HandedOver
<1> QED
  BY <1>2 DEF CloseInv

-----------------------------------------------------------------------------
(* Types *)

\* A stream that is taken out of one index is not left in the other.
LEMMA DeregisteredTypes ==
    ASSUME TypeOK, RegistryInv, NEW s \in byStream, Deregistered(s)
    PROVE  streamOf' \in [Calls -> byStream' \cup {NoSocket}]
<1>1. /\ byStream \in SUBSET Sockets
      /\ streamOf \in [Calls -> byStream \cup {NoSocket}]
  BY DEF TypeOK, MediaTypeOK
<1>2. \A c \in Calls : streamOf[c] = s => socket[s].call = c
  BY <1>1, SessionAssumption DEF RegistryInv
<1> QED
  BY <1>1, <1>2 DEF Deregistered

\* Every step of a socket or of the end of a session keeps their types.
LEMMA MediaTypes ==
    ASSUME TypeOK, RegistryInv, MediaStep
    PROVE  MediaTypeOK(Handlers)'
<1>1. /\ agentOf \in [Calls -> Agents \cup {NoAgent}]
      /\ ended \in SUBSET Calls
      /\ socket \in [Sockets -> SocketRecords]
      /\ session \in [Sockets -> SessionRecords(Handlers)]
      /\ byStream \in SUBSET Sockets
      /\ streamOf \in [Calls -> byStream \cup {NoSocket}]
      /\ restarts \in 0 .. MaxRestarts
  BY DEF TypeOK, MediaTypeOK
<1>2. \A a \in Agents \cup {NoAgent} : Spoken(a) \in Seq(Agents)
  BY SessionAssumption DEF Spoken
<1>3. \A s \in Sockets : session[s] \in SessionRecords(Handlers)
  BY <1>1
<1>4. ASSUME NEW s \in Sockets, NEW c \in Calls, StartLooks(s, c)
      PROVE  MediaTypeOK(Handlers)'
  <2>1. [session[s] EXCEPT !.spoken = Spoken(agentOf[c])] \in SessionRecords(Handlers)
    BY <1>1, <1>2, <1>3 DEF SessionRecords
  <2>2. socket' \in [Sockets -> SocketRecords]
    BY <1>1, <1>4 DEF StartLooks, SocketRecords
  <2>3. session' \in [Sockets -> SessionRecords(Handlers)]
    BY <1>1, <1>4, <2>1 DEF StartLooks
  <2> QED
    BY <1>1, <1>4, <2>2, <2>3 DEF StartLooks, MediaTypeOK
<1>5. ASSUME NEW s \in Sockets, StartOpens(s) PROVE MediaTypeOK(Handlers)'
  <2>1. socket' \in [Sockets -> SocketRecords]
    BY <1>1, <1>5 DEF StartOpens, SocketRecords
  <2>2. session' \in [Sockets -> SessionRecords(Handlers)]
    BY <1>1, <1>3, <1>5 DEF StartOpens, SessionRecords
  <2>3. streamOf' \in [Calls -> byStream' \cup {NoSocket}]
    BY <1>1, <1>5 DEF StartOpens
  <2> QED
    BY <1>1, <1>5, <2>1, <2>2, <2>3 DEF StartOpens, MediaTypeOK
<1>6. ASSUME NEW s \in Sockets, StartRegisters(s) PROVE MediaTypeOK(Handlers)'
  <2>1. socket' \in [Sockets -> SocketRecords]
    BY <1>1, <1>6 DEF StartRegisters, SocketRecords
  <2>2. session' \in [Sockets -> SessionRecords(Handlers)]
    BY <1>1, <1>3, <1>6 DEF StartRegisters, SessionRecords
  <2>3. streamOf' \in [Calls -> byStream' \cup {NoSocket}]
    BY <1>1, <1>6 DEF StartRegisters
  <2> QED
    BY <1>1, <1>6, <2>1, <2>2, <2>3 DEF StartRegisters, MediaTypeOK
<1>7. ASSUME NEW s \in Sockets, StartIsDuplicate(s) PROVE MediaTypeOK(Handlers)'
  <2>1. socket' \in [Sockets -> SocketRecords]
    BY <1>1, <1>7 DEF StartIsDuplicate, SocketRecords
  <2>2. session' \in [Sockets -> SessionRecords(Handlers)]
    <3>1. Discarded(s) \in SessionRecords(Handlers)
      <4>1. NoSession \in SessionRecords(Handlers)
        BY DEF NoSession, SessionRecords
      <4> QED
        BY <4>1 DEF Discarded, SessionRecords
    <3> QED
      BY <1>1, <1>7, <3>1 DEF StartIsDuplicate
  <2>3. streamOf' \in [Calls -> byStream' \cup {NoSocket}]
    BY <1>1, <1>7 DEF StartIsDuplicate
  <2> QED
    BY <1>1, <1>7, <2>1, <2>2, <2>3 DEF StartIsDuplicate, MediaTypeOK
<1>8. ASSUME NEW s \in Sockets, StartAnnounces(s) PROVE MediaTypeOK(Handlers)'
  <2>1. socket' \in [Sockets -> SocketRecords]
    BY <1>1, <1>8 DEF StartAnnounces, SocketRecords
  <2>2. session' \in [Sockets -> SessionRecords(Handlers)]
    BY <1>1, <1>3, <1>8 DEF StartAnnounces, SessionRecords
  <2>3. streamOf' \in [Calls -> byStream' \cup {NoSocket}]
    BY <1>1, <1>8 DEF StartAnnounces
  <2> QED
    BY <1>1, <1>8, <2>1, <2>2, <2>3 DEF StartAnnounces, MediaTypeOK
<1>9. ASSUME NEW s \in Sockets, StartFails(s) PROVE MediaTypeOK(Handlers)'
  <2>1. socket' \in [Sockets -> SocketRecords]
    BY <1>1, <1>9 DEF StartFails, SocketRecords
  <2>2. session' \in [Sockets -> SessionRecords(Handlers)]
    BY <1>1, <1>3, <1>9 DEF StartFails, SessionRecords
  <2>3. streamOf' \in [Calls -> byStream' \cup {NoSocket}]
    BY <1>1, <1>9 DEF StartFails
  <2> QED
    BY <1>1, <1>9, <2>1, <2>2, <2>3 DEF StartFails, MediaTypeOK
<1>10. ASSUME NEW s \in Sockets, SocketCloses(s) PROVE MediaTypeOK(Handlers)'
  <2>1. socket' \in [Sockets -> SocketRecords]
    BY <1>1, <1>10 DEF SocketCloses, SocketRecords
  <2>2. CASE s \in byStream
    <3>1. Deregistered(s)
      BY <1>10, <2>2 DEF SocketCloses
    <3>2. session' \in [Sockets -> SessionRecords(Handlers)]
      BY <1>1, <3>1, Deregistering
    <3>3. streamOf' \in [Calls -> byStream' \cup {NoSocket}]
      BY <2>2, <3>1, DeregisteredTypes
    <3> QED
      BY <1>1, <1>10, <2>1, <3>1, <3>2, <3>3 DEF SocketCloses, MediaTypeOK, Deregistered
  <2>3. CASE s \notin byStream
    BY <1>1, <1>10, <2>1, <2>3 DEF SocketCloses, MediaTypeOK
  <2> QED
    BY <2>2, <2>3
<1>11. ASSUME NEW s \in Sockets, SessionCloses(s) PROVE MediaTypeOK(Handlers)'
  <2>1. socket' \in [Sockets -> SocketRecords]
    BY <1>1, <1>11 DEF SessionCloses, SocketRecords
  <2>2. session' \in [Sockets -> SessionRecords(Handlers)]
    BY <1>1, <1>3, <1>11 DEF SessionCloses, SessionRecords
  <2>3. streamOf' \in [Calls -> byStream' \cup {NoSocket}]
    BY <1>1, <1>11 DEF SessionCloses
  <2> QED
    BY <1>1, <1>11, <2>1, <2>2, <2>3 DEF SessionCloses, MediaTypeOK
<1>12. ASSUME NEW c \in Calls, CallEnds(c) PROVE MediaTypeOK(Handlers)'
  BY <1>1, <1>12 DEF CallEnds, MediaTypeOK
<1> QED
  BY <1>4, <1>5, <1>6, <1>7, <1>8, <1>9, <1>10, <1>11, <1>12 DEF MediaStep

\* Every step keeps the types.
LEMMA TypeNext ==
    ASSUME TypeOK, RegistryInv, LockInv, FoundInv, RowInv, Next
    PROVE  TypeOK'
<1>1. \A h \in Handlers, at \in Stages : handler[h].at # "idle" /\ Goes(h, at) =>
          /\ handler' \in [Handlers -> HandlerRecords \cup {Idle}]
          /\ handler'[h].at = at
          /\ handler'[h].call = handler[h].call
          /\ handler'[h].key = handler[h].key
          /\ handler'[h].target = handler[h].target
          /\ handler'[h].session = handler[h].session
          /\ handler'[h].outcome = handler[h].outcome
          /\ \A g \in Handlers \ {h} : handler'[g] = handler[g]
  BY Going DEF TypeOK
<1>2. \A h \in Handlers, outcome \in Outcomes :
          handler[h].at # "idle" /\ Finishes(h, outcome) =>
          /\ handler' \in [Handlers -> HandlerRecords \cup {Idle}]
          /\ handler'[h].at = "finishing"
          /\ handler'[h].call = handler[h].call
          /\ handler'[h].key = handler[h].key
          /\ handler'[h].target = handler[h].target
          /\ handler'[h].session = handler[h].session
          /\ handler'[h].outcome = outcome
          /\ \A g \in Handlers \ {h} : handler'[g] = handler[g]
  BY Finishing DEF TypeOK
<1>3. \A h \in Handlers : Returns(h) =>
          /\ handler' \in [Handlers -> HandlerRecords \cup {Idle}]
          /\ handler'[h].at = "idle"
          /\ \A g \in Handlers \ {h} : handler'[g] = handler[g]
  BY Returning DEF TypeOK
<1>4. \A h \in Handlers : handler[h].at # "idle" =>
          /\ handler[h].call \in Calls
          /\ handler[h].key \in Keys
          /\ handler[h].target \in Agents \cup {NoTarget}
          /\ handler[h].session \in Sockets \cup {NoSocket}
  BY Served
<1>5. /\ transfer \in [Calls -> [Keys -> Rows]]
      /\ handler \in [Handlers -> HandlerRecords \cup {Idle}]
      /\ made \in [Calls -> [Keys -> Nat]]
  BY DEF TypeOK
<1>6. /\ agentOf \in [Calls -> Agents \cup {NoAgent}]
      /\ ended \in SUBSET Calls
      /\ socket \in [Sockets -> SocketRecords]
      /\ session \in [Sockets -> SessionRecords(Handlers)]
      /\ byStream \in SUBSET Sockets
      /\ streamOf \in [Calls -> byStream \cup {NoSocket}]
      /\ restarts \in 0 .. MaxRestarts
  BY DEF TypeOK, MediaTypeOK
<1>7. CASE MediaActs
  BY <1>7, <1>5, MediaTypes DEF MediaActs, TypeOK
<1>8. CASE Restart
  <2>1. MemoryLost /\ handler' \in [Handlers -> HandlerRecords \cup {Idle}]
    BY <1>8 DEF Restart
  <2>2. MediaTypeOK(Handlers)'
    <3>1. /\ session' \in [Sockets -> SessionRecords(Handlers)]
          /\ socket' \in [Sockets -> SocketRecords]
      BY <1>6, <2>1, Forgetting
    <3>2. restarts' \in 0 .. MaxRestarts
      <4>1. restarts' = restarts + 1 /\ restarts < MaxRestarts
        BY <2>1 DEF MemoryLost
      <4> QED
        BY <1>6, <4>1, SessionAssumption
    <3>3. byStream' = {} /\ streamOf' \in [Calls -> byStream' \cup {NoSocket}]
      BY <2>1 DEF MemoryLost
    <3> QED
      BY <1>6, <2>1, <3>1, <3>2, <3>3 DEF MemoryLost, MediaTypeOK
  <2> QED
    BY <1>5, <1>8, <2>1, <2>2 DEF Restart, TypeOK
<1>9. ASSUME NEW h \in Handlers, Inserts(h) PROVE TypeOK'
  <2>1. handler' \in [Handlers -> HandlerRecords \cup {Idle}]
    BY <1>1, <1>5, <1>9 DEF Inserts, Stages, Outcomes
  <2>2. MediaTypeOK(Handlers)'
    BY <1>6, <1>9 DEF Inserts, MediaTypeOK, mediaVars
  <2>3. transfer' \in [Calls -> [Keys -> Rows]]
    <3> DEFINE d == handler[h].call
               l == handler[h].key
               x == handler[h].target
    <3>1. handler[h] \in HandlerRecords
      BY <1>9, Served DEF Inserts
    <3>2. transfer' = [transfer EXCEPT ![d][l] = Pending(x)]
      BY <1>9 DEF Inserts
    <3>3. d \in Calls /\ l \in Keys /\ x \in Agents \cup {NoTarget}
      BY <3>1 DEF HandlerRecords
    <3> HIDE DEF d, l, x
    <3> QED
      BY ONLY <1>5, <3>2, <3>3, Inserting DEF Pending
  <2>4. made' \in [Calls -> [Keys -> Nat]]
    BY <1>5, <1>9 DEF Inserts
  <2> QED
    BY <2>1, <2>2, <2>3, <2>4 DEF TypeOK
<1>10. ASSUME NEW h \in Handlers, InsertFails(h) PROVE TypeOK'
  <2>1. handler' \in [Handlers -> HandlerRecords \cup {Idle}]
    BY <1>3, <1>5, <1>10 DEF InsertFails, Stages, Outcomes
  <2>2. MediaTypeOK(Handlers)'
    BY <1>6, <1>10 DEF InsertFails, MediaTypeOK, mediaVars
  <2>3. transfer' \in [Calls -> [Keys -> Rows]]
    BY <1>5, <1>10 DEF InsertFails
  <2>4. made' \in [Calls -> [Keys -> Nat]]
    BY <1>5, <1>10 DEF InsertFails
  <2> QED
    BY <2>1, <2>2, <2>3, <2>4 DEF TypeOK
<1>11. ASSUME NEW h \in Handlers, TransferLocks(h) PROVE TypeOK'
  <2>1. handler' \in [Handlers -> HandlerRecords \cup {Idle}]
    BY <1>1, <1>5, <1>11 DEF TransferLocks, Stages, Outcomes
  <2>2. MediaTypeOK(Handlers)'
    <3>1. session' \in [Sockets -> SessionRecords(Handlers)]
      BY <1>6, <1>11, ZenonT(40) DEF TransferLocks, SessionRecords
    <3> QED
      BY <1>6, <1>11, <3>1 DEF TransferLocks, MediaTypeOK
  <2>3. transfer' \in [Calls -> [Keys -> Rows]]
    BY <1>5, <1>11 DEF TransferLocks
  <2>4. made' \in [Calls -> [Keys -> Nat]]
    BY <1>5, <1>11 DEF TransferLocks
  <2> QED
    BY <2>1, <2>2, <2>3, <2>4 DEF TypeOK
<1>12. ASSUME NEW h \in Handlers, TransferRefused(h) PROVE TypeOK'
  <2>1. handler' \in [Handlers -> HandlerRecords \cup {Idle}]
    BY <1>2, <1>5, <1>12 DEF TransferRefused, Stages, Outcomes, FailsWith
  <2>2. MediaTypeOK(Handlers)'
    BY <1>6, <1>12 DEF TransferRefused, MediaTypeOK, mediaVars
  <2>3. transfer' \in [Calls -> [Keys -> Rows]]
    BY <1>5, <1>12 DEF TransferRefused
  <2>4. made' \in [Calls -> [Keys -> Nat]]
    BY <1>5, <1>12 DEF TransferRefused
  <2> QED
    BY <2>1, <2>2, <2>3, <2>4 DEF TypeOK
<1>13. ASSUME NEW h \in Handlers, Swaps(h) PROVE TypeOK'
  <2>1. handler' \in [Handlers -> HandlerRecords \cup {Idle}]
    BY <1>1, <1>5, <1>13 DEF Swaps, Stages, Outcomes
  <2>2. MediaTypeOK(Handlers)'
    <3>1. session' \in [Sockets -> SessionRecords(Handlers)]
      <4>1. handler[h].session \in Sockets /\ handler[h].target \in Agents
        BY <1>13 DEF Swaps, FoundInv, Found, LockInv, Holds
      <4> QED
        BY <1>6, <1>13, <4>1, Swapping
    <3> QED
      BY <1>6, <1>13, <3>1 DEF Swaps, MediaTypeOK
  <2>3. transfer' \in [Calls -> [Keys -> Rows]]
    BY <1>5, <1>13 DEF Swaps
  <2>4. made' \in [Calls -> [Keys -> Nat]]
    BY <1>4, <1>5, <1>13, Carrying DEF Swaps
  <2> QED
    BY <2>1, <2>2, <2>3, <2>4 DEF TypeOK
<1>14. ASSUME NEW h \in Handlers, SwapFails(h) PROVE TypeOK'
  <2>1. handler' \in [Handlers -> HandlerRecords \cup {Idle}]
    BY <1>2, <1>5, <1>14 DEF SwapFails, Stages, Outcomes, FailsWith
  <2>2. MediaTypeOK(Handlers)'
    <3>1. session' \in [Sockets -> SessionRecords(Handlers)]
      BY <1>6, <1>14, ZenonT(40) DEF SwapFails, ReleasesLock, SessionRecords
    <3> QED
      BY <1>6, <1>14, <3>1 DEF SwapFails, MediaTypeOK
  <2>3. transfer' \in [Calls -> [Keys -> Rows]]
    BY <1>5, <1>14 DEF SwapFails
  <2>4. made' \in [Calls -> [Keys -> Nat]]
    BY <1>5, <1>14 DEF SwapFails
  <2> QED
    BY <2>1, <2>2, <2>3, <2>4 DEF TypeOK
<1>15. ASSUME NEW h \in Handlers, Records(h) PROVE TypeOK'
  <2>1. handler' \in [Handlers -> HandlerRecords \cup {Idle}]
    BY <1>3, <1>5, <1>15 DEF Records, Stages, Outcomes
  <2>2. MediaTypeOK(Handlers)'
    <3>1. handler[h].at = "recording" /\ handler[h].target \in Agents
      BY <1>4, <1>15 DEF Records, RowInv, Claim
    <3> QED
      BY <1>6, <1>15, <3>1 DEF Records, MediaTypeOK
  <2>3. transfer' \in [Calls -> [Keys -> Rows]]
    <3> DEFINE d == handler[h].call
               l == handler[h].key
               x == "completed"
    <3>1. handler[h] \in HandlerRecords
      BY <1>15, Served DEF Records
    <3>2. transfer' = [transfer EXCEPT ![d][l].status = x]
      BY <1>15 DEF Records
    <3>3. d \in Calls /\ l \in Keys /\ x \in {"pending", "accepted", "completed", "failed"}
      BY <3>1 DEF HandlerRecords
    <3> HIDE DEF d, l, x
    <3> QED
      BY ONLY <1>5, <3>2, <3>3, Writing
  <2>4. made' \in [Calls -> [Keys -> Nat]]
    BY <1>5, <1>15 DEF Records
  <2> QED
    BY <2>1, <2>2, <2>3, <2>4 DEF TypeOK
<1>16. ASSUME NEW h \in Handlers, DialReturns(h) PROVE TypeOK'
  <2>1. handler' \in [Handlers -> HandlerRecords \cup {Idle}]
    BY <1>2, <1>5, <1>16 DEF DialReturns, Stages, Outcomes
  <2>2. MediaTypeOK(Handlers)'
    BY <1>6, <1>16 DEF DialReturns, MediaTypeOK, mediaVars
  <2>3. transfer' \in [Calls -> [Keys -> Rows]]
    BY <1>5, <1>16 DEF DialReturns
  <2>4. made' \in [Calls -> [Keys -> Nat]]
    BY <1>4, <1>5, <1>16, Carrying DEF DialReturns
  <2> QED
    BY <2>1, <2>2, <2>3, <2>4 DEF TypeOK
<1>17. ASSUME NEW h \in Handlers, DialRaises(h) PROVE TypeOK'
  <2>1. handler' \in [Handlers -> HandlerRecords \cup {Idle}]
    BY <1>2, <1>5, <1>17 DEF DialRaises, Stages, Outcomes
  <2>2. MediaTypeOK(Handlers)'
    BY <1>6, <1>17 DEF DialRaises, MediaTypeOK, mediaVars
  <2>3. transfer' \in [Calls -> [Keys -> Rows]]
    BY <1>5, <1>17 DEF DialRaises
  <2>4. made' \in [Calls -> [Keys -> Nat]]
    BY <1>4, <1>5, <1>17, Carrying DEF DialRaises
  <2> QED
    BY <2>1, <2>2, <2>3, <2>4 DEF TypeOK
<1>18. ASSUME NEW h \in Handlers, FinishReads(h) PROVE TypeOK'
  <2>1. handler' \in [Handlers -> HandlerRecords \cup {Idle}]
    BY <1>1, <1>3, <1>5, <1>18 DEF FinishReads, Stages, Outcomes, Finished,
       ClosesMedia
  <2>2. MediaTypeOK(Handlers)'
    BY <1>6, <1>18 DEF FinishReads, MediaTypeOK, mediaVars
  <2>3. transfer' \in [Calls -> [Keys -> Rows]]
    BY <1>5, <1>18 DEF FinishReads
  <2>4. made' \in [Calls -> [Keys -> Nat]]
    BY <1>5, <1>18 DEF FinishReads
  <2> QED
    BY <2>1, <2>2, <2>3, <2>4 DEF TypeOK
<1>19. ASSUME NEW h \in Handlers, FinishWrites(h) PROVE TypeOK'
  <2>1. handler' \in [Handlers -> HandlerRecords \cup {Idle}]
    BY <1>1, <1>3, <1>5, <1>19 DEF FinishWrites, Stages, Outcomes, Finished,
       ClosesMedia
  <2>2. MediaTypeOK(Handlers)'
    BY <1>6, <1>19 DEF FinishWrites, MediaTypeOK, mediaVars
  <2>3. transfer' \in [Calls -> [Keys -> Rows]]
    <3> DEFINE d == handler[h].call
               l == handler[h].key
               x == handler[h].outcome
    <3>1. handler[h] \in HandlerRecords
      BY <1>19, Served DEF FinishWrites
    <3>2. transfer' = [transfer EXCEPT ![d][l].status = x]
      BY <1>19 DEF FinishWrites
    <3>3. d \in Calls /\ l \in Keys /\ x \in {"pending", "accepted", "completed", "failed"}
      BY <1>19, <3>1 DEF FinishWrites, HandlerRecords, RowInv, Claim
    <3> HIDE DEF d, l, x
    <3> QED
      BY ONLY <1>5, <3>2, <3>3, Writing
  <2>4. made' \in [Calls -> [Keys -> Nat]]
    BY <1>5, <1>19 DEF FinishWrites
  <2> QED
    BY <2>1, <2>2, <2>3, <2>4 DEF TypeOK
<1>20. ASSUME NEW h \in Handlers, HandsOver(h) PROVE TypeOK'
  <2>1. handler' \in [Handlers -> HandlerRecords \cup {Idle}]
    BY <1>3, <1>5, <1>20 DEF HandsOver, Stages, Outcomes
  <2>2. MediaTypeOK(Handlers)'
    <3>1. CASE handler[h].session \in byStream
      <4> DEFINE r == handler[h].session
      <4>1. Deregistered(r) /\ r \in Sockets
        BY <1>6, <1>20, <3>1 DEF HandsOver
      <4> HIDE DEF r
      <4>2. session' \in [Sockets -> SessionRecords(Handlers)]
        BY <1>6, <4>1, Deregistering
      <4>3. streamOf' \in [Calls -> byStream' \cup {NoSocket}]
        BY <3>1, <4>1, DeregisteredTypes DEF r
      <4> QED
        BY <1>6, <1>20, <4>1, <4>2, <4>3 DEF HandsOver, MediaTypeOK, Deregistered
    <3>2. CASE handler[h].session \notin byStream
      BY <1>6, <1>20, <3>2 DEF HandsOver, MediaTypeOK
    <3> QED
      BY <3>1, <3>2
  <2>3. transfer' \in [Calls -> [Keys -> Rows]]
    BY <1>5, <1>20 DEF HandsOver
  <2>4. made' \in [Calls -> [Keys -> Nat]]
    BY <1>5, <1>20 DEF HandsOver
  <2> QED
    BY <2>1, <2>2, <2>3, <2>4 DEF TypeOK
<1>21. ASSUME NEW h \in Handlers, HandlerStep(h) PROVE TypeOK'
  BY <1>21, <1>9, <1>10, <1>11, <1>12, <1>13, <1>14, <1>15, <1>16, <1>17, <1>18,
     <1>19, <1>20 DEF HandlerStep
<1>22. ASSUME NEW h \in Handlers, NEW c \in Calls, NEW k \in Keys,
             NEW target \in Agents \cup {NoTarget},
             Requests(h, c, k, target)
      PROVE  TypeOK'
  <2>1. handler' \in [Handlers -> HandlerRecords \cup {Idle}]
    <3>1. [at |-> "checked", call |-> c, key |-> k, target |-> target,
          session |-> streamOf[c], outcome |-> "none"]
             \in HandlerRecords
      BY <1>6 DEF HandlerRecords
    <3> QED
      BY <1>5, <1>22, <3>1 DEF Requests
  <2>2. MediaTypeOK(Handlers)'
    BY <1>6, <1>22 DEF Requests, MediaTypeOK, mediaVars
  <2>3. transfer' \in [Calls -> [Keys -> Rows]]
    BY <1>5, <1>22 DEF Requests
  <2>4. made' \in [Calls -> [Keys -> Nat]]
    BY <1>5, <1>22 DEF Requests
  <2> QED
    BY <2>1, <2>2, <2>3, <2>4 DEF TypeOK
<1>23. ASSUME NEW h \in Handlers, NEW c \in Calls, NEW k \in Keys,
             NEW outcome \in {"completed", "failed"},
             ProviderReports(h, c, k, outcome)
      PROVE  TypeOK'
  <2>1. handler' \in [Handlers -> HandlerRecords \cup {Idle}]
    <3>1. [at |-> "finishing", call |-> c, key |-> k, target |-> NoTarget,
          session |-> NoSocket, outcome |-> outcome]
             \in HandlerRecords
      BY <1>6 DEF HandlerRecords
    <3> QED
      BY <1>5, <1>23, <3>1 DEF ProviderReports
  <2>2. MediaTypeOK(Handlers)'
    BY <1>6, <1>23 DEF ProviderReports, MediaTypeOK, mediaVars
  <2>3. transfer' \in [Calls -> [Keys -> Rows]]
    BY <1>5, <1>23 DEF ProviderReports
  <2>4. made' \in [Calls -> [Keys -> Nat]]
    BY <1>5, <1>23 DEF ProviderReports
  <2> QED
    BY <2>1, <2>2, <2>3, <2>4 DEF TypeOK
<1> QED
  BY <1>7, <1>8, <1>21, <1>22, <1>23 DEF Next

-----------------------------------------------------------------------------
(* The invariant, and what it says of the calls *)

\* The server starts with no session and no transfer.
LEMMA InitInv == Init => TransfersInv
<1> SUFFICES ASSUME Init PROVE TransfersInv
  OBVIOUS
<1> USE SessionAssumption, TransferAssumption
<1>1. /\ \A s \in Sockets : session[s] = NoSession
      /\ \A s \in Sockets : socket[s] = [at |-> "connected", call |-> NoSocket]
      /\ \A h \in Handlers : handler[h] = Idle
      /\ \A c \in Calls : streamOf[c] = NoSocket
      /\ byStream = {}
      /\ \A c \in Calls, k \in Keys : transfer[c][k] = NoTransfer /\ made[c][k] = 0
  BY DEF Init, MediaInit
<1>2. TypeOK
  <2>1. NoSession \in SessionRecords(Handlers)
    BY DEF NoSession, SessionRecords
  <2>2. NoTransfer \in Rows
    BY DEF NoTransfer, Rows
  <2>3. MediaTypeOK(Handlers)
    BY <2>1 DEF Init, MediaInit, MediaTypeOK, SocketRecords
  <2> QED
    BY <2>2, <2>3 DEF Init, TypeOK
<1>3. RegistryInv /\ StartInv /\ TranscriberIsOwned /\ CloseInv
  BY <1>1 DEF RegistryInv, StartInv, Started, TranscriberIsOwned, CloseInv, Ending, NoSession
<1>4. LockInv /\ FoundInv
  BY <1>1 DEF LockInv, TransferLockIsServed, FoundInv, Found, NoSession, Idle
<1>5. NoAgentSpeaksTwice
  BY <1>1 DEF NoAgentSpeaksTwice, NoSession, IsInjective
<1>6. RowInv /\ TransferIsMadeOnce /\ AgentTransferIsToldTruly
  BY <1>1 DEF RowInv, Unmade, Claim, Alone, AtRow, Acting, TransferIsMadeOnce,
     AgentTransferIsToldTruly, NoTransfer, Idle
<1> QED
  BY <1>2, <1>3, <1>4, <1>5, <1>6 DEF TransfersInv

\* Every step keeps the invariant, part by part.
LEMMA NextInv == TransfersInv /\ [Next]_vars => TransfersInv'
<1>1. ASSUME TransfersInv, Next PROVE TransfersInv'
  <2>1. TypeOK'
    BY <1>1, TypeNext DEF TransfersInv
  <2>2. RegistryInv'
    BY <1>1, RegistryNext DEF TransfersInv
  <2>3. StartInv' /\ TranscriberIsOwned'
    BY <1>1, StartNext DEF TransfersInv
  <2>4. LockInv' /\ NoAgentSpeaksTwice'
    BY <1>1, LockNext DEF TransfersInv
  <2>5. FoundInv'
    BY <1>1, FoundNext DEF TransfersInv
  <2>6. RowInv' /\ TransferIsMadeOnce' /\ AgentTransferIsToldTruly'
    BY <1>1, RowNext DEF TransfersInv
  <2>7. CloseInv'
    BY <1>1, <2>3, CloseNext DEF TransfersInv
  <2> QED
    BY <2>1, <2>2, <2>3, <2>4, <2>5, <2>6, <2>7 DEF TransfersInv
<1>2. ASSUME TransfersInv, UNCHANGED vars PROVE TransfersInv'
  <2>1. /\ agentOf' = agentOf /\ ended' = ended /\ socket' = socket /\ session' = session
        /\ byStream' = byStream /\ streamOf' = streamOf /\ restarts' = restarts
        /\ transfer' = transfer /\ handler' = handler /\ made' = made
    BY <1>2 DEF vars, mediaVars
  <2>2. TypeOK' /\ RegistryInv' /\ StartInv' /\ TranscriberIsOwned' /\ CloseInv'
    BY <1>2, <2>1 DEF TransfersInv, TypeOK, MediaTypeOK, RegistryInv, StartInv, Started,
       TranscriberIsOwned, CloseInv, Ending, HandedOver
  <2>3. LockInv' /\ FoundInv' /\ NoAgentSpeaksTwice'
    BY <1>2, <2>1 DEF TransfersInv, LockInv, TransferLockIsServed, Holds, FoundInv, Found,
       NoAgentSpeaksTwice
  <2>4. RowInv' /\ TransferIsMadeOnce' /\ AgentTransferIsToldTruly'
    BY <1>2, <2>1 DEF TransfersInv, RowInv, Unmade, Claim, Alone, AtRow, Acting, SameRow,
       RowOf, Made, TransferIsMadeOnce, AgentTransferIsToldTruly
  <2> QED
    BY <2>2, <2>3, <2>4 DEF TransfersInv
<1> QED
  BY <1>1, <1>2

\* The invariant holds in every state, for any calls, streams, agents and
\* handlers.
THEOREM InvariantHolds == Spec => []TransfersInv
BY InitInv, NextInv, PTL DEF Spec

\* Every variable keeps its type.
THEOREM TypeCorrect == Spec => []TypeOK
<1>1. TransfersInv => TypeOK
  BY DEF TransfersInv
<1> QED
  BY <1>1, InvariantHolds, PTL

\* Two sessions of one call are never live at once, whatever the order in which
\* their starts cross the awaits of MediaSessionService.start.
THEOREM OneSession == Spec => []OneSessionPerCall
<1>1. TransfersInv => OneSessionPerCall
  BY DEF TransfersInv, RegistryInv, OneSessionPerCall
<1> QED
  BY <1>1, InvariantHolds, PTL

\* Every open transcriber belongs to a start in flight, a registered stream or
\* a session that is closing.
THEOREM TranscriberOwned == Spec => []TranscriberIsOwned
<1>1. TransfersInv => TranscriberIsOwned
  BY DEF TransfersInv
<1> QED
  BY <1>1, InvariantHolds, PTL

\* No agent is installed twice in one session, however many transfers meet.
THEOREM NoAgentTwice == Spec => []NoAgentSpeaksTwice
<1>1. TransfersInv => NoAgentSpeaksTwice
  BY DEF TransfersInv
<1> QED
  BY <1>1, InvariantHolds, PTL

\* A transfer is carried out once per idempotency key, however many handlers
\* serve requests with the key.
THEOREM MadeOnce == Spec => []TransferIsMadeOnce
<1>1. TransfersInv => TransferIsMadeOnce
  BY DEF TransfersInv
<1> QED
  BY <1>1, InvariantHolds, PTL

\* The recorded outcome of an agent transfer is what happened to the
\* conversation.
THEOREM AgentTransferTold == Spec => []AgentTransferIsToldTruly
<1>1. TransfersInv => AgentTransferIsToldTruly
  BY DEF TransfersInv
<1> QED
  BY <1>1, InvariantHolds, PTL

\* A session ends under its streaming socket only after the provider has
\* carried out a human transfer of the call.
THEOREM MediaClosed == Spec => []MediaClosesOnAcceptance
<1>1. TransfersInv => MediaClosesOnAcceptance
  BY DEF TransfersInv, CloseInv, Ending, HandedOver, MediaClosesOnAcceptance
<1> QED
  BY <1>1, InvariantHolds, PTL

\* A transfer lock that is held is held by a transfer being served on that very
\* session.
THEOREM TransferLockServed == Spec => []TransferLockIsServed
<1>1. TransfersInv => TransferLockIsServed
  BY DEF TransfersInv, LockInv
<1> QED
  BY <1>1, InvariantHolds, PTL

================================================================================
