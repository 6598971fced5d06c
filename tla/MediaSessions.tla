----------------------------- MODULE MediaSessions -----------------------------
(***************************************************************************)
(* The media sessions of live calls: the socket task of each media stream  *)
(* (api/routes/twilio_media.py), ActiveCallRegistry and MediaSessionService*)
(* (voice/sessions/service.py).  Conversation models the inside of one     *)
(* session; here a session is live, closing or closed and has been spoken  *)
(* by a sequence of agents.                                                *)
(*                                                                         *)
(* A socket is identified with its stream and with the session it starts.  *)
(* A start is four steps with an await between them: it reads the call,    *)
(* opens the transcriber, registers, and appends to the ledger.  The lock  *)
(* of the registry is never held over an await, so its operations are      *)
(* atomic.                                                                 *)
(***************************************************************************)
EXTENDS Naturals, Sequences, Functions

CONSTANTS
    Calls,        \* call ids
    Sockets,      \* media streams that may be opened
    Agents,       \* selectable agents
    NoAgent,      \* active_agent_id is None: the default voice
    NoSocket,     \* no stream is registered for the call
    Free,         \* nobody holds a _transfer_lock
    MaxRestarts   \* bound: restarts of the server

ASSUME SessionAssumption ==
    /\ NoAgent \notin Agents
    /\ NoSocket \notin Sockets
    /\ MaxRestarts \in Nat

VARIABLES
    agentOf,      \* active_agent_id of each call's row
    ended,        \* calls whose status is terminal
    socket,       \* where each socket task stands
    session,      \* the ActiveCallSession each socket has started
    byStream,     \* _by_stream: the registered streams
    streamOf,     \* _stream_by_call
    restarts

mediaVars == <<agentOf, ended, socket, session, byStream, streamOf, restarts>>

-----------------------------------------------------------------------------
(* Sessions *)

NoSession == [stage |-> "none", transcriber |-> "none", spoken |-> <<>>, lock |-> Free]

\* The agents a new session has been spoken by: visited_agent_ids.
Spoken(a) == IF a = NoAgent THEN <<>> ELSE <<a>>

\* Mutant: the stream is forgotten in one index only.
DeregisteredByStream(s) ==
    /\ byStream' = byStream \ {s}
    /\ session' = [session EXCEPT ![s].stage = "closing"]
    /\ UNCHANGED streamOf

\* ActiveCallRegistry.close, to the first await of ActiveCallSession.close.
Deregistered(s) ==
    /\ byStream' = byStream \ {s}
    /\ streamOf' = [streamOf EXCEPT ![socket[s].call] = NoSocket]
    /\ session' = [session EXCEPT ![s].stage = "closing"]

MediaInit ==
    /\ agentOf \in [Calls -> Agents \cup {NoAgent}]
    /\ ended = {}
    /\ socket = [s \in Sockets |-> [at |-> "connected", call |-> NoSocket]]
    /\ session = [s \in Sockets |-> NoSession]
    /\ byStream = {}
    /\ streamOf = [c \in Calls |-> NoSocket]
    /\ restarts = 0

-----------------------------------------------------------------------------
(* MediaSessionService.start *)

\* The start message names a call that is bound and has not ended; the agent
\* is the one of that moment.
StartLooks(s, c) ==
    /\ socket[s].at = "connected"
    /\ c \notin ended
    /\ socket' = [socket EXCEPT ![s] = [at |-> "looked", call |-> c]]
    /\ session' = [session EXCEPT ![s].spoken = Spoken(agentOf[c])]
    /\ UNCHANGED <<agentOf, ended, byStream, streamOf, restarts>>

StartOpens(s) ==
    /\ socket[s].at = "looked"
    /\ socket' = [socket EXCEPT ![s].at = "opened"]
    /\ session' = [session EXCEPT ![s].transcriber = "open"]
    /\ UNCHANGED <<agentOf, ended, byStream, streamOf, restarts>>

\* Mutant: a call may have several streams.
UnregisteredStream(s) == s \notin byStream

\* register does not raise.
Registrable(s) == s \notin byStream /\ streamOf[socket[s].call] = NoSocket

StartRegisters(s) ==
    /\ socket[s].at = "opened"
    /\ Registrable(s)
    /\ socket' = [socket EXCEPT ![s].at = "registered"]
    /\ session' = [session EXCEPT ![s].stage = "live"]
    /\ byStream' = byStream \cup {s}
    /\ streamOf' = [streamOf EXCEPT ![socket[s].call] = s]
    /\ UNCHANGED <<agentOf, ended, restarts>>

\* Mutant: the transcriber of a refused session is forgotten.
KeptOpen(s) == session[s]

\* The transcriber of a refused session is closed.
Discarded(s) == [NoSession EXCEPT !.transcriber = "closed"]

StartIsDuplicate(s) ==
    /\ socket[s].at = "opened"
    /\ ~Registrable(s)
    /\ socket' = [socket EXCEPT ![s].at = "gone"]
    /\ session' = [session EXCEPT ![s] = Discarded(s)]
    /\ UNCHANGED <<agentOf, ended, byStream, streamOf, restarts>>

StartAnnounces(s) ==
    /\ socket[s].at = "registered"
    /\ socket' = [socket EXCEPT ![s].at = "streaming"]
    /\ UNCHANGED <<agentOf, ended, session, byStream, streamOf, restarts>>

\* A start that is refused or whose transcriber or append fails.  A session
\* that is registered by then stays registered: the socket task does not know
\* its stream yet.
StartFails(s) ==
    /\ socket[s].at \in {"connected", "looked", "registered"}
    /\ socket' = [socket EXCEPT ![s].at = "gone"]
    /\ UNCHANGED <<agentOf, ended, session, byStream, streamOf, restarts>>

-----------------------------------------------------------------------------
(* The end of a session *)

\* stop and disconnect, also after an error of the socket task.
SocketCloses(s) ==
    /\ socket[s].at = "streaming"
    /\ IF s \in byStream
       THEN Deregistered(s)
       ELSE UNCHANGED <<session, byStream, streamOf>>
    /\ socket' = [socket EXCEPT ![s].at = "gone"]
    /\ UNCHANGED <<agentOf, ended, restarts>>

\* The rest of ActiveCallSession.close: the transcriber and the conversation.
SessionCloses(s) ==
    /\ session[s].stage = "closing"
    /\ session' = [session EXCEPT ![s].stage = "closed", ![s].transcriber = "closed"]
    /\ UNCHANGED <<agentOf, ended, socket, byStream, streamOf, restarts>>

\* A status callback ends the call; its stream goes on until the socket ends.
CallEnds(c) ==
    /\ c \notin ended
    /\ ended' = ended \cup {c}
    /\ UNCHANGED <<agentOf, socket, session, byStream, streamOf, restarts>>

\* The server restarts, in order (close_all) or not: what is in memory is gone.
MemoryLost ==
    /\ restarts < MaxRestarts
    /\ restarts' = restarts + 1
    /\ socket' = [s \in Sockets |->
                     IF socket[s].at = "connected" THEN socket[s]
                     ELSE [socket[s] EXCEPT !.at = "gone"]]
    /\ session' = [s \in Sockets |->
                      IF session[s].stage = "none" /\ session[s].transcriber = "none"
                      THEN session[s]
                      ELSE [session[s] EXCEPT !.stage = "closed",
                                              !.transcriber = "closed",
                                              !.lock = Free]]
    /\ byStream' = {}
    /\ streamOf' = [c \in Calls |-> NoSocket]
    /\ UNCHANGED <<agentOf, ended>>

MediaStep ==
    \/ \E s \in Sockets :
          \/ \E c \in Calls : StartLooks(s, c)
          \/ StartOpens(s)
          \/ StartRegisters(s)
          \/ StartIsDuplicate(s)
          \/ StartAnnounces(s)
          \/ StartFails(s)
          \/ SocketCloses(s)
          \/ SessionCloses(s)
    \/ \E c \in Calls : CallEnds(c)

-----------------------------------------------------------------------------
(* Properties *)

SocketRecords ==
    [at   : {"connected", "looked", "opened", "registered", "streaming", "gone"},
     call : Calls \cup {NoSocket}]

SessionRecords(holders) ==
    [stage       : {"none", "live", "closing", "closed"},
     transcriber : {"none", "open", "closed"},
     spoken      : Seq(Agents),
     lock        : holders \cup {Free}]

MediaTypeOK(holders) ==
    /\ agentOf \in [Calls -> Agents \cup {NoAgent}]
    /\ ended \in SUBSET Calls
    /\ socket \in [Sockets -> SocketRecords]
    /\ session \in [Sockets -> SessionRecords(holders)]
    /\ byStream \in SUBSET Sockets
    /\ streamOf \in [Calls -> byStream \cup {NoSocket}]
    /\ restarts \in 0 .. MaxRestarts

\* Two starts for one call race over the awaits of start: at most one of them
\* becomes a live session, so two assistants never talk on one call (a session
\* that is still closing has been taken out of the index and is not counted).
OneSessionPerCall ==
    \A s, t \in Sockets :
        session[s].stage = "live" /\ session[t].stage = "live"
           /\ socket[s].call = socket[t].call => s = t

\* No transcriber stays open without a session that will close it: "duplicate
\* registration closes unused stt session" (tests/integration/voice).  A session
\* that an error after the registration leaves behind is in the registry still.
TranscriberIsOwned ==
    \A s \in Sockets : session[s].transcriber = "open" =>
        socket[s].at = "opened" \/ s \in byStream \/ session[s].stage = "closing"

\* No agent is installed twice in a session: "agent transfer loop detected"
\* also when two transfers to the same agent meet.
NoAgentSpeaksTwice == \A s \in Sockets : IsInjective(session[s].spoken)

================================================================================
