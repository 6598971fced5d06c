----------------------------- MODULE Conversation ------------------------------
(***************************************************************************)
(* One live conversation: voice/conversation/response.py (the session),    *)
(* synthesis.py (the response observer), the reader of the speech-to-text  *)
(* stream (providers/cartesia_stt.py) and ActiveCallSession, which closes  *)
(* and transfers it (voice/sessions/service.py).                           *)
(*                                                                         *)
(* The tasks of one event loop share the session: they run alone between   *)
(* two awaits, so an action is what one task does from one await to the    *)
(* next.  The reader handles one transcript event at a time; the response  *)
(* task answers a turn; a transfer swaps the agent; the socket task reads  *)
(* the provider's messages; the closer ends the session.  Every append to  *)
(* the event ledger is an await and may fail.                              *)
(***************************************************************************)
EXTENDS TurnState, Naturals, Sequences, SequencesExt

CONSTANTS
    MaxRequests   \* bound: final transcripts and agent transfers, together

ASSUME ConversationAssumption == MaxRequests \in Nat

VARIABLES
    state,       \* _state
    generation,  \* _generation
    history,     \* _history: the generations whose exchange it holds
    agent,       \* the agent whose model, voice and prompt are installed
    mark,        \* _playback_mark: the generation it names, or 0
    failed,      \* _failure is not None
    lock,        \* who holds _turn_lock
    actor,       \* the reader and the transfer, both of which may interrupt
    task,        \* _response_task
    stray,       \* a response that _response_task forgot is still running
    socket,      \* the generation whose playback the socket task completes, or 0
    closer,      \* where ActiveCallSession.close stands
    connected,   \* the media socket is up
    audio,       \* provider: generations with audio still to play
    marks,       \* provider: marks it has not returned yet
    turns,       \* _turn_counter
    requests     \* final transcripts heard and transfers asked for

vars == <<state, generation, history, agent, mark, failed, lock, actor, task,
          stray, socket, closer, connected, audio, marks, turns, requests>>

session  == <<history, agent, stray, turns, requests>>
provider == <<connected, audio, marks>>

-----------------------------------------------------------------------------
(* Tasks *)

Actors == {"reader", "transfer"}

\* then: what follows an interruption; prev: its previous_state.
At(a, where)    == [actor EXCEPT ![a].at = where]
AtRest          == [at |-> "idle", then |-> "return", prev |-> "listening"]

NoTask == [at |-> "done", gen |-> 0, cancelled |-> FALSE,
           base |-> <<>>, agent |-> 0, voice |-> 0]

IsCurrent(g) == g = generation /\ state # "closed"

Running == task.at # "done"

Legal(target) == target \in AllowedTargets[state]

\* Mutant: a conversation is interrupted whatever it does.
InterruptibleUnlessClosed == state # "closed"

\* Mutant: only speech is interrupted, not the model.
InterruptibleSpeech == state = "speaking"

\* There is a turn to interrupt.
Interruptible == state \in ActiveStates

TaskCancelled == [task EXCEPT !.cancelled = Running]

Init ==
    /\ state = "listening"
    /\ generation = 0
    /\ history = <<>>
    /\ agent = 1
    /\ mark = 0
    /\ failed = FALSE
    /\ lock = "free"
    /\ actor = [a \in Actors |-> AtRest]
    /\ task = NoTask
    /\ stray = FALSE
    /\ socket = 0
    /\ closer = "open"
    /\ connected = TRUE
    /\ audio = {}
    /\ marks = {}
    /\ turns = 0
    /\ requests = 0

\* Mutant: a handler that raises keeps the lock.
Kept(a) == lock

\* A lock the actor holds is released.
Released(a) == IF lock = a THEN "free" ELSE lock

\* The exception leaves the handler: the reader ends with it, a transfer
\* reports it.
Raises(a) ==
    /\ actor' = At(a, IF a = "reader" THEN "dead" ELSE "idle")
    /\ lock' = Released(a)

-----------------------------------------------------------------------------
(* _interrupt_active_turn *)

\* From its start to the first append.
InterruptBegins(a, then) ==
    /\ generation' = generation + 1
    /\ mark' = 0
    /\ actor' = [actor EXCEPT ![a] = [at |-> "append", then |-> then, prev |-> state]]

\* Mutant: the state is asked for after it has moved.
IsSpeaking(a) == state' = "speaking"

\* Playback is cleared if the interruption found the agent speaking.
WasSpeaking(a) == actor[a].prev = "speaking"

\* The appends are through: the state moves and the response is cancelled.
InterruptMoves(a) ==
    /\ actor[a].at = "append"
    /\ Legal("interrupted")
    /\ state' = "interrupted"
    /\ task' = TaskCancelled
    /\ actor' = At(a, IF WasSpeaking(a) THEN "clear" ELSE "gather")
    /\ UNCHANGED <<generation, mark, failed, lock, socket, closer, session, provider>>

\* Another task has moved the state meanwhile: IllegalTurnTransition.
InterruptIllegal(a) ==
    /\ actor[a].at = "append"
    /\ ~Legal("interrupted")
    /\ Raises(a)
    /\ UNCHANGED <<state, generation, mark, failed, task, socket, closer, session, provider>>

\* observer.interrupt sends the clear message; a socket that is gone drops it
\* or raises.
InterruptClears(a) ==
    /\ actor[a].at = "clear"
    /\ audio' = {}
    /\ actor' = At(a, "gather")
    /\ UNCHANGED <<state, generation, mark, failed, lock, task, socket, closer,
                   connected, marks, session>>

ClearFails(a) ==
    /\ actor[a].at = "clear"
    /\ ~connected
    /\ Raises(a)
    /\ UNCHANGED <<state, generation, mark, failed, task, socket, closer, session, provider>>

AfterInterrupt == IF state = "interrupted" THEN "listening" ELSE state

\* A turn begins: on_transcript from the end of the interruption, if there was
\* one, to the release of the lock; the new task has not run yet.
BeginTurn(from) ==
    /\ "thinking" \in AllowedTargets[from]
    /\ state' = "thinking"
    /\ generation' = generation + 1
    /\ turns' = turns + 1
    /\ failed' = FALSE
    /\ task' = [NoTask EXCEPT !.at = "new", !.gen = generation + 1]
    /\ stray' = (stray \/ Running)
    /\ actor' = At("reader", "idle")
    /\ lock' = "free"
    /\ UNCHANGED <<history, agent, mark, socket, closer, requests, provider>>

\* reconfigure installs the new agent and returns.
Swap(from) ==
    /\ state' = from
    /\ agent' = agent + 1
    /\ actor' = At("transfer", "idle")
    /\ lock' = "free"
    /\ UNCHANGED <<generation, history, mark, failed, task, stray, socket, closer,
                   turns, requests, provider>>

\* Mutant: the cancelled response is not awaited.
GatheredAtOnce(a, then) == actor[a].at = "gather" /\ actor[a].then = then

\* The cancelled response has ended; whoever interrupted goes on.
Gathered(a, then) ==
    /\ actor[a].at = "gather"
    /\ actor[a].then = then
    /\ ~Running

InterruptReturns ==
    /\ Gathered("reader", "return")
    /\ state' = AfterInterrupt
    /\ actor' = At("reader", "idle")
    /\ UNCHANGED <<generation, mark, failed, lock, task, socket, closer, session, provider>>

InterruptThenTurn == Gathered("reader", "turn") /\ BeginTurn(AfterInterrupt)

InterruptThenSwap == Gathered("transfer", "swap") /\ Swap(AfterInterrupt)

-----------------------------------------------------------------------------
(* on_transcript, called by the reader for one event after another *)

Hears(event) ==
    /\ actor["reader"].at = "idle"
    /\ actor' = At("reader", event)
    /\ UNCHANGED <<state, generation, history, agent, mark, failed, lock, task, stray,
                   socket, closer, turns, provider>>

HearSpeech == Hears("speech") /\ UNCHANGED requests

HearFinal ==
    /\ requests < MaxRequests
    /\ requests' = requests + 1
    /\ Hears("final")

\* speech_started is appended; no lock is taken.
SpeechAppended ==
    /\ actor["reader"].at = "speech"
    /\ IF Interruptible
       THEN InterruptBegins("reader", "return")
       ELSE actor' = At("reader", "idle") /\ UNCHANGED <<generation, mark>>
    /\ UNCHANGED <<state, failed, lock, task, socket, closer, session, provider>>

\* transcript_final is appended; the handler asks for the turn lock.
FinalAppended ==
    /\ actor["reader"].at = "final"
    /\ actor' = At("reader", "locking")
    /\ UNCHANGED <<state, generation, mark, failed, lock, task, socket, closer,
                   session, provider>>

FinalIdle ==
    /\ actor["reader"].at = "locking"
    /\ lock = "free"
    /\ BeginTurn(state)

FinalInterrupts ==
    /\ actor["reader"].at = "locking"
    /\ lock = "free"
    /\ lock' = "reader"
    /\ Interruptible
    /\ InterruptBegins("reader", "turn")
    /\ UNCHANGED <<state, failed, task, socket, closer, session, provider>>

\* A broken interruption has left the state interrupted: IllegalTurnTransition,
\* after the turn has been counted and the failure forgotten.
FinalIllegal ==
    /\ actor["reader"].at = "locking"
    /\ lock = "free"
    /\ state = "interrupted"
    /\ generation' = generation + 1
    /\ turns' = turns + 1
    /\ failed' = FALSE
    /\ Raises("reader")
    /\ UNCHANGED <<state, history, agent, mark, task, stray, socket, closer, requests,
                   provider>>

\* The stream reports an error or ends, or an append of the handler fails.
ReaderFails ==
    /\ actor["reader"].at \in {"idle", "speech", "final", "append"}
    /\ Raises("reader")
    /\ UNCHANGED <<state, generation, mark, failed, task, socket, closer, session, provider>>

-----------------------------------------------------------------------------
(* reconfigure, called by ActiveCallSession.transfer_to *)

TransferBegins ==
    /\ actor["transfer"].at = "idle"
    /\ closer = "open"
    /\ requests < MaxRequests
    /\ requests' = requests + 1
    /\ actor' = At("transfer", "locking")
    /\ UNCHANGED <<state, generation, history, agent, mark, failed, lock, task,
                   stray, socket, closer, turns, provider>>

TransferIdle ==
    /\ actor["transfer"].at = "locking"
    /\ lock = "free"
    /\ ~Interruptible /\ state # "closed"
    /\ Swap(state)

TransferInterrupts ==
    /\ actor["transfer"].at = "locking"
    /\ lock = "free"
    /\ Interruptible
    /\ lock' = "transfer"
    /\ InterruptBegins("transfer", "swap")
    /\ UNCHANGED <<state, failed, task, socket, closer, session, provider>>

\* "cannot reconfigure a closed conversation"
TransferClosed ==
    /\ actor["transfer"].at = "locking"
    /\ lock = "free"
    /\ state = "closed"
    /\ Raises("transfer")
    /\ UNCHANGED <<state, generation, mark, failed, task, socket, closer, session, provider>>

\* An append of the interruption fails.
TransferFails ==
    /\ actor["transfer"].at = "append"
    /\ Raises("transfer")
    /\ UNCHANGED <<state, generation, mark, failed, task, socket, closer, session, provider>>

-----------------------------------------------------------------------------
(* _run_turn, the response task *)

TaskAt(where) == task.at = where /\ ~task.cancelled

\* Mutant: no callback captures the failure of the task.
EndsSilently(fails) ==
    /\ task' = [task EXCEPT !.at = "done"]
    /\ failed' = failed

\* The task is done; its callback captures a failure.
Ends(fails) ==
    /\ task' = [task EXCEPT !.at = "done"]
    /\ failed' = (failed \/ fails)

\* Mutant: the answer starts a history of its own.
BaseEmpty == <<>>

\* candidate_history is built on what the history is when the task first runs.
Base == history

TaskStarts ==
    /\ TaskAt("new")
    /\ task' = [task EXCEPT !.at = "announce", !.base = Base]
    /\ UNCHANGED <<state, generation, mark, failed, lock, actor, socket, closer,
                   session, provider>>

\* agent_turn_started is appended and the model is asked.
TaskAnnounces ==
    /\ TaskAt("announce")
    /\ task' = [task EXCEPT !.at = "model", !.agent = agent]
    /\ UNCHANGED <<state, generation, mark, failed, lock, actor, socket, closer,
                   session, provider>>

ModelAnswers ==
    /\ TaskAt("model")
    /\ task' = [task EXCEPT !.at = IF IsCurrent(task.gen) THEN "record" ELSE "done"]
    /\ UNCHANGED <<state, generation, mark, failed, lock, actor, socket, closer,
                   session, provider>>

\* The state a response leaves when it fails: if it is current, listening.
AfterFailure == IF IsCurrent(task.gen) THEN "listening" ELSE state

\* The model raises, or answers nothing.
ModelFails ==
    /\ TaskAt("model")
    /\ state' = AfterFailure
    /\ Ends(TRUE)
    /\ UNCHANGED <<generation, mark, lock, actor, socket, closer, session, provider>>

\* agent_response is appended; whether the turn is still current is not asked.
\* The move is always legal here: nobody else leaves thinking without
\* cancelling the task.
TaskRecords ==
    /\ TaskAt("record")
    /\ Legal("speaking")
    /\ state' = "speaking"
    /\ history' = Append(task.base, task.gen)
    /\ task' = [task EXCEPT !.at = "speak", !.voice = agent]
    /\ UNCHANGED <<generation, agent, mark, failed, lock, actor, stray, socket, closer,
                   turns, requests, provider>>

TaskAppendFails ==
    /\ TaskAt("announce") \/ TaskAt("record")
    /\ Ends(TRUE)
    /\ UNCHANGED <<state, generation, mark, lock, actor, socket, closer, session, provider>>

\* observed_audio_sink: a chunk of a superseded turn is dropped.
TaskSpeaks ==
    /\ TaskAt("speak")
    /\ IsCurrent(task.gen)
    /\ connected
    /\ audio' = audio \cup {task.gen}
    /\ UNCHANGED <<state, generation, mark, failed, lock, actor, task, socket, closer,
                   connected, marks, session>>

\* The synthesis is over; a current turn sends its mark.
TaskSpoken ==
    /\ TaskAt("speak")
    /\ IF IsCurrent(task.gen)
       THEN /\ marks' = IF connected THEN marks \cup {task.gen} ELSE marks
            /\ task' = [task EXCEPT !.at = "mark"]
       ELSE /\ task' = [task EXCEPT !.at = "done"]
            /\ UNCHANGED marks
    /\ UNCHANGED <<state, generation, mark, failed, lock, actor, socket, closer,
                   connected, audio, session>>

TaskMarks ==
    /\ TaskAt("mark")
    /\ mark' = IF IsCurrent(task.gen) THEN task.gen ELSE mark
    /\ Ends(FALSE)
    /\ UNCHANGED <<state, generation, lock, actor, socket, closer, session, provider>>

\* The synthesizer fails, or the media socket is gone.
SpeechFails ==
    /\ TaskAt("speak")
    /\ state' = AfterFailure
    /\ Ends(TRUE)
    /\ UNCHANGED <<generation, mark, lock, actor, socket, closer, session, provider>>

\* CancelledError at whatever the task awaits.
TaskEndsCancelled ==
    /\ Running
    /\ task.cancelled
    /\ task' = [task EXCEPT !.at = "done"]
    /\ UNCHANGED <<state, generation, mark, failed, lock, actor, socket, closer,
                   session, provider>>

\* A forgotten response ends: what it sends is dropped, its failure is not.
StrayEnds(fails) ==
    /\ stray
    /\ stray' = FALSE
    /\ failed' = (failed \/ fails)
    /\ UNCHANGED <<state, generation, history, agent, mark, lock, actor, task, socket,
                   closer, turns, requests, provider>>

-----------------------------------------------------------------------------
(* The socket task and the provider *)

\* The provider has played all audio of a turn.
ProviderPlays(g) ==
    /\ g \in audio
    /\ audio' = audio \ {g}
    /\ UNCHANGED <<state, generation, mark, failed, lock, actor, task, socket, closer,
                   connected, marks, session>>

\* A mark comes back once its audio is played or cleared: on_playback_complete.
MarkReturns(g) ==
    /\ socket = 0
    /\ closer = "open"
    /\ connected
    /\ g \in marks
    /\ g \notin audio
    /\ marks' = marks \ {g}
    /\ IF mark = g
       THEN mark' = 0 /\ socket' = g
       ELSE UNCHANGED <<mark, socket>>
    /\ UNCHANGED <<state, generation, failed, lock, actor, task, closer, connected,
                   audio, session>>

\* The latency marker is appended; the generation is not asked for again.
PlaybackCompletes ==
    /\ socket # 0
    /\ state' = IF state = "speaking" THEN "listening" ELSE state
    /\ socket' = 0
    /\ UNCHANGED <<generation, mark, failed, lock, actor, task, closer, session, provider>>

Disconnects ==
    /\ connected
    /\ connected' = FALSE
    /\ audio' = {}
    /\ marks' = {}
    /\ UNCHANGED <<state, generation, mark, failed, lock, actor, task, socket, closer,
                   session>>

-----------------------------------------------------------------------------
(* ActiveCallSession.close *)

CloseBegins ==
    /\ closer = "open"
    /\ closer' = "transcriber"
    /\ UNCHANGED <<state, generation, mark, failed, lock, actor, task, socket,
                   session, provider>>

\* Mutant: a frame does not ask for the failure of the reader.
NoticesResponse == failed \/ ~connected

\* receive_audio of the next frame finds the failure of the response or of the
\* reader, or the socket is disconnected.
Notices == failed \/ actor["reader"].at = "dead" \/ ~connected

\* The socket task closes the session.
SocketCloses ==
    /\ socket = 0
    /\ Notices
    /\ CloseBegins

\* The append of on_playback_complete fails: the socket task ends.
PlaybackFails ==
    /\ socket # 0
    /\ socket' = 0
    /\ closer' = IF closer = "open" THEN "transcriber" ELSE closer
    /\ UNCHANGED <<state, generation, mark, failed, lock, actor, task, session, provider>>

\* A stop message, the end of a transfer to a human, a shutdown.
CloseRequested == CloseBegins

\* transcriber.close cancels the reader and waits for it.
ReaderStops ==
    /\ closer = "transcriber"
    /\ closer' = "conversation"
    /\ Raises("reader")
    /\ UNCHANGED <<state, generation, mark, failed, task, socket, session, provider>>

\* ConversationSession.close, from its start to its first await.
ConversationCloses ==
    /\ closer = "conversation"
    /\ generation' = generation + 1
    /\ task' = TaskCancelled
    /\ closer' = IF state = "speaking" THEN "clear" ELSE "gather"
    /\ UNCHANGED <<state, mark, failed, lock, actor, socket, session, provider>>

CloseClears ==
    /\ closer = "clear"
    /\ audio' = {}
    /\ closer' = "gather"
    /\ UNCHANGED <<state, generation, mark, failed, lock, actor, task, socket,
                   connected, marks, session>>

\* The clear message meets a closed socket and the exception leaves close.
CloseFails ==
    /\ closer = "clear"
    /\ ~connected
    /\ closer' = "broken"
    /\ UNCHANGED <<state, generation, mark, failed, lock, actor, task, socket,
                   session, provider>>

CloseEnds ==
    /\ closer = "gather"
    /\ ~Running
    /\ mark' = 0
    /\ state' = "closed"
    /\ closer' = "closed"
    /\ UNCHANGED <<generation, failed, lock, actor, task, socket, session, provider>>

-----------------------------------------------------------------------------
Interrupt(a) ==
    \/ InterruptMoves(a)
    \/ InterruptIllegal(a)
    \/ InterruptClears(a)
    \/ ClearFails(a)

ReaderStep ==
    \/ Interrupt("reader")
    \/ InterruptReturns
    \/ InterruptThenTurn
    \/ SpeechAppended
    \/ FinalAppended
    \/ FinalIdle
    \/ FinalInterrupts
    \/ FinalIllegal

TransferStep ==
    \/ Interrupt("transfer")
    \/ InterruptThenSwap
    \/ TransferIdle
    \/ TransferInterrupts
    \/ TransferClosed

TaskStep ==
    \/ TaskStarts
    \/ TaskAnnounces
    \/ ModelAnswers
    \/ TaskRecords
    \/ TaskSpoken
    \/ TaskMarks
    \/ TaskEndsCancelled
    \/ StrayEnds(FALSE)

CloserStep ==
    \/ ReaderStops
    \/ ConversationCloses
    \/ CloseClears
    \/ CloseFails
    \/ CloseEnds

\* What the tasks do of their own accord.
Progress == ReaderStep \/ TransferStep \/ TaskStep \/ CloserStep
            \/ PlaybackCompletes \/ SocketCloses

\* What the caller, the provider, the models, the ledger and the operator do.
Environment ==
    \/ HearSpeech
    \/ HearFinal
    \/ ReaderFails
    \/ TransferBegins
    \/ TransferFails
    \/ ModelFails
    \/ TaskAppendFails
    \/ TaskSpeaks
    \/ SpeechFails
    \/ StrayEnds(TRUE)
    \/ \E g \in audio : ProviderPlays(g)
    \/ \E g \in marks : MarkReturns(g)
    \/ Disconnects
    \/ PlaybackFails
    \/ CloseRequested

Next == Progress \/ Environment

Spec == Init /\ [][Next]_vars

\* Each task of the event loop runs on when what it awaits is there; the model
\* and the synthesizer answer in the end, the caller's audio keeps coming.
Fairness ==
    /\ WF_vars(ReaderStep)
    /\ WF_vars(TransferStep)
    /\ WF_vars(TaskStep)
    /\ WF_vars(CloserStep)
    /\ WF_vars(PlaybackCompletes)
    /\ WF_vars(SocketCloses)

FairSpec == Spec /\ Fairness

-----------------------------------------------------------------------------
(* Properties *)

Generations == 0 .. 3 * (MaxRequests + 2)

Installed == 0 .. MaxRequests + 1

ActorRecords ==
    [at   : {"idle", "speech", "final", "locking", "append", "clear", "gather", "dead"},
     then : {"return", "turn", "swap"},
     prev : ActiveStates \cup {"listening"}]

ResponseRecords ==
    [at : {"new", "announce", "model", "record", "speak", "mark", "done"},
     gen : Generations, cancelled : BOOLEAN, base : Seq(Generations),
     agent : Installed, voice : Installed]

\* The variables hold states and positions of the declared kinds, and an
\* interruption starts from an active state.
TypeOK ==
    /\ state \in TurnStates
    /\ generation \in Generations
    /\ history \in Seq(Generations)
    /\ agent \in Installed
    /\ mark \in Generations
    /\ failed \in BOOLEAN
    /\ lock \in Actors \cup {"free"}
    /\ actor \in [Actors -> ActorRecords]
    /\ task \in ResponseRecords
    /\ stray \in BOOLEAN
    /\ socket \in Generations
    /\ closer \in {"open", "transcriber", "conversation", "clear", "gather",
                   "closed", "broken"}
    /\ connected \in BOOLEAN
    /\ audio \in SUBSET Generations
    /\ marks \in SUBSET Generations
    /\ turns \in 0 .. MaxRequests
    /\ requests \in 0 .. MaxRequests

\* A turn starts only when the response to the turn before has ended or has at
\* least written its exchange: two responses never work on one history.
OneWriterOfHistory ==
    [][task'.gen # task.gen => task.at \in {"done", "speak", "mark"}]_vars

\* No exchange is ever lost from the history: a response that overlaps with an
\* interruption, a transfer or a failure only adds to what it found.
HistoryOnlyGrows == [][IsPrefix(history, history')]_vars

\* A turn is spoken by the agent whose model answered it, though the transfer
\* replaces model and voice in the middle of a conversation.
TurnHasOneAgent == task.voice # 0 => task.voice = task.agent

\* When the handler of the caller's speech returns, nothing of the turn it
\* interrupted is left to play, even if the turn began to speak only while the
\* interruption was on its way.
BargeInSilencesTurn ==
    [][actor["reader"].at = "gather" /\ actor'["reader"].at = "idle"
          => task.gen \notin audio']_vars

\* The provider's stream may fail at any time, and then the caller cannot be
\* heard any more: the call does not go on deaf, it is closed (close may itself
\* fail on a socket that is gone).
DeafCallEnds == actor["reader"].at = "dead" ~> closer \in {"closed", "broken"}

\* Nobody thinks for ever: a turn is answered, interrupted or ends the call.
\* The exception is a turn that an aborted interruption has superseded.
TurnEnds ==
    state = "thinking" ~> (state # "thinking" \/ task.gen # generation)

\* Whoever takes the turn lock gives it back, also by an exception, a
\* cancellation or the end of the call.
TurnLockIsFreed == lock # "free" ~> lock = "free"

\* Refuted: "assert TurnState.INTERRUPTED in conversation.state_history"
\* (tests/unit/voice/test_conversation.py) for speech during playback.  If the
\* playback completes while the interruption appends its events, the
\* transition is illegal and the exception ends the reader.
SpeechDuringPlaybackInterrupts ==
    [][actor["reader"].prev = "speaking" => ~InterruptIllegal("reader")]_vars

================================================================================
