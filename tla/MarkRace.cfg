\* The playback mark comes back while the caller starts to speak.
SPECIFICATION Spec
CONSTANTS
    MaxRequests = 1
PROPERTIES
    SpeechDuringPlaybackInterrupts
CHECK_DEADLOCK FALSE
