------------------------------- MODULE Speech ------------------------------
(***************************************************************************)
(* runtimes/tts.py: the text-to-speech runtime a deployment launches.  It  *)
(* puts a starter library of voices in a directory that outlives it and    *)
(* that every such runtime of the machine shares, loads a checkpoint, and  *)
(* speaks one request at a time.                                           *)
(***************************************************************************)
EXTENDS Integers, Sequences, FiniteSets

CONSTANTS
    Servers,       \* runtimes of one machine
    Offers,        \* Offers[o]: rows of the dataset at offset o, <<speaker, row>>
    Speakers,      \* names of voices: the dataset's and the operator's
    OwnVoices,     \* those of the operator
    SpeechCalls,   \* requests, each to one server
    CalledAt,      \* CalledAt[c]: that server
    MaxNumSeqs     \* --max-num-seqs

ASSUME SpeechAssumption ==
    MaxNumSeqs \in Int /\ CalledAt \in [SpeechCalls -> Servers] /\ IsFiniteSet(SpeechCalls)

VARIABLES
    clips,         \* clips[s]: what <s>.wav holds, or "none"
    texts,         \* texts[s]: what <s>.txt is the transcript of, or "none"
    unreadable,    \* rows whose clip does not open as audio, or is too long
    server,        \* server[v]: how far it is
    library,       \* library[v]: its voices, <<clip, text>> as read at start
    flight,        \* flight[v]: Admission._in_flight
    call           \* call[c]: where the request is

speechVars == <<clips, texts, unreadable, server, library, flight, call>>

Rows == {"own"} \cup UNION {{Offers[o][i][2] : i \in DOMAIN Offers[o]} : o \in DOMAIN Offers}
ASSUME OffersAssumption ==
    OwnVoices \subseteq Speakers /\ Offers \in Seq(Seq((Speakers \ OwnVoices) \X Rows)) /\ Rows \cap {"none", "part"} = {}
Stages == {"down", "install", "clip", "text", "load", "up"}
Down == [at |-> "down", offset |-> 1, taken |-> {}, pick |-> <<"none", "none">>]
Idle == [at |-> "idle", voice |-> "none"]
Limit == IF MaxNumSeqs >= 1 THEN MaxNumSeqs ELSE 1

SpeechTypeOK ==
    /\ clips \in [Speakers -> Rows \cup {"none"}] /\ texts \in [Speakers -> Rows \cup {"none", "part"}]
    /\ unreadable \subseteq Rows
    /\ \A v \in Servers : /\ server[v].at \in Stages /\ server[v].taken \subseteq Speakers
                          /\ server[v].offset \in 1 .. Len(Offers) + 1
    /\ \A v \in Servers : DOMAIN library[v] \subseteq Speakers
    /\ flight \in [Servers -> 0 .. Limit]
    /\ call \in [SpeechCalls -> [at: {"idle", "waiting", "speaking", "encoding"},
                                 voice: Speakers \cup {"none"}]]

----------------------------------------------------------------------------
(* load_voices(): the pairs that are complete, not empty and readable.     *)
Loadable == {s \in Speakers : /\ clips[s] # "none" /\ texts[s] # "none"
                              /\ clips[s] \notin unreadable}

(* main(): config_from_args() refuses to shard; ensure_default_voices()    *)
(* leaves a directory alone that has one usable voice.                     *)
StartServer(v, defaults) ==
    /\ server[v].at = "down"
    /\ server' = [server EXCEPT ![v] =
            [Down EXCEPT !.at = IF defaults /\ Loadable = {} THEN "install" ELSE "load"]]
    /\ UNCHANGED <<clips, texts, unreadable, library, flight, call>>

(* The dataset's answer at one offset.  _pick_row(): the first row of a    *)
(* speaker that has not been taken.  Whatever goes wrong is a note.        *)
PickRow(v) ==
    LET rows == Offers[server[v].offset]
        free == {i \in DOMAIN rows : rows[i][1] \notin server[v].taken}
    IN IF free = {} THEN <<"none", "none">> ELSE rows[CHOOSE i \in free : \A j \in free : i <= j]

NextOffset(v) == [server[v] EXCEPT !.at = "install", !.offset = @ + 1]

FetchRow(v, answered) ==
    /\ server[v].at = "install" /\ server[v].offset <= Len(Offers)
    /\ server' = [server EXCEPT ![v] =
            IF answered /\ PickRow(v) # <<"none", "none">>
            THEN [server[v] EXCEPT !.at = "clip", !.pick = PickRow(v)] ELSE NextOffset(v)]
    /\ UNCHANGED <<clips, texts, unreadable, library, flight, call>>

(* The clip is replaced in one step, from a file of its own; then the      *)
(* transcript is written in place.                                         *)
WriteClip(v, written) ==
    /\ server[v].at = "clip"
    /\ clips' = IF written THEN [clips EXCEPT ![server[v].pick[1]] = server[v].pick[2]] ELSE clips
    /\ server' = [server EXCEPT ![v] = IF written THEN [server[v] EXCEPT !.at = "text"] ELSE NextOffset(v)]
    /\ UNCHANGED <<texts, unreadable, library, flight, call>>

MutTaken(v) == server[v].taken

(* A voice that is installed counts its speaker as taken.                  *)
Taken(v) == server[v].taken \cup {server[v].pick[1]}

WriteText(v, written) ==
    /\ server[v].at = "text"
    /\ texts' = IF written THEN [texts EXCEPT ![server[v].pick[1]] = server[v].pick[2]] ELSE texts
    /\ server' = [server EXCEPT ![v] =
            IF written THEN [NextOffset(v) EXCEPT !.taken = Taken(v)] ELSE NextOffset(v)]
    /\ UNCHANGED <<clips, unreadable, library, flight, call>>

Installed(v) ==
    /\ server[v].at = "install" /\ server[v].offset > Len(Offers)
    /\ server' = [server EXCEPT ![v] = [Down EXCEPT !.at = "load"]]
    /\ UNCHANGED <<clips, texts, unreadable, library, flight, call>>

(* SpeechEngine(): the library is a snapshot; load() then takes the        *)
(* checkpoint and the codec, or the process ends.                          *)
LoadEngine(v) ==
    /\ server[v].at = "load"
    /\ server' = [server EXCEPT ![v].at = "up"]
    /\ library' = [library EXCEPT ![v] = [s \in Loadable |-> <<clips[s], texts[s]>>]]
    /\ flight' = [flight EXCEPT ![v] = 0]
    /\ UNCHANGED <<clips, texts, unreadable, call>>

(* The process ends, by a fault of the checkpoint, a stop or a crash.      *)
Exit(v) ==
    /\ server[v].at # "down"
    /\ server' = [server EXCEPT ![v] = Down]
    /\ library' = [library EXCEPT ![v] = << >>]
    /\ flight' = [flight EXCEPT ![v] = 0]
    /\ call' = [c \in SpeechCalls |-> IF CalledAt[c] = v THEN Idle ELSE call[c]]
    /\ UNCHANGED <<clips, texts, unreadable>>

(* In the middle of writing a transcript, it leaves what it has written.   *)
ExitWriting(v) ==
    /\ server[v].at = "text"
    /\ texts' = [texts EXCEPT ![server[v].pick[1]] = "part"]
    /\ server' = [server EXCEPT ![v] = Down]
    /\ library' = [library EXCEPT ![v] = << >>]
    /\ UNCHANGED <<clips, unreadable, flight, call>>

(* The operator puts a voice of his own beside them, or takes one away.    *)
PutVoice(s) ==
    /\ s \in OwnVoices /\ clips[s] = "none"
    /\ clips' = [clips EXCEPT ![s] = "own"] /\ texts' = [texts EXCEPT ![s] = "own"]
    /\ UNCHANGED <<unreadable, server, library, flight, call>>
DropVoice(s) ==
    /\ s \in OwnVoices /\ clips[s] # "none"
    /\ clips' = [clips EXCEPT ![s] = "none"] /\ texts' = [texts EXCEPT ![s] = "none"]
    /\ UNCHANGED <<unreadable, server, library, flight, call>>

----------------------------------------------------------------------------
(* POST /v1/audio/speech: parse_speech_request() and the voice, 400; then  *)
(* try_enter(), 503.  Nothing has been counted when either refuses.        *)
Speak(c, voice) ==
    /\ call[c].at = "idle" /\ server[CalledAt[c]].at = "up"
    /\ voice = "none" \/ voice \in DOMAIN library[CalledAt[c]]
    /\ flight[CalledAt[c]] < Limit
    /\ flight' = [flight EXCEPT ![CalledAt[c]] = @ + 1]
    /\ call' = [call EXCEPT ![c] = [at |-> "waiting", voice |-> voice]]
    /\ UNCHANGED <<clips, texts, unreadable, server, library>>

(* synthesize(), in a thread, holds the lock of the GPU.                   *)
TakeGpu(c) ==
    /\ call[c].at = "waiting"
    /\ \A d \in SpeechCalls : CalledAt[d] = CalledAt[c] => call[d].at # "speaking"
    /\ call' = [call EXCEPT ![c].at = "speaking"]
    /\ UNCHANGED <<clips, texts, unreadable, server, library, flight>>

Generated(c) ==
    /\ call[c].at = "speaking"
    /\ call[c].voice # "none" => clips[call[c].voice] # "none"
    /\ call' = [call EXCEPT ![c].at = "encoding"]
    /\ UNCHANGED <<clips, texts, unreadable, server, library, flight>>

MutLeft(c) == IF call[c].at = "encoding" THEN flight[CalledAt[c]] - 1 ELSE flight[CalledAt[c]]

MutLeftTwice(c) == flight[CalledAt[c]] - 2

(* leave(), in the finally of the handler.                                 *)
Left(c) == IF flight[CalledAt[c]] > 0 THEN flight[CalledAt[c]] - 1 ELSE 0

(* The end: encode_audio() is done, 200; or a clip that is gone, a format  *)
(* that cannot be written or the hardware failed it, 400 or 500.           *)
SpeechAnswered(c) ==
    /\ call[c].at \in {"speaking", "encoding"}
    /\ flight' = [flight EXCEPT ![CalledAt[c]] = Left(c)]
    /\ call' = [call EXCEPT ![c] = Idle]
    /\ UNCHANGED <<clips, texts, unreadable, server, library>>

----------------------------------------------------------------------------
SpeechInit ==
    /\ clips \in [Speakers -> {"none"}] /\ texts = [s \in Speakers |-> "none"]
    /\ unreadable \in SUBSET (Rows \ {"own"})
    /\ server = [v \in Servers |-> Down]
    /\ library = [v \in Servers |-> << >>]
    /\ flight = [v \in Servers |-> 0]
    /\ call = [c \in SpeechCalls |-> Idle]

SpeechNext ==
    \/ \E v \in Servers : \/ \E ok \in BOOLEAN : StartServer(v, ok) \/ FetchRow(v, ok)
                                                    \/ WriteClip(v, ok) \/ WriteText(v, ok)
                          \/ Installed(v) \/ LoadEngine(v) \/ Exit(v) \/ ExitWriting(v)
    \/ \E s \in Speakers : PutVoice(s) \/ DropVoice(s)
    \/ \E c \in SpeechCalls : \/ \E voice \in Speakers \cup {"none"} : Speak(c, voice)
                              \/ TakeGpu(c) \/ Generated(c) \/ SpeechAnswered(c)

SpeechSpec == SpeechInit /\ [][SpeechNext]_speechVars

----------------------------------------------------------------------------
(* Properties.                                                             *)

(* in_flight is the requests that are past the gate, however each of them  *)
(* ends, and no generation runs beside another.                            *)
AdmissionExact ==
    \A v \in Servers :
        LET at(s) == {c \in SpeechCalls : CalledAt[c] = v /\ call[c].at = s} IN
        /\ flight[v] = Cardinality(at("waiting") \cup at("speaking") \cup at("encoding"))
        /\ Cardinality(at("speaking")) <= 1

(* ensure_default_voices(): "An existing library is never touched": the    *)
(* installer overwrites no pair that could be loaded and is a pair.        *)
UsableKept ==
    [][\A s \in Loadable : texts[s] = clips[s] /\ clips'[s] # clips[s] => clips'[s] = "none"]_speechVars

(* "a transcript which does not match the audio degrades the clone": what  *)
(* a server has in its library is a clip and the transcript of that clip.  *)
TranscriptsMatch == \A v \in Servers : \A s \in DOMAIN library[v] : library[v][s][1] = library[v][s][2]

(* What a speech server promises: in_flight is exact however each request  *)
(* ends, generations do not overlap, and the installer overwrites no voice *)
(* that could be loaded.                                                   *)
SpeechPromise ==
    [](SpeechTypeOK /\ AdmissionExact)
    /\ UsableKept
=============================================================================
