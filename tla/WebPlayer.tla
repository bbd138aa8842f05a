------------------------------ MODULE WebPlayer ------------------------------
(***************************************************************************)
(* The web build: one JavaScript thread in which the player               *)
(* (emscripten/htdocs/stdlib/scriptprocessor_player.min.js with            *)
(* emscripten/uade_adapter.js) calls the emulator through                  *)
(* emscripten/adapter.c.  A file the emulator opens may not be there yet:  *)
(* the call is given up, the file is requested, and when it arrives the    *)
(* player starts its song again from scratch.                              *)
(*                                                                         *)
(* A call into the emulator is a sequence of m68k_run_1() steps during     *)
(* which nothing else runs.  What a song's 68000 program asks of the       *)
(* emulator is its script, the same on every retry.  A step is at most one *)
(* request of the script and one frame of sound.                           *)
(***************************************************************************)
EXTENDS Integers, Sequences

CONSTANTS
    Files,         \* what the emulator opens besides the module
    Songs,
    BootFile,      \* uaerc, opened by uade_boot()
    Setup,         \* Setup[s]: what uade_reset() opens for s, in this order
    Optional,      \* of that, what uade_reset() can do without (uade.conf)
    Mandatory,     \* those whose absence is taken for "load still pending"
    Unavailable,   \* the files that may fail: no connection, or an error 404
    Script,        \* Script[s]: what the 68000 asks for after a reset
    Ranges,        \* Ranges[s]: the subsongs s reports
    Tracks,        \* what the page may ask for; -1 is the default subsong
    BufferFrames,  \* frames of one sample buffer
    SkipLimit,     \* frames dropped before output starts anyway
    Resampler,     \* uade.conf chooses a resampler
    None

\* One request of a script.
Work == [op |-> "work"]
Open(f) == [op |-> "open", file |-> f]   \* AMIGAMSG_LOADFILE, _READ
Info == [op |-> "info"]                  \* AMIGAMSG_SUBSINFO
Output == [op |-> "output"]              \* AMIGAMSG_START_OUTPUT
End == [op |-> "end"]                    \* AMIGAMSG_SONG_END
Requests == {Work, Info, Output, End} \cup {Open(f) : f \in Files}

ASSUME WebAssumption ==
    /\ Mandatory \subseteq Files /\ Unavailable \subseteq Files
    /\ BootFile \in Mandatory /\ Optional \subseteq Files \ Mandatory
    /\ Setup \in [Songs -> Seq(Files)] /\ Script \in [Songs -> Seq(Requests)]
    /\ \A s \in Songs : Ranges[s] \subseteq Nat /\ \E min, max \in Ranges[s] : Ranges[s] = min..max
    /\ Tracks \subseteq Nat \cup {-1}
    /\ BufferFrames \in Nat \ {0, 1} /\ SkipLimit \in Nat \ {0}
    /\ Resampler \in BOOLEAN /\ None \notin Songs \cup Files

VARIABLES
    emu,        \* the emulator's globals, see Emulator
    cache,      \* the file cache: "absent", "pending", "ready", "missing"
    waiting,    \* isWaitingForFile()
    songReady,  \* _isSongReady
    paused,     \* _isPaused
    last,       \* lastUsedFilename
    track,      \* options.track of that song
    call,       \* the call in progress: "none", "init", "compute", "deliver"
    status,     \* what the last call returned to the player
    asked       \* history: that call asked for a file that is not there yet

flags == <<waiting, songReady, paused>>
vars == <<emu, cache, flags, last, track, call, status, asked>>

Emulator == [
    quit : BOOLEAN,            \* quit_program
    reboot : BOOLEAN,          \* uade_reboot
    notReady : BOOLEAN,        \* last_file_not_ready
    meta : Songs \cup {None},  \* whose subsong range is known; None: 0..0
    output : BOOLEAN,          \* uade_audio_output
    skip : 0..SkipLimit,       \* uade_audio_skip, in frames
    filled : 0..BufferFrames-1,\* sndbufpt - sndbuffer, in frames
    isNew : BOOLEAN,           \* sample_data.is_new
    fresh : BOOLEAN,           \* history: those samples follow the last reset
    resampling : BOOLEAN,      \* the configured resampler is in force
    loaded : Songs \cup {None},\* the song in Amiga memory
    at : Nat,                  \* where its script is
    subsong : Nat \cup {-1},   \* SCORE_SUBSONG, -1: SCORE_SET_SUBSONG is 0
    cause : {"none", "file", "end", "silence"}]  \* history: why quit was set

Init ==
    /\ emu = [quit |-> FALSE, reboot |-> FALSE, notReady |-> FALSE, meta |-> None,
              output |-> FALSE, skip |-> 0, filled |-> 0, isNew |-> FALSE,
              fresh |-> FALSE, resampling |-> FALSE, loaded |-> None, at |-> 1,
              subsong |-> -1, cause |-> "none"]
    /\ cache = [f \in Files |-> "absent"]
    /\ waiting = FALSE /\ songReady = FALSE /\ paused = FALSE
    /\ last = None /\ track = -1 /\ call = "none" /\ status = 0 /\ asked = FALSE

-----------------------------------------------------------------------------
(* Files: uade_fopen() asks fileRequestCallback(), which is preloadFile(). *)
Answer(files, f) == CASE files[f] = "ready" -> 0
                      [] files[f] = "missing" -> 1
                      [] OTHER -> -1

Requested(files, f) ==
    IF files[f] = "absent" THEN [files EXCEPT ![f] = "pending"] ELSE files

-----------------------------------------------------------------------------
(* uade_boot() and uade_reset().                                           *)

\* What is opened for s before its program can run, in order.
Needed(s) == <<BootFile>> \o Setup[s]

\* The first of them that is not there ends the call.
Absent(files, s) == {i \in DOMAIN Needed(s) :
    LET f == Needed(s)[i]
    IN  Answer(files, f) < 0 \/ (Answer(files, f) > 0 /\ f \notin Optional)}
FirstAbsent(files, s) ==
    CHOOSE i \in Absent(files, s) : \A j \in Absent(files, s) : i <= j

\* -1: wait for a file, 1: give up, 0: the song is ready to run.
ResetResult(files, s) ==
    IF Absent(files, s) = {} THEN 0
    ELSE LET f == Needed(s)[FirstAbsent(files, s)]
         IN  IF Answer(files, f) < 0 \/ f \in Mandatory THEN -1 ELSE 1

\* The options of uade.conf, of which the resampler is followed here.
ems_song_initialization(m) == [m EXCEPT !.resampling = @ \/ Resampler]

\* customreset() calls audio_reset(): the default resampler.
customreset(m) == [m EXCEPT !.resampling = FALSE]

\* Variant: the subsong range of the song before stays.
BootKeepsMeta(m) == [m EXCEPT !.reboot = TRUE, !.quit = FALSE, !.cause = "none"]

\* uade_boot(): the sample buffer and last_file_not_ready stay as they were.
Boot(m) == [m EXCEPT !.meta = None, !.reboot = TRUE, !.quit = FALSE,
                     !.cause = "none"]

\* uade_reset() up to the dry run.  Without its files only memory is cleared.
Reset(m, files, s) ==
    IF ResetResult(files, s) = 0
    THEN LET n == [m EXCEPT !.loaded = s, !.at = 1, !.subsong = -1, !.filled = 0,
                            !.output = FALSE, !.skip = 0, !.fresh = FALSE]
         IN  [customreset(ems_song_initialization(n)) EXCEPT !.reboot = FALSE]
    ELSE IF Answer(files, BootFile) # 0 THEN m
    ELSE [m EXCEPT !.loaded = None, !.subsong = -1, !.fresh = FALSE]

-----------------------------------------------------------------------------
(* m68k_run_1(): a request of the program, then perhaps a frame of sound.  *)
Request(m) == IF m.at <= Len(Script[m.loaded]) THEN Script[m.loaded][m.at] ELSE Work

\* uade_get_amiga_message(), uade_open_amiga_file(), uade_song_end().
Serve(m, files) ==
    LET e == Request(m)
        n == [m EXCEPT !.at = IF @ <= Len(Script[m.loaded]) THEN @ + 1 ELSE @]
    IN  CASE e.op = "work" -> n
          [] e.op = "info" -> [n EXCEPT !.meta = m.loaded]
          [] e.op = "output" -> [n EXCEPT !.output = TRUE]
          [] e.op = "end" -> [n EXCEPT !.quit = TRUE, !.cause = "end", !.output = TRUE]
          [] e.op = "open" /\ Answer(files, e.file) = 0 -> [n EXCEPT !.notReady = FALSE]
          [] OTHER -> [n EXCEPT !.notReady = Answer(files, e.file) < 0,
                                !.quit = TRUE, !.reboot = TRUE, !.cause = "file"]

\* The file a step asks for that is not there yet.
Wanted(m, files) ==
    LET e == Request(m)
    IN  IF e.op = "open" THEN {e.file} \cap {f \in Files : Answer(files, f) < 0} ELSE {}

\* Variant: sound is made while a reboot is due.
AlwaysAudible(m) == TRUE

\* Is sound made at all: the first lines of check_sound_buffers().
Audible(m) == ~m.reboot

\* Variant: one frame too late.
StartsLate(n) == n > SkipLimit

\* After so many dropped frames output starts without being asked for.
StartsAnyway(n) == n >= SkipLimit

\* Variant: the frames dropped are not counted.
MixUncounted(m, silent) ==
    IF ~m.output THEN m
    ELSE IF m.filled + 1 < BufferFrames THEN [m EXCEPT !.filled = @ + 1]
    ELSE [m EXCEPT !.filled = 0, !.isNew = TRUE, !.fresh = TRUE]

\* check_sound_buffers(), uade_check_sound_buffers(): one frame.  A buffer of
\* silence may be the one that makes the silence long enough to end the song.
Mix(m, silent) ==
    IF ~m.output
    THEN [m EXCEPT !.skip = @ + 1, !.filled = 0,
                   !.output = StartsAnyway(m.skip + 1)]
    ELSE IF m.filled + 1 < BufferFrames THEN [m EXCEPT !.filled = @ + 1]
    ELSE [m EXCEPT !.filled = 0, !.isNew = TRUE, !.fresh = TRUE,
                   !.quit = @ \/ silent,
                   !.cause = IF silent THEN "silence" ELSE @]

Run1(m, files, frame, silent) ==
    LET n == Serve(m, files) IN IF frame /\ Audible(n) THEN Mix(n, silent) ELSE n

-----------------------------------------------------------------------------
(* initIfNeeded(): loadMusicData() and so emu_init(), which ends here or    *)
(* goes on to its dry run.  The module is in the cache: setFile() has just  *)
(* put it there, and isWaitingForFile() is FALSE.                           *)
InitIfNeeded(s, files, ready, pause) ==
    LET r == ResetResult(files, s)
        f == Needed(s)[FirstAbsent(files, s)]
        asks == r < 0 /\ Answer(files, f) < 0
    IN  /\ emu' = Reset(Boot(emu), files, s)
        /\ status' = r
        /\ call' = IF r = 0 THEN "init" ELSE "none"
        /\ asked' = asks
        /\ cache' = IF asks THEN Requested(files, f) ELSE files
        /\ waiting' = (r < 0)
        /\ songReady' = (ready /\ r >= 0)
        /\ paused' = (pause \/ asks)

\* The page plays s: prepareTrackForPlayback(), once the module is loaded.
PlaySong(s, t) ==
    /\ call = "none"
    /\ last' = s /\ track' = t
    /\ InitIfNeeded(s, cache, FALSE, TRUE)

\* pause() and resume().
TogglePause ==
    /\ call = "none" /\ ~waiting /\ songReady
    /\ paused' = ~paused
    /\ UNCHANGED <<emu, cache, waiting, songReady, last, track, call, status, asked>>

\* Variant: a callback that remembers which song asked for its file.
SongThatAsked(f) ==
    CHOOSE s \in Songs : Open(f) \in {Script[s][i] : i \in DOMAIN Script[s]}
                         \/ f \in {Needed(s)[i] : i \in DOMAIN Needed(s)}

\* The song that is started again when a file arrives.
SongToRetry(f) == last

\* preloadFile(): onload of a requested file, and its callback, which does not
\* ask whether the last song still waits for it.  The handler that looks for the
\* status 404 is never called (onreadystatuschange): the page of the error is taken
\* for the file, and an empty one compares equal to 0, as a failed file does.
FileArrives(f) ==
    /\ call = "none"
    /\ cache[f] = "pending"
    /\ \E result \in IF f \in Unavailable THEN {"ready", "missing"} ELSE {"ready"} :
          InitIfNeeded(SongToRetry(f), [cache EXCEPT ![f] = result], songReady, paused)
    /\ UNCHANGED <<last, track>>

\* Variant: onerror that only marks the file.
FailedFileKeepsWaiting(f) ==
    /\ call = "none"
    /\ cache[f] = "pending" /\ f \in Unavailable
    /\ cache' = [cache EXCEPT ![f] = "missing"]
    /\ UNCHANGED <<emu, flags, last, track, call, status, asked>>

\* preloadFile(): onerror.
FileFails(f) ==
    /\ call = "none"
    /\ cache[f] = "pending" /\ f \in Unavailable
    /\ cache' = [cache EXCEPT ![f] = "missing"]
    /\ waiting' = FALSE
    /\ UNCHANGED <<emu, songReady, paused, last, track, call, status, asked>>

-----------------------------------------------------------------------------
(* A call returns to the player.                                           *)

\* -1: it can go on when a file has arrived.
ReturnsRetry(m) ==
    /\ emu' = [m EXCEPT !.quit = FALSE]
    /\ call' = "none" /\ status' = -1
    /\ waiting' = TRUE /\ songReady' = FALSE

\* computeAudioSamples() of the adapter: is an ended song an error?
EndStatus(m) == IF m.quit THEN 2 ELSE 1

\* genSamples(): the track is over, onTrackEnd().
ReturnsEnd(m) ==
    /\ emu' = m
    /\ call' = "none" /\ status' = EndStatus(m)
    /\ paused' = TRUE
    /\ UNCHANGED <<waiting, songReady>>

\* emu_set_subsong(): the track, within the range the dry run reported.
Clamped(meta, t) ==
    LET range == IF meta = None THEN {0} ELSE Ranges[meta]
        lowest == CHOOSE i \in range : \A j \in range : i <= j
        highest == CHOOSE i \in range : \A j \in range : i >= j
    IN  IF t < lowest THEN lowest ELSE IF t > highest THEN highest ELSE t

\* The clean reset after the dry run; its result is not looked at.
SetSubsong(m, t) ==
    LET n == Reset(m, cache, m.loaded)
    IN  IF t < 0 THEN n ELSE [n EXCEPT !.subsong = Clamped(m.meta, t)]

\* emu_init() returned 0: evalTrackOptions(), then the song plays.
ReturnsReady(m) ==
    /\ emu' = SetSubsong(m, track)
    /\ call' = "none" /\ status' = 0
    /\ waiting' = FALSE /\ songReady' = TRUE /\ paused' = FALSE

\* What a step asked for: files requested on the way.
Asks(w) ==
    /\ cache' = IF w = {} THEN cache ELSE Requested(cache, CHOOSE f \in w : TRUE)
    /\ asked' = (asked \/ w # {})

-----------------------------------------------------------------------------
(* The dry run of emu_init().                                              *)

\* The dry run has found out what it is for.
DryRunDone(m) == m.meta # None \/ m.output

DryRunStep(frame, silent) ==
    /\ call = "init" /\ ~emu.quit /\ ~emu.reboot
    /\ LET m == Run1(emu, cache, frame, silent)
           w == Wanted(emu, cache)
       IN  /\ Asks(w)
           /\ \/ /\ m.quit /\ m.notReady
                 /\ ReturnsRetry(m)
                 /\ paused' = (paused \/ w # {})
              \/ /\ ~(m.quit /\ m.notReady) /\ DryRunDone(m)
                 /\ ReturnsReady(m)
              \/ /\ ~(m.quit /\ m.notReady) /\ ~DryRunDone(m)
                 /\ emu' = m
                 /\ UNCHANGED <<flags, call, status>>
    /\ UNCHANGED <<last, track>>

\* It stopped at a missing file, or after its 10000000 steps.
DryRunEnds ==
    /\ call = "init"
    /\ ReturnsReady(emu)
    /\ UNCHANGED <<cache, last, track, asked>>

-----------------------------------------------------------------------------
(* emu_compute_audio_samples() for genSamples().                           *)
Playing == songReady /\ ~waiting /\ ~paused

ComputeStart ==
    /\ call = "none" /\ Playing
    /\ asked' = FALSE
    /\ IF emu.quit THEN ReturnsEnd(emu)
       ELSE call' = "compute" /\ UNCHANGED <<emu, flags, status>>
    /\ UNCHANGED <<cache, last, track>>

\* setPlaybackTimeout() has run out: the emulator is not asked any more.
TrackTimeout ==
    /\ call = "none" /\ Playing
    /\ status' = 1 /\ asked' = FALSE /\ paused' = TRUE
    /\ UNCHANGED <<emu, cache, waiting, songReady, last, track, call>>

ComputeStep(frame, silent) ==
    /\ call = "compute"
    /\ LET m == Run1(emu, cache, frame, silent)
           w == Wanted(emu, cache)
           stop == w # {}
       IN  /\ Asks(w)
           /\ \/ /\ m.isNew
                 /\ emu' = m /\ call' = "deliver" /\ status' = 0
                 /\ waiting' = stop /\ songReady' = ~stop /\ paused' = stop
              \/ /\ ~m.isNew /\ m.quit /\ m.notReady
                 /\ ReturnsRetry(m) /\ paused' = TRUE
              \/ /\ ~m.isNew /\ m.quit /\ ~m.notReady
                 /\ ReturnsEnd(m)
              \/ /\ ~m.isNew /\ ~m.quit
                 /\ emu' = m
                 /\ UNCHANGED <<flags, call, status>>
    /\ UNCHANGED <<last, track>>

\* emu_get_audio_buffer(), the next thing genSamples() does.
Deliver ==
    /\ call = "deliver"
    /\ emu' = [emu EXCEPT !.isNew = FALSE]
    /\ call' = "none"
    /\ UNCHANGED <<cache, flags, last, track, status, asked>>

Next ==
    \/ \E s \in Songs, t \in Tracks : PlaySong(s, t)
    \/ TogglePause
    \/ \E f \in Files : FileArrives(f) \/ FileFails(f)
    \/ \E frame, silent \in BOOLEAN : DryRunStep(frame, silent) \/ ComputeStep(frame, silent)
    \/ DryRunEnds
    \/ ComputeStart
    \/ TrackTimeout
    \/ Deliver

Spec == Init /\ [][Next]_vars

\* Emulated time passes while a call runs, and every request of the network
\* ends.  The page owes nothing.
Fairness ==
    /\ WF_vars(\E silent \in BOOLEAN : DryRunStep(TRUE, silent) \/ ComputeStep(TRUE, silent))
    /\ WF_vars(DryRunEnds) /\ WF_vars(Deliver)
    /\ \A f \in Files : WF_vars(FileArrives(f) \/ FileFails(f))

FairSpec == Spec /\ Fairness

-----------------------------------------------------------------------------
(* What must hold.                                                         *)

\* Every variable keeps its type; in particular a song is in memory whenever a
\* call into the emulator is in progress (the globals of uade.c).
TypeOK ==
    /\ emu \in Emulator
    /\ cache \in [Files -> {"absent", "pending", "ready", "missing"}]
    /\ waiting \in BOOLEAN /\ songReady \in BOOLEAN /\ paused \in BOOLEAN
    /\ last \in Songs \cup {None} /\ track \in Tracks \cup {-1}
    /\ call \in {"none", "init", "compute", "deliver"} /\ status \in -1..2
    /\ asked \in BOOLEAN
    /\ call # "none" => emu.loaded # None

\* A call that asked for a file which is on its way is answered -1, whatever
\* else happened in it: the player waits, and will try again.
PendingIsRetried == call = "none" /\ asked => status = -1

\* What plays is the song asked for last, however late the files of others
\* arrive and whichever song their callbacks were made for; and samples made
\* before its last reset, those of the dry run, are never taken.
SoundIsOfLastSong ==
    /\ call \in {"compute", "deliver"} => emu.loaded = last
    /\ emu.isNew => emu.fresh

\* A track the page asks for is brought into the range of its own song, never
\* that of the song played before; 0 while the song has not reported one.
SubsongInRange ==
    call = "compute" => emu.subsong \in Ranges[emu.loaded] \cup {-1, 0}

\* Every call into the emulator returns to the JavaScript thread.
CallsReturn == call # "none" ~> call = "none"

\* A wait that began because a file had to be asked for ends, whatever song is played
\* meanwhile: the file arrives, with the next one asked for perhaps, or fails.  Two
\* waits are for no file and do not end: last_file_not_ready may be left from the song
\* before when a song comes to its end (EndIsReported), and a mandatory file that has
\* failed is taken for one that is still on its way (uade_reset() returns -1).
WaitingEnds == waiting /\ asked ~> ~waiting \/ \E f \in Mandatory : cache[f] = "missing"

-----------------------------------------------------------------------------
(* What the sources say and the program does not do.                       *)

\* adapter.c: -1 is for "async file loading"; a song that came to its end is
\* "done".
EndIsReported == call = "none" /\ emu.cause \in {"end", "silence"} => status # -1

\* uade.c: the options of the song are what uadecontrol sets after the
\* handshake, so they are in force while it plays.
EffectsInForce == call = "compute" /\ Resampler => emu.resampling
=============================================================================
