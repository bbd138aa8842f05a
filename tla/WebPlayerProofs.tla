--------------------------- MODULE WebPlayerProofs ---------------------------
(***************************************************************************)
(* Proofs about WebPlayer, for any songs, whatever their programs ask of   *)
(* the emulator, and whenever files arrive or fail.                        *)
(***************************************************************************)
EXTENDS WebPlayer, TLAPS

FileStates == {"absent", "pending", "ready", "missing"}

\* All that uade_reset() needs for a song is there.
Ready(files, s) == Absent(files, s) = {}

\* A song has been initialised, or is being.
HasSong == call # "none" \/ songReady

\* It is the last one, and with its files it can be reset again at any time.
SongInv ==
    /\ HasSong \/ (\E f \in Files : cache[f] # "absent") => last # None
    /\ HasSong => emu.loaded = last /\ Ready(cache, last)

\* Samples wait for nobody but the player that is about to take them; output
\* starts before too many frames were dropped.
Fetched(m) == ~m.output => m.skip < SkipLimit
SampleInv ==
    /\ call # "deliver" => ~emu.isNew
    /\ emu.isNew => emu.fresh
    /\ Fetched(emu)

\* A dry run has made no sound yet, and knows of no other song's subsongs.
DryRunInv == call = "init" => ~emu.output /\ emu.filled = 0 /\ emu.meta \in {None, emu.loaded}

RangeInv ==
    call = "compute" \/ (songReady /\ call # "init") => emu.subsong \in Ranges[emu.loaded] \cup {-1, 0}

AskedInv == asked => call = "none" /\ status = -1

WebInv == TypeOK /\ SongInv /\ SampleInv /\ DryRunInv /\ RangeInv /\ AskedInv

-----------------------------------------------------------------------------
(* Files.                                                                  *)

\* What is known of a file is not forgotten.
Later(old, new) ==
    \A f \in Files :
        /\ old[f] \in {"ready", "missing"} => new[f] = old[f]
        /\ old[f] # "absent" => new[f] # "absent"

LEMMA AnswerIs ==
    ASSUME NEW files, NEW f
    PROVE  /\ Answer(files, f) \in {-1, 0, 1}
           /\ Answer(files, f) = 0 <=> files[f] = "ready"
           /\ Answer(files, f) = 1 <=> files[f] = "missing"
BY DEF Answer

LEMMA NeededIs ==
    ASSUME NEW s \in Songs
    PROVE  \A i \in DOMAIN Needed(s) : Needed(s)[i] \in Files
<1>1. Setup[s] \in Seq(Files) /\ BootFile \in Files
  BY WebAssumption
<1>2. <<BootFile>> \o Setup[s] \in Seq(Files)
  BY <1>1
<1> QED BY <1>2 DEF Needed

LEMMA ReadyKept ==
    ASSUME NEW s \in Songs, NEW old, NEW new, Later(old, new), Ready(old, s)
    PROVE  Ready(new, s)
<1> SUFFICES ASSUME NEW i \in Absent(new, s) PROVE i \in Absent(old, s)
  BY DEF Ready
<1> DEFINE f == Needed(s)[i]
<1>1. i \in DOMAIN Needed(s) /\ f \in Files
  BY NeededIs DEF Absent
<1>2. Answer(new, f) < 0 \/ (Answer(new, f) > 0 /\ f \notin Optional)
  BY DEF Absent
<1>3. Answer(old, f) < 0 \/ (Answer(old, f) > 0 /\ f \notin Optional)
  <2>1. old[f] \in {"ready", "missing"} => new[f] = old[f]
    BY <1>1 DEF Later
  <2> QED BY <1>2, <2>1, AnswerIs
<1> QED BY <1>1, <1>3 DEF Absent

LEMMA RequestedLater ==
    ASSUME NEW files \in [Files -> FileStates], NEW f
    PROVE  Requested(files, f) \in [Files -> FileStates] /\ Later(files, Requested(files, f))
BY DEF Requested, Later, FileStates

LEMMA AsksLater ==
    ASSUME cache \in [Files -> FileStates], NEW w, Asks(w)
    PROVE  cache' \in [Files -> FileStates] /\ Later(cache, cache')
<1>1. Later(cache, cache)
  BY DEF Later
<1> QED BY <1>1, RequestedLater DEF Asks

-----------------------------------------------------------------------------
(* What the emulator's operations do to its globals.                       *)

LEMMA BootIs ==
    ASSUME NEW m \in Emulator
    PROVE  /\ Boot(m) \in Emulator /\ Boot(m).meta = None
           /\ Boot(m).isNew = m.isNew /\ Boot(m).fresh = m.fresh
           /\ Boot(m).output = m.output /\ Boot(m).skip = m.skip
BY DEF Boot, Emulator

\* The program of s is about to begin.
Restarted(r, s) == r.loaded = s /\ r.subsong = -1 /\ r.filled = 0 /\ r.output = FALSE

LEMMA ResetIs ==
    ASSUME NEW m \in Emulator, NEW files, NEW s \in Songs
    PROVE  /\ Reset(m, files, s) \in Emulator
           /\ Reset(m, files, s).isNew = m.isNew /\ Reset(m, files, s).meta = m.meta
           /\ Fetched(m) => Fetched(Reset(m, files, s))
           /\ ResetResult(files, s) = 0 => Restarted(Reset(m, files, s), s)
<1> DEFINE r == Reset(m, files, s)
<1>1. CASE ResetResult(files, s) = 0
  <2> DEFINE n == [m EXCEPT !.loaded = s, !.at = 1, !.subsong = -1, !.filled = 0,
                            !.output = FALSE, !.skip = 0, !.fresh = FALSE,
                            !.resampling = FALSE, !.reboot = FALSE]
  <2>1. r = n
    BY <1>1 DEF Reset, ems_song_initialization, customreset, Emulator
  <2>2. n \in Emulator
    <3>1. 0 \in 0..SkipLimit /\ 0 \in 0..BufferFrames-1 /\ 1 \in Nat /\ -1 \in Nat \cup {-1}
      BY WebAssumption
    <3> QED BY <3>1 DEF Emulator
  <2>3. n.isNew = m.isNew /\ n.meta = m.meta /\ n.loaded = s /\ n.subsong = -1 /\ n.filled = 0
    BY DEF Emulator
  <2>4. n.output = FALSE /\ n.skip = 0
    BY DEF Emulator
  <2>5. Fetched(n)
    BY <2>4, WebAssumption DEF Fetched
  <2> HIDE DEF n
  <2>6. Restarted(n, s)
    BY <2>3, <2>4 DEF Restarted
  <2> HIDE DEF r
  <2> QED BY <2>1, <2>2, <2>3, <2>5, <2>6 DEF r
<1>2. CASE ResetResult(files, s) # 0 /\ Answer(files, BootFile) # 0
  BY <1>2 DEF Reset
<1>3. CASE ResetResult(files, s) # 0 /\ Answer(files, BootFile) = 0
  <2> DEFINE n == [m EXCEPT !.loaded = None, !.subsong = -1, !.fresh = FALSE]
  <2>1. r = n
    BY <1>3 DEF Reset
  <2>2. n \in Emulator
    BY DEF Emulator
  <2>3. n.isNew = m.isNew /\ n.meta = m.meta /\ n.output = m.output /\ n.skip = m.skip
    BY DEF Emulator
  <2>4. Fetched(m) => Fetched(n)
    BY <2>3 DEF Fetched
  <2> HIDE DEF n, r
  <2> QED BY <1>3, <2>1, <2>2, <2>3, <2>4 DEF r
<1> QED BY <1>1, <1>2, <1>3

\* What a request of the program leaves alone.
Alike(m, n) ==
    /\ n.loaded = m.loaded /\ n.subsong = m.subsong /\ n.filled = m.filled
    /\ n.skip = m.skip /\ n.isNew = m.isNew /\ n.fresh = m.fresh

LEMMA ServeIs ==
    ASSUME NEW m \in Emulator, m.loaded \in Songs, NEW files
    PROVE  /\ Serve(m, files) \in Emulator /\ Alike(m, Serve(m, files))
           /\ Serve(m, files).meta \in {m.meta, m.loaded}
           /\ m.output => Serve(m, files).output
           /\ Wanted(m, files) # {} =>
                 Serve(m, files).quit /\ Serve(m, files).notReady /\ Serve(m, files).reboot
<1> DEFINE e == Request(m)
           n == [m EXCEPT !.at = IF @ <= Len(Script[m.loaded]) THEN @ + 1 ELSE @]
<1>1. n \in Emulator
  <2> DEFINE next == IF m.at <= Len(Script[m.loaded]) THEN m.at + 1 ELSE m.at
  <2>1. next \in Nat
    BY DEF Emulator
  <2>2. n = [m EXCEPT !.at = next]
    OBVIOUS
  <2> HIDE DEF next
  <2> QED BY <2>1, <2>2 DEF Emulator
<1>2. Alike(m, n) /\ n.meta = m.meta /\ n.output = m.output
  BY DEF Emulator, Alike
<1>3. Wanted(m, files) # {} => e.op = "open" /\ Answer(files, e.file) < 0
  BY DEF Wanted
<1>4. Answer(files, e.file) \in {-1, 0, 1}
  BY AnswerIs
<1>5. Serve(m, files) = CASE e.op = "work" -> n
          [] e.op = "info" -> [n EXCEPT !.meta = m.loaded]
          [] e.op = "output" -> [n EXCEPT !.output = TRUE]
          [] e.op = "end" -> [n EXCEPT !.quit = TRUE, !.cause = "end", !.output = TRUE]
          [] e.op = "open" /\ Answer(files, e.file) = 0 -> [n EXCEPT !.notReady = FALSE]
          [] OTHER -> [n EXCEPT !.notReady = Answer(files, e.file) < 0,
                                !.quit = TRUE, !.reboot = TRUE, !.cause = "file"]
  BY DEF Serve
<1> HIDE DEF e, n
<1>6. CASE e.op = "work"
  BY <1>1, <1>2, <1>3, <1>5, <1>6
<1>7. CASE e.op = "info"
  <2> DEFINE r == [n EXCEPT !.meta = m.loaded]
  <2>1. r \in Emulator
    BY <1>1 DEF Emulator
  <2>2. Alike(m, r) /\ r.meta = m.loaded /\ r.output = n.output
    BY <1>1, <1>2 DEF Emulator, Alike
  <2> HIDE DEF r
  <2>3. Serve(m, files) = r
    BY <1>5, <1>7 DEF r
  <2> QED BY <1>2, <1>3, <1>7, <2>1, <2>2, <2>3
<1>8. CASE e.op = "output"
  <2> DEFINE r == [n EXCEPT !.output = TRUE]
  <2>1. r \in Emulator
    BY <1>1 DEF Emulator
  <2>2. Alike(m, r) /\ r.meta = n.meta /\ r.output
    BY <1>1, <1>2 DEF Emulator, Alike
  <2> HIDE DEF r
  <2>3. Serve(m, files) = r
    BY <1>5, <1>8 DEF r
  <2> QED BY <1>2, <1>3, <1>8, <2>1, <2>2, <2>3
<1>9. CASE e.op = "end"
  <2> DEFINE r == [n EXCEPT !.quit = TRUE, !.cause = "end", !.output = TRUE]
  <2>1. r \in Emulator
    BY <1>1 DEF Emulator
  <2>2. Alike(m, r) /\ r.meta = n.meta /\ r.output
    BY <1>1, <1>2 DEF Emulator, Alike
  <2> HIDE DEF r
  <2>3. Serve(m, files) = r
    BY <1>5, <1>9 DEF r
  <2> QED BY <1>2, <1>3, <1>9, <2>1, <2>2, <2>3
<1>10. CASE e.op = "open" /\ Answer(files, e.file) = 0
  <2> DEFINE r == [n EXCEPT !.notReady = FALSE]
  <2>1. r \in Emulator
    BY <1>1 DEF Emulator
  <2>2. Alike(m, r) /\ r.meta = n.meta /\ r.output = n.output
    BY <1>1, <1>2 DEF Emulator, Alike
  <2> HIDE DEF r
  <2>3. Serve(m, files) = r
    BY <1>5, <1>10 DEF r
  <2> QED BY <1>2, <1>3, <1>10, <2>1, <2>2, <2>3
<1>11. CASE e.op \notin {"work", "info", "output", "end"} /\ ~(e.op = "open" /\ Answer(files, e.file) = 0)
  <2> DEFINE pending == Answer(files, e.file) < 0
             r == [n EXCEPT !.notReady = pending, !.quit = TRUE, !.reboot = TRUE, !.cause = "file"]
  <2>1. pending \in BOOLEAN
    OBVIOUS
  <2>2. Serve(m, files) = r
    BY <1>5, <1>11
  <2>3. Wanted(m, files) # {} => pending
    BY <1>3
  <2> HIDE DEF pending
  <2>4. r \in Emulator
    BY <1>1, <2>1 DEF Emulator
  <2>5. Alike(m, r) /\ r.meta = n.meta /\ r.output = n.output
    BY <1>1, <1>2 DEF Emulator, Alike
  <2>6. r.quit = TRUE /\ r.reboot = TRUE /\ r.notReady = pending
    BY <1>1 DEF Emulator
  <2> HIDE DEF r
  <2> QED BY <1>2, <2>2, <2>3, <2>4, <2>5, <2>6
<1> QED BY <1>6, <1>7, <1>8, <1>9, <1>10, <1>11

LEMMA MixIs ==
    ASSUME NEW n \in Emulator, Fetched(n), NEW silent \in BOOLEAN
    PROVE  /\ Mix(n, silent) \in Emulator /\ Fetched(Mix(n, silent))
           /\ Mix(n, silent).loaded = n.loaded /\ Mix(n, silent).subsong = n.subsong
           /\ Mix(n, silent).meta = n.meta
           /\ \/ Mix(n, silent).isNew = n.isNew /\ Mix(n, silent).fresh = n.fresh
              \/ Mix(n, silent).isNew /\ Mix(n, silent).fresh /\ n.filled # 0
           /\ ~Mix(n, silent).output => Mix(n, silent).filled = 0 /\ ~n.output
<1>1. BufferFrames \in Nat /\ BufferFrames >= 2 /\ SkipLimit \in Nat /\ SkipLimit >= 1
  BY WebAssumption
<1>2. n.skip \in 0..SkipLimit /\ n.filled \in 0..BufferFrames-1 /\ n.output \in BOOLEAN
  BY DEF Emulator
<1>3. CASE ~n.output
  <2> DEFINE dropped == n.skip + 1
             starts == StartsAnyway(dropped)
             r == [n EXCEPT !.skip = dropped, !.filled = 0, !.output = starts]
  <2>1. Mix(n, silent) = r
    BY <1>3 DEF Mix
  <2>2. starts \in BOOLEAN /\ dropped \in 0..SkipLimit /\ (~starts => dropped < SkipLimit)
    BY <1>1, <1>2, <1>3 DEF StartsAnyway, Fetched
  <2> HIDE DEF dropped, starts
  <2>3. r \in Emulator
    <3>1. 0 \in 0..BufferFrames-1
      BY <1>1
    <3> QED BY <2>2, <3>1 DEF Emulator
  <2>4. r.loaded = n.loaded /\ r.subsong = n.subsong /\ r.meta = n.meta /\ r.isNew = n.isNew
        /\ r.fresh = n.fresh
    BY DEF Emulator
  <2>5. r.skip = dropped /\ r.filled = 0 /\ r.output = starts
    BY DEF Emulator
  <2> HIDE DEF r
  <2>6. Fetched(r)
    BY <2>2, <2>5 DEF Fetched
  <2> QED BY <1>3, <2>1, <2>3, <2>4, <2>5, <2>6
<1>4. CASE n.output /\ n.filled + 1 < BufferFrames
  <2> DEFINE more == n.filled + 1
             r == [n EXCEPT !.filled = more]
  <2>1. Mix(n, silent) = r
    BY <1>4 DEF Mix
  <2>2. more \in 0..BufferFrames-1
    BY <1>1, <1>2, <1>4
  <2> HIDE DEF more
  <2>3. r \in Emulator
    BY <2>2 DEF Emulator
  <2>4. r.loaded = n.loaded /\ r.subsong = n.subsong /\ r.meta = n.meta /\ r.isNew = n.isNew
        /\ r.fresh = n.fresh /\ r.output = n.output
    BY DEF Emulator
  <2> HIDE DEF r
  <2>5. Fetched(r)
    BY <1>4, <2>4 DEF Fetched
  <2> QED BY <1>4, <2>1, <2>3, <2>4, <2>5
<1>5. CASE n.output /\ ~(n.filled + 1 < BufferFrames)
  <2> DEFINE r == [n EXCEPT !.filled = 0, !.isNew = TRUE, !.fresh = TRUE, !.quit = n.quit \/ silent,
                            !.cause = IF silent THEN "silence" ELSE n.cause]
  <2>1. Mix(n, silent) = r
    BY <1>5 DEF Mix
  <2>2. n.filled # 0
    BY <1>1, <1>2, <1>5
  <2>3. r \in Emulator
    <3> DEFINE quit == n.quit \/ silent
               cause == IF silent THEN "silence" ELSE n.cause
    <3>1. 0 \in 0..BufferFrames-1
      BY <1>1
    <3>2. quit \in BOOLEAN /\ cause \in {"none", "file", "end", "silence"}
      BY DEF Emulator
    <3>3. r = [n EXCEPT !.filled = 0, !.isNew = TRUE, !.fresh = TRUE, !.quit = quit, !.cause = cause]
      OBVIOUS
    <3> HIDE DEF quit, cause
    <3> QED BY <3>1, <3>2, <3>3 DEF Emulator
  <2>4. r.loaded = n.loaded /\ r.subsong = n.subsong /\ r.meta = n.meta /\ r.isNew = TRUE
        /\ r.fresh = TRUE /\ r.output = n.output
    BY DEF Emulator
  <2> HIDE DEF r
  <2>5. Fetched(r)
    BY <1>5, <2>4 DEF Fetched
  <2> QED BY <1>5, <2>1, <2>2, <2>3, <2>4, <2>5
<1> QED BY <1>2, <1>3, <1>4, <1>5

LEMMA Run1Is ==
    ASSUME NEW m \in Emulator, m.loaded \in Songs, Fetched(m), NEW files,
           NEW frame \in BOOLEAN, NEW silent \in BOOLEAN,
           NEW r, r = Run1(m, files, frame, silent)
    PROVE  /\ r \in Emulator /\ Fetched(r) /\ r.loaded = m.loaded /\ r.subsong = m.subsong
           /\ r.meta \in {m.meta, m.loaded}
           /\ (r.isNew = m.isNew /\ r.fresh = m.fresh) \/ (r.isNew /\ r.fresh /\ m.filled # 0)
           /\ m.filled = 0 /\ ~r.output => r.filled = 0
           /\ Wanted(m, files) # {} => r.quit /\ r.notReady /\ r.isNew = m.isNew
<1> DEFINE n == Serve(m, files)
<1>1. /\ n \in Emulator /\ Alike(m, n) /\ n.meta \in {m.meta, m.loaded}
      /\ m.output => n.output
      /\ Wanted(m, files) # {} => n.quit /\ n.notReady /\ n.reboot
  BY ServeIs
<1>2. Fetched(n)
  BY <1>1 DEF Fetched, Alike
<1>3. r = IF frame /\ ~n.reboot THEN Mix(n, silent) ELSE n
  BY DEF Run1, Audible
<1> HIDE DEF n
<1>4. CASE frame /\ ~n.reboot
  <2>1. r = Mix(n, silent) /\ Wanted(m, files) = {}
    BY <1>1, <1>3, <1>4
  <2> QED BY <1>1, <1>2, <2>1, MixIs DEF Alike
<1>5. CASE ~(frame /\ ~n.reboot)
  BY <1>1, <1>2, <1>3, <1>5 DEF Alike
<1> QED BY <1>4, <1>5

LEMMA ClampedIs ==
    ASSUME NEW meta \in Songs \cup {None}, NEW t \in Nat
    PROVE  Clamped(meta, t) \in IF meta = None THEN {0} ELSE Ranges[meta]
<1> DEFINE range == IF meta = None THEN {0} ELSE Ranges[meta]
           lowest == CHOOSE i \in range : \A j \in range : i <= j
           highest == CHOOSE i \in range : \A j \in range : i >= j
<1>1. Clamped(meta, t) = IF t < lowest THEN lowest ELSE IF t > highest THEN highest ELSE t
  BY DEF Clamped
<1>2. range \subseteq Nat /\ \E min, max \in range : range = min..max
  <2>1. CASE meta = None
    <3>1. range = 0..0
      BY <2>1
    <3> QED BY <2>1, <3>1
  <2>2. CASE meta # None
    BY <2>2, WebAssumption
  <2> QED BY <2>1, <2>2
<1> HIDE DEF range
<1>3. PICK min \in range, max \in range : range = min..max
  BY <1>2
<1>4. \A j \in range : min <= j /\ max >= j
  BY <1>2, <1>3
<1>5. lowest \in range /\ \A j \in range : lowest <= j
  BY <1>4
<1>6. highest \in range /\ \A j \in range : highest >= j
  BY <1>4
<1> HIDE DEF lowest, highest
<1>7. Clamped(meta, t) \in range
  BY <1>1, <1>2, <1>3, <1>5, <1>6
<1> QED BY <1>7 DEF range

LEMMA ReadyResets ==
    ASSUME NEW files, NEW s, Ready(files, s)
    PROVE  ResetResult(files, s) = 0
BY DEF Ready, ResetResult

\* The subsong is set in the range of the song that is in memory.
LEMMA SetSubsongIs ==
    ASSUME NEW m \in Emulator, m.loaded \in Songs, Ready(cache, m.loaded),
           m.meta \in {None, m.loaded}, NEW t \in Tracks \cup {-1},
           NEW r, r = SetSubsong(m, t)
    PROVE  /\ r \in Emulator /\ r.loaded = m.loaded /\ r.isNew = m.isNew
           /\ Fetched(m) => Fetched(r)
           /\ r.subsong \in Ranges[m.loaded] \cup {-1, 0}
<1> DEFINE n == Reset(m, cache, m.loaded)
           u == Clamped(m.meta, t)
<1>1. /\ n \in Emulator /\ n.loaded = m.loaded /\ n.isNew = m.isNew /\ n.subsong = -1
      /\ Fetched(m) => Fetched(n)
  <2>1. ResetResult(cache, m.loaded) = 0
    BY ReadyResets
  <2>2. /\ n \in Emulator /\ n.isNew = m.isNew /\ n.meta = m.meta
        /\ Fetched(m) => Fetched(n)
        /\ ResetResult(cache, m.loaded) = 0 => Restarted(n, m.loaded)
    BY ResetIs
  <2> HIDE DEF n
  <2>3. n.loaded = m.loaded /\ n.subsong = -1
    BY <2>1, <2>2 DEF Restarted
  <2> QED BY <2>2, <2>3
<1>2. r = IF t < 0 THEN n ELSE [n EXCEPT !.subsong = u]
  BY DEF SetSubsong
<1>3. t \in Int /\ (t >= 0 => t \in Nat)
  <2>1. Tracks \subseteq Nat \cup {-1}
    BY WebAssumption
  <2>2. t \in Nat \/ t = -1
    BY <2>1
  <2> QED BY <2>2
<1>4. t >= 0 => u \in Nat /\ u \in Ranges[m.loaded] \cup {0}
  <2>1. Ranges[m.loaded] \subseteq Nat /\ m.meta \in Songs \cup {None}
    BY WebAssumption DEF Emulator
  <2>2. t >= 0 => u \in IF m.meta = None THEN {0} ELSE Ranges[m.meta]
    BY <1>3, <2>1, ClampedIs
  <2> QED BY <2>1, <2>2
<1> HIDE DEF n, u
<1>5. CASE t < 0
  BY <1>1, <1>2, <1>5
<1>6. CASE ~(t < 0)
  <2>1. r = [n EXCEPT !.subsong = u] /\ u \in Nat /\ u \in Ranges[m.loaded] \cup {0}
    BY <1>2, <1>3, <1>4, <1>6
  <2>2. r \in Emulator
    BY <1>1, <2>1 DEF Emulator
  <2>3. r.loaded = n.loaded /\ r.isNew = n.isNew /\ r.subsong = u /\ r.output = n.output /\ r.skip = n.skip
    BY <1>1, <2>1 DEF Emulator
  <2> QED BY <1>1, <2>1, <2>2, <2>3 DEF Fetched
<1> QED BY <1>5, <1>6

-----------------------------------------------------------------------------
(* The steps.                                                              *)

LEMMA WebInvInit == Init => WebInv
<1> SUFFICES ASSUME Init PROVE WebInv
  OBVIOUS
<1>1. emu \in Emulator
  <2>1. 0 \in 0..SkipLimit /\ 0 \in 0..BufferFrames-1
    BY WebAssumption
  <2> QED BY <2>1 DEF Init, Emulator
<1>2. TypeOK
  <2>1. /\ cache \in [Files -> FileStates] /\ waiting = FALSE /\ songReady = FALSE /\ paused = FALSE
        /\ last = None /\ track = -1 /\ call = "none" /\ status = 0 /\ asked = FALSE
    BY DEF Init, FileStates
  <2>2. last \in Songs \cup {None} /\ track \in Tracks \cup {-1} /\ status \in -1..2
    BY <2>1
  <2> QED BY <1>1, <2>1, <2>2 DEF TypeOK, FileStates
<1>3. SampleInv
  BY WebAssumption DEF Init, SampleInv, Fetched
<1>4. SongInv /\ DryRunInv /\ RangeInv /\ AskedInv
  BY DEF Init, SongInv, HasSong, DryRunInv, RangeInv, AskedInv
<1> QED BY <1>2, <1>3, <1>4 DEF WebInv

\* A song is started: the one the page asked for, or again the last one.
LEMMA InitKeeps ==
    ASSUME WebInv, call = "none", NEW s \in Songs, NEW files \in [Files -> FileStates],
           NEW ready \in BOOLEAN, NEW pause \in BOOLEAN, ready => Ready(files, s),
           InitIfNeeded(s, files, ready, pause), last' = s, track' \in Tracks \cup {-1}
    PROVE  WebInv'
<1> DEFINE r == ResetResult(files, s)
           f == Needed(s)[FirstAbsent(files, s)]
           asks == r < 0 /\ Answer(files, f) < 0
           b == Boot(emu)
<1>1. /\ emu' = Reset(b, files, s) /\ status' = r
      /\ call' = IF r = 0 THEN "init" ELSE "none"
      /\ asked' = asks
      /\ cache' = IF asks THEN Requested(files, f) ELSE files
      /\ waiting' = (r < 0)
      /\ songReady' = (ready /\ r >= 0)
      /\ paused' = (pause \/ asks)
  BY DEF InitIfNeeded
<1>2. /\ r \in {-1, 0, 1} /\ asks \in BOOLEAN /\ (r = 0 <=> Absent(files, s) = {})
      /\ (asks => r = -1)
  BY DEF ResetResult
<1>3. /\ emu \in Emulator /\ ~emu.isNew /\ Fetched(emu)
  BY DEF WebInv, TypeOK, SampleInv
<1>4. /\ b \in Emulator /\ b.isNew = emu.isNew /\ b.meta = None /\ Fetched(b)
  BY <1>3, BootIs DEF Fetched
<1> HIDE DEF r, f, asks, b
<1>5. /\ emu' \in Emulator /\ emu'.isNew = FALSE /\ emu'.meta = None /\ Fetched(emu')
      /\ r = 0 => /\ emu'.loaded = s /\ emu'.filled = 0 /\ emu'.output = FALSE
                  /\ Ready(files, s)
  <2>1. r = ResetResult(files, s)
    BY DEF r
  <2> DEFINE n == Reset(b, files, s)
  <2>2. /\ n \in Emulator /\ n.isNew = b.isNew /\ n.meta = b.meta
        /\ Fetched(b) => Fetched(n)
        /\ ResetResult(files, s) = 0 => Restarted(n, s)
    BY <1>4, ResetIs
  <2>3. emu' = n
    BY <1>1
  <2> HIDE DEF n
  <2>4. r = 0 => n.loaded = s /\ n.filled = 0 /\ n.output = FALSE
    BY <2>1, <2>2 DEF Restarted
  <2>5. n.isNew = FALSE
    BY <1>3, <1>4, <2>2 DEF Emulator
  <2>6. r = 0 => Ready(files, s)
    BY <1>2 DEF Ready
  <2> QED BY <1>4, <2>2, <2>3, <2>4, <2>5, <2>6
<1>6. /\ cache' \in [Files -> FileStates] /\ (r = 0 => cache' = files)
  <2>1. Requested(files, f) \in [Files -> FileStates]
    BY RequestedLater
  <2>2. r = 0 => ~asks
    BY <1>2
  <2> QED BY <1>1, <2>1, <2>2
<1>7. /\ songReady' \in BOOLEAN /\ waiting' \in BOOLEAN /\ paused' \in BOOLEAN /\ asked' \in BOOLEAN
      /\ songReady' => r = 0
  BY <1>1, <1>2 DEF Ready
<1>8. s # None
  BY WebAssumption
<1>9. TypeOK'
  BY <1>1, <1>2, <1>5, <1>6, <1>7, <1>8 DEF TypeOK, FileStates
<1>10. SongInv'
  BY <1>1, <1>5, <1>6, <1>7, <1>8 DEF SongInv, HasSong
<1>11. SampleInv' /\ DryRunInv'
  BY <1>1, <1>5 DEF SampleInv, DryRunInv
<1>12. RangeInv' /\ AskedInv'
  BY <1>1, <1>2, <1>7 DEF RangeInv, AskedInv
<1> QED BY <1>9, <1>10, <1>11, <1>12 DEF WebInv

LEMMA PlayKeeps ==
    ASSUME WebInv, NEW s \in Songs, NEW t \in Tracks, PlaySong(s, t)
    PROVE  WebInv'
<1>1. cache \in [Files -> FileStates]
  BY DEF WebInv, TypeOK, FileStates
<1> QED BY <1>1, InitKeeps DEF PlaySong

LEMMA FileArrivesKeeps ==
    ASSUME WebInv, NEW f \in Files, FileArrives(f)
    PROVE  WebInv'
<1>0. PICK result \in {"ready", "missing"} :
        InitIfNeeded(last, [cache EXCEPT ![f] = result], songReady, paused)
  BY DEF FileArrives, SongToRetry
<1> DEFINE files == [cache EXCEPT ![f] = result]
<1>1. /\ cache \in [Files -> FileStates] /\ files \in [Files -> FileStates]
      /\ songReady \in BOOLEAN /\ paused \in BOOLEAN /\ track \in Tracks \cup {-1}
      /\ call = "none" /\ cache[f] = "pending"
  BY DEF WebInv, TypeOK, FileStates, FileArrives
<1>2. last \in Songs
  BY <1>1 DEF WebInv, TypeOK, SongInv
<1>3. Later(cache, files)
  BY <1>1 DEF Later
<1>4. songReady => Ready(files, last)
  BY <1>2, <1>3, ReadyKept DEF WebInv, SongInv, HasSong
<1>5. InitIfNeeded(last, files, songReady, paused) /\ last' = last /\ track' = track
  BY <1>0 DEF FileArrives
<1> HIDE DEF files
<1> QED BY <1>1, <1>2, <1>4, <1>5, InitKeeps

LEMMA FileFailsKeeps ==
    ASSUME WebInv, NEW f \in Files, FileFails(f)
    PROVE  WebInv'
<1>1. /\ cache \in [Files -> FileStates] /\ cache' = [cache EXCEPT ![f] = "missing"]
      /\ cache[f] = "pending" /\ waiting' = FALSE /\ call = "none"
      /\ UNCHANGED <<emu, songReady, paused, last, track, call, status, asked>>
  BY DEF WebInv, TypeOK, FileStates, FileFails
<1>2. cache' \in [Files -> FileStates] /\ Later(cache, cache')
  BY <1>1 DEF Later, FileStates
<1>3. last \in Songs
  BY <1>1 DEF WebInv, TypeOK, SongInv
<1>4. TypeOK'
  BY <1>1, <1>2 DEF WebInv, TypeOK, FileStates
<1>5. SongInv'
  BY <1>1, <1>2, <1>3, ReadyKept, WebAssumption DEF WebInv, SongInv, HasSong
<1>6. SampleInv' /\ DryRunInv' /\ RangeInv' /\ AskedInv'
  BY <1>1 DEF WebInv, SampleInv, DryRunInv, RangeInv, AskedInv
<1> QED BY <1>4, <1>5, <1>6 DEF WebInv

LEMMA TogglePauseKeeps == WebInv /\ TogglePause => WebInv'
<1> SUFFICES ASSUME WebInv, TogglePause PROVE WebInv'
  OBVIOUS
<1>1. /\ paused' = ~paused
      /\ UNCHANGED <<emu, cache, waiting, songReady, last, track, call, status, asked>>
  BY DEF TogglePause
<1>2. TypeOK'
  BY <1>1 DEF WebInv, TypeOK
<1>3. SongInv'
  BY <1>1 DEF WebInv, SongInv, HasSong, Ready, Absent, Answer
<1>4. SampleInv' /\ DryRunInv' /\ RangeInv' /\ AskedInv'
  BY <1>1 DEF WebInv, SampleInv, DryRunInv, RangeInv, AskedInv
<1> QED BY <1>2, <1>3, <1>4 DEF WebInv

\* What is known while a call runs or a song is ready.
LEMMA SongIs ==
    ASSUME WebInv, HasSong
    PROVE  /\ emu \in Emulator /\ Fetched(emu) /\ cache \in [Files -> FileStates]
           /\ emu.loaded = last /\ last \in Songs /\ Ready(cache, last)
           /\ track \in Tracks \cup {-1}
<1>1. last # None /\ last \in Songs \cup {None} /\ emu.loaded = last /\ Ready(cache, last)
  BY DEF WebInv, SongInv, TypeOK
<1> QED BY <1>1 DEF WebInv, TypeOK, SampleInv, FileStates

\* A call goes on or returns with the song in memory: what is left to show is
\* about its samples, its dry run, its subsong and the file it asked for.
LEMMA StepKeeps ==
    ASSUME WebInv, HasSong, UNCHANGED <<last, track>>,
           cache' \in [Files -> FileStates], Later(cache, cache'),
           emu' \in Emulator, emu'.loaded = emu.loaded,
           waiting' \in BOOLEAN, songReady' \in BOOLEAN, paused' \in BOOLEAN, asked' \in BOOLEAN,
           call' \in {"none", "init", "compute", "deliver"}, status' \in -1..2,
           SampleInv', DryRunInv', RangeInv', AskedInv'
    PROVE  WebInv'
<1>1. last \in Songs /\ emu.loaded = last /\ Ready(cache, last)
  BY SongIs
<1>2. Ready(cache', last)
  BY <1>1, ReadyKept
<1>3. last # None /\ last' = last
  BY <1>1, WebAssumption
<1>4. SongInv'
  BY <1>1, <1>2, <1>3 DEF SongInv, HasSong, Ready, Absent, Answer
<1>5. TypeOK'
  BY <1>1, <1>3 DEF WebInv, TypeOK, FileStates
<1> QED BY <1>4, <1>5 DEF WebInv

\* emu_init() returns 0: the song's subsong is in its range, and it plays.
LEMMA ReadyKeeps ==
    ASSUME WebInv, HasSong, NEW m \in Emulator, Fetched(m), ~m.isNew, m.loaded = emu.loaded,
           m.meta \in {None, m.loaded}, ReturnsReady(m), UNCHANGED <<last, track>>,
           cache' \in [Files -> FileStates], Later(cache, cache'), asked' = FALSE
    PROVE  WebInv'
<1>1. /\ m.loaded \in Songs /\ Ready(cache, m.loaded) /\ track \in Tracks \cup {-1}
  BY SongIs
<1> DEFINE n == SetSubsong(m, track)
<1>2. /\ n \in Emulator /\ n.loaded = m.loaded /\ n.isNew = m.isNew /\ Fetched(n)
      /\ n.subsong \in Ranges[m.loaded] \cup {-1, 0}
  BY <1>1, SetSubsongIs
<1>3. /\ emu' = n /\ call' = "none" /\ status' = 0
      /\ waiting' = FALSE /\ songReady' = TRUE /\ paused' = FALSE
  BY DEF ReturnsReady
<1> HIDE DEF n
<1>4. SampleInv' /\ DryRunInv' /\ AskedInv'
  BY <1>2, <1>3 DEF SampleInv, DryRunInv, AskedInv
<1>5. RangeInv'
  BY <1>2, <1>3 DEF RangeInv
<1>6. waiting' \in BOOLEAN /\ songReady' \in BOOLEAN /\ paused' \in BOOLEAN /\ asked' \in BOOLEAN
  BY <1>3
<1>7. call' \in {"none", "init", "compute", "deliver"} /\ status' \in -1..2
  BY <1>3
<1>8. emu' \in Emulator /\ emu'.loaded = emu.loaded
  BY <1>2, <1>3
<1> QED BY <1>4, <1>5, <1>6, <1>7, <1>8, StepKeeps

\* It returns -1: the player waits, whatever else happened in the call.
LEMMA RetryKeeps ==
    ASSUME WebInv, HasSong, NEW m \in Emulator, Fetched(m), ~m.isNew, m.loaded = emu.loaded,
           ReturnsRetry(m), UNCHANGED <<last, track>>, paused' \in BOOLEAN, asked' \in BOOLEAN,
           cache' \in [Files -> FileStates], Later(cache, cache')
    PROVE  WebInv'
<1> DEFINE n == [m EXCEPT !.quit = FALSE]
<1>1. n \in Emulator
  BY DEF Emulator
<1>2. n.loaded = m.loaded /\ n.isNew = m.isNew /\ n.output = m.output /\ n.skip = m.skip
  BY DEF Emulator
<1>3. emu' = n /\ call' = "none" /\ status' = -1 /\ waiting' = TRUE /\ songReady' = FALSE
  BY DEF ReturnsRetry
<1> HIDE DEF n
<1>4. Fetched(n)
  BY <1>2 DEF Fetched
<1>5. SampleInv' /\ DryRunInv' /\ RangeInv' /\ AskedInv'
  BY <1>2, <1>3, <1>4 DEF SampleInv, DryRunInv, RangeInv, AskedInv
<1>6. waiting' \in BOOLEAN /\ songReady' \in BOOLEAN
  BY <1>3
<1>7. call' \in {"none", "init", "compute", "deliver"} /\ status' \in -1..2
  BY <1>3
<1>8. emu' \in Emulator /\ emu'.loaded = emu.loaded
  BY <1>1, <1>2, <1>3
<1> QED BY <1>5, <1>6, <1>7, <1>8, StepKeeps

LEMMA DryRunStepKeeps ==
    ASSUME WebInv, NEW frame \in BOOLEAN, NEW silent \in BOOLEAN, DryRunStep(frame, silent)
    PROVE  WebInv'
<1> DEFINE m == Run1(emu, cache, frame, silent)
           w == Wanted(emu, cache)
<1>1. /\ call = "init" /\ Asks(w) /\ UNCHANGED <<last, track>>
      /\ \/ /\ m.quit /\ m.notReady /\ ReturnsRetry(m) /\ paused' = (paused \/ w # {})
         \/ /\ ~(m.quit /\ m.notReady) /\ DryRunDone(m) /\ ReturnsReady(m)
         \/ /\ ~(m.quit /\ m.notReady) /\ ~DryRunDone(m) /\ emu' = m
            /\ UNCHANGED <<flags, call, status>>
  BY DEF DryRunStep
<1>2. HasSong
  BY <1>1 DEF HasSong
<1>3. /\ emu \in Emulator /\ Fetched(emu) /\ cache \in [Files -> FileStates]
      /\ emu.loaded \in Songs
  BY <1>2, SongIs
<1>4. /\ m \in Emulator /\ Fetched(m) /\ m.loaded = emu.loaded
      /\ m.meta \in {emu.meta, emu.loaded}
      /\ (m.isNew = emu.isNew /\ m.fresh = emu.fresh) \/ (m.isNew /\ m.fresh /\ emu.filled # 0)
      /\ emu.filled = 0 /\ ~m.output => m.filled = 0
      /\ w # {} => m.quit /\ m.notReady
  BY <1>3, Run1Is
<1>5. ~emu.isNew /\ emu.filled = 0 /\ emu.meta \in {None, emu.loaded} /\ asked = FALSE
  BY <1>1 DEF WebInv, TypeOK, SampleInv, DryRunInv, AskedInv
<1>6. cache' \in [Files -> FileStates] /\ Later(cache, cache')
  BY <1>1, <1>3, AsksLater
<1>7. asked' = (w # {})
  BY <1>1, <1>5 DEF Asks
<1>8. /\ waiting \in BOOLEAN /\ songReady \in BOOLEAN /\ paused \in BOOLEAN /\ status \in -1..2
  BY DEF WebInv, TypeOK
<1> HIDE DEF m, w
<1>9. ~m.isNew /\ m.meta \in {None, m.loaded}
  BY <1>4, <1>5
<1>10. CASE m.quit /\ m.notReady
  <2>1. ReturnsRetry(m) /\ paused' = (paused \/ w # {})
    BY <1>1, <1>10
  <2>2. paused' \in BOOLEAN /\ asked' \in BOOLEAN
    BY <1>7, <1>8, <2>1
  <2> QED BY <1>1, <1>2, <1>4, <1>6, <1>9, <2>1, <2>2, RetryKeeps
<1>11. CASE ~(m.quit /\ m.notReady) /\ DryRunDone(m)
  <2>1. ReturnsReady(m) /\ asked' = FALSE
    BY <1>1, <1>4, <1>7, <1>11
  <2> QED BY <1>1, <1>2, <1>4, <1>6, <1>9, <2>1, ReadyKeeps
<1>12. CASE ~(m.quit /\ m.notReady) /\ ~DryRunDone(m)
  <2>1. emu' = m /\ UNCHANGED <<waiting, songReady, paused, call, status>> /\ asked' = FALSE
    BY <1>1, <1>4, <1>7, <1>12 DEF flags
  <2>2. m.meta = None /\ ~m.output /\ m.filled = 0
    BY <1>4, <1>5, <1>12 DEF DryRunDone
  <2>3. SampleInv' /\ DryRunInv' /\ RangeInv' /\ AskedInv'
    BY <1>1, <1>4, <1>9, <2>1, <2>2 DEF SampleInv, DryRunInv, RangeInv, AskedInv
  <2> QED BY <1>1, <1>2, <1>4, <1>6, <1>8, <2>1, <2>3, StepKeeps
<1> QED BY <1>1, <1>10, <1>11, <1>12

LEMMA DryRunEndsKeeps == WebInv /\ DryRunEnds => WebInv'
<1> SUFFICES ASSUME WebInv, DryRunEnds PROVE WebInv'
  OBVIOUS
<1>1. call = "init" /\ ReturnsReady(emu) /\ UNCHANGED <<cache, last, track, asked>>
  BY DEF DryRunEnds
<1>2. HasSong
  BY <1>1 DEF HasSong
<1>3. emu \in Emulator /\ Fetched(emu) /\ cache \in [Files -> FileStates]
  BY <1>2, SongIs
<1>4. ~emu.isNew /\ emu.meta \in {None, emu.loaded} /\ asked = FALSE
  BY <1>1 DEF WebInv, TypeOK, SampleInv, DryRunInv, AskedInv
<1>5. cache' \in [Files -> FileStates] /\ Later(cache, cache')
  BY <1>1, <1>3 DEF Later
<1> QED BY <1>1, <1>2, <1>3, <1>4, <1>5, ReadyKeeps

LEMMA ComputeStartKeeps == WebInv /\ ComputeStart => WebInv'
<1> SUFFICES ASSUME WebInv, ComputeStart PROVE WebInv'
  OBVIOUS
<1>1. /\ call = "none" /\ songReady /\ asked' = FALSE /\ UNCHANGED <<cache, last, track>>
      /\ IF emu.quit THEN ReturnsEnd(emu)
         ELSE call' = "compute" /\ UNCHANGED <<emu, waiting, songReady, paused, status>>
  BY DEF ComputeStart, Playing, flags
<1>2. HasSong
  BY <1>1 DEF HasSong
<1>3. emu \in Emulator /\ Fetched(emu) /\ cache \in [Files -> FileStates]
  BY <1>2, SongIs
<1>4. /\ ~emu.isNew /\ emu.subsong \in Ranges[emu.loaded] \cup {-1, 0}
      /\ waiting \in BOOLEAN /\ songReady \in BOOLEAN /\ paused \in BOOLEAN /\ status \in -1..2
  BY <1>1 DEF WebInv, TypeOK, SampleInv, RangeInv
<1>5. cache' \in [Files -> FileStates] /\ Later(cache, cache')
  BY <1>1, <1>3 DEF Later
<1>6. emu' = emu /\ UNCHANGED <<waiting, songReady>> /\ call' \in {"none", "compute"}
  BY <1>1 DEF ReturnsEnd
<1>8. paused' \in BOOLEAN /\ status' \in -1..2
  <2>1. CASE emu.quit
    BY <1>1, <2>1 DEF ReturnsEnd, EndStatus
  <2>2. CASE ~emu.quit
    BY <1>1, <1>4, <2>2
  <2> QED BY <2>1, <2>2
<1>7. SampleInv' /\ DryRunInv' /\ RangeInv' /\ AskedInv'
  BY <1>1, <1>3, <1>4, <1>6 DEF SampleInv, DryRunInv, RangeInv, AskedInv
<1>9. /\ emu' \in Emulator /\ emu'.loaded = emu.loaded
      /\ waiting' \in BOOLEAN /\ songReady' \in BOOLEAN /\ asked' \in BOOLEAN
      /\ call' \in {"none", "init", "compute", "deliver"}
  BY <1>1, <1>3, <1>4, <1>6
<1> QED BY <1>1, <1>2, <1>5, <1>7, <1>8, <1>9, StepKeeps

LEMMA TrackTimeoutKeeps == WebInv /\ TrackTimeout => WebInv'
<1> SUFFICES ASSUME WebInv, TrackTimeout PROVE WebInv'
  OBVIOUS
<1>1. /\ call = "none" /\ songReady /\ status' = 1 /\ asked' = FALSE /\ paused' = TRUE
      /\ UNCHANGED <<emu, cache, waiting, songReady, last, track, call>>
  BY DEF TrackTimeout, Playing
<1>2. HasSong
  BY <1>1 DEF HasSong
<1>3. /\ emu \in Emulator /\ Fetched(emu) /\ cache \in [Files -> FileStates]
      /\ waiting \in BOOLEAN /\ songReady \in BOOLEAN
  BY <1>2, SongIs DEF WebInv, TypeOK
<1>4. cache' \in [Files -> FileStates] /\ Later(cache, cache')
  BY <1>1, <1>3 DEF Later
<1>5. SampleInv' /\ DryRunInv' /\ RangeInv' /\ AskedInv'
  BY <1>1, <1>3 DEF WebInv, SampleInv, DryRunInv, RangeInv, AskedInv
<1>6. /\ emu' \in Emulator /\ emu'.loaded = emu.loaded
      /\ waiting' \in BOOLEAN /\ songReady' \in BOOLEAN /\ paused' \in BOOLEAN /\ asked' \in BOOLEAN
  BY <1>1, <1>3
<1>7. call' \in {"none", "init", "compute", "deliver"} /\ status' \in -1..2
  BY <1>1
<1> QED BY <1>1, <1>2, <1>4, <1>5, <1>6, <1>7, StepKeeps

LEMMA ComputeStepKeeps ==
    ASSUME WebInv, NEW frame \in BOOLEAN, NEW silent \in BOOLEAN, ComputeStep(frame, silent)
    PROVE  WebInv'
<1> DEFINE m == Run1(emu, cache, frame, silent)
           w == Wanted(emu, cache)
           stop == w # {}
<1>1. /\ call = "compute" /\ Asks(w) /\ UNCHANGED <<last, track>>
      /\ \/ /\ m.isNew /\ emu' = m /\ call' = "deliver" /\ status' = 0
            /\ waiting' = stop /\ songReady' = ~stop /\ paused' = stop
         \/ ~m.isNew /\ m.quit /\ m.notReady /\ ReturnsRetry(m) /\ paused' = TRUE
         \/ ~m.isNew /\ m.quit /\ ~m.notReady /\ ReturnsEnd(m)
         \/ /\ ~m.isNew /\ ~m.quit /\ emu' = m
            /\ UNCHANGED <<flags, call, status>>
  BY DEF ComputeStep
<1>2. HasSong
  BY <1>1 DEF HasSong
<1>3. /\ emu \in Emulator /\ Fetched(emu) /\ cache \in [Files -> FileStates]
      /\ emu.loaded \in Songs
  BY <1>2, SongIs
<1>4. /\ m \in Emulator /\ Fetched(m) /\ m.loaded = emu.loaded /\ m.subsong = emu.subsong
      /\ (m.isNew = emu.isNew /\ m.fresh = emu.fresh) \/ (m.isNew /\ m.fresh /\ emu.filled # 0)
      /\ stop => m.quit /\ m.notReady /\ m.isNew = emu.isNew
  BY <1>3, Run1Is
<1>5. ~emu.isNew /\ emu.subsong \in Ranges[emu.loaded] \cup {-1, 0} /\ asked = FALSE
  BY <1>1 DEF WebInv, TypeOK, SampleInv, RangeInv, AskedInv
<1>6. cache' \in [Files -> FileStates] /\ Later(cache, cache')
  BY <1>1, <1>3, AsksLater
<1>7. asked' = stop /\ stop \in BOOLEAN
  BY <1>1, <1>5 DEF Asks
<1>8. /\ waiting \in BOOLEAN /\ songReady \in BOOLEAN /\ paused \in BOOLEAN /\ status \in -1..2
  BY DEF WebInv, TypeOK
<1> HIDE DEF m, w, stop
<1>9. m.subsong \in Ranges[m.loaded] \cup {-1, 0} /\ (m.isNew => m.fresh)
  BY <1>4, <1>5
<1>10. CASE m.isNew
  <2>1. ~stop
    BY <1>4, <1>5, <1>10
  <2>2. /\ emu' = m /\ call' = "deliver" /\ status' = 0 /\ waiting' = FALSE /\ songReady' = TRUE
        /\ paused' = FALSE /\ asked' = FALSE
    BY <1>1, <1>7, <1>10, <2>1
  <2>3. SampleInv' /\ DryRunInv' /\ RangeInv' /\ AskedInv'
    BY <1>4, <1>9, <2>2 DEF SampleInv, DryRunInv, RangeInv, AskedInv
  <2>4. /\ emu' \in Emulator /\ emu'.loaded = emu.loaded
        /\ waiting' \in BOOLEAN /\ songReady' \in BOOLEAN /\ paused' \in BOOLEAN /\ asked' \in BOOLEAN
    BY <1>4, <2>2
  <2>5. call' \in {"none", "init", "compute", "deliver"} /\ status' \in -1..2
    BY <2>2
  <2> QED BY <1>1, <1>2, <1>6, <2>3, <2>4, <2>5, StepKeeps
<1>11. CASE ~m.isNew /\ m.quit /\ m.notReady
  <2>1. ReturnsRetry(m) /\ paused' = TRUE
    BY <1>1, <1>11
  <2>2. paused' \in BOOLEAN /\ asked' \in BOOLEAN
    BY <1>7, <2>1
  <2> QED BY <1>1, <1>2, <1>4, <1>6, <1>11, <2>1, <2>2, RetryKeeps
<1>12. CASE ~m.isNew /\ m.quit /\ ~m.notReady
  <2>1. ReturnsEnd(m) /\ asked' = FALSE
    BY <1>1, <1>4, <1>7, <1>12
  <2>2. /\ emu' = m /\ call' = "none" /\ status' \in -1..2 /\ paused' = TRUE
        /\ UNCHANGED <<waiting, songReady>>
    BY <2>1 DEF ReturnsEnd, EndStatus
  <2>3. SampleInv' /\ DryRunInv' /\ RangeInv' /\ AskedInv'
    BY <1>4, <1>9, <1>12, <2>1, <2>2 DEF SampleInv, DryRunInv, RangeInv, AskedInv
  <2> QED BY <1>1, <1>2, <1>4, <1>6, <1>8, <2>1, <2>2, <2>3, StepKeeps
<1>13. CASE ~m.isNew /\ ~m.quit
  <2>1. emu' = m /\ UNCHANGED <<waiting, songReady, paused, call, status>> /\ asked' = FALSE
    BY <1>1, <1>4, <1>7, <1>13 DEF flags
  <2>2. SampleInv' /\ DryRunInv' /\ RangeInv' /\ AskedInv'
    BY <1>1, <1>4, <1>9, <1>13, <2>1 DEF SampleInv, DryRunInv, RangeInv, AskedInv
  <2> QED BY <1>1, <1>2, <1>4, <1>6, <1>8, <2>1, <2>2, StepKeeps
<1> QED BY <1>10, <1>11, <1>12, <1>13

LEMMA DeliverKeeps == WebInv /\ Deliver => WebInv'
<1> SUFFICES ASSUME WebInv, Deliver PROVE WebInv'
  OBVIOUS
<1> DEFINE n == [emu EXCEPT !.isNew = FALSE]
<1>1. /\ call = "deliver" /\ emu' = n /\ call' = "none"
      /\ UNCHANGED <<cache, waiting, songReady, paused, last, track, status, asked>>
  BY DEF Deliver, flags
<1>2. HasSong
  BY <1>1 DEF HasSong
<1>3. /\ emu \in Emulator /\ Fetched(emu) /\ cache \in [Files -> FileStates]
      /\ waiting \in BOOLEAN /\ songReady \in BOOLEAN /\ paused \in BOOLEAN /\ status \in -1..2
      /\ asked = FALSE
  BY <1>1, <1>2, SongIs DEF WebInv, TypeOK, AskedInv
<1>4. n \in Emulator
  BY <1>3 DEF Emulator
<1>5. /\ n.isNew = FALSE /\ n.loaded = emu.loaded /\ n.subsong = emu.subsong
      /\ n.output = emu.output /\ n.skip = emu.skip
  BY <1>3 DEF Emulator
<1> HIDE DEF n
<1>6. Fetched(n)
  BY <1>3, <1>5 DEF Fetched
<1>7. cache' \in [Files -> FileStates] /\ Later(cache, cache')
  BY <1>1, <1>3 DEF Later
<1>8. SampleInv' /\ DryRunInv' /\ RangeInv' /\ AskedInv'
  BY <1>1, <1>3, <1>5, <1>6 DEF WebInv, SampleInv, DryRunInv, RangeInv, AskedInv
<1>9. emu' \in Emulator /\ emu'.loaded = emu.loaded /\ call' \in {"none", "init", "compute", "deliver"}
  BY <1>1, <1>4, <1>5
<1>10. waiting' \in BOOLEAN /\ songReady' \in BOOLEAN /\ paused' \in BOOLEAN /\ asked' \in BOOLEAN
  BY <1>1, <1>3
<1> QED BY <1>1, <1>2, <1>3, <1>7, <1>8, <1>9, <1>10, StepKeeps

LEMMA WebInvStep == WebInv /\ [Next]_vars => WebInv'
<1> SUFFICES ASSUME WebInv, [Next]_vars PROVE WebInv'
  OBVIOUS
<1>1. CASE \E s \in Songs, t \in Tracks : PlaySong(s, t)
  BY <1>1, PlayKeeps
<1>2. CASE TogglePause
  BY <1>2, TogglePauseKeeps
<1>3. CASE \E f \in Files : FileArrives(f) \/ FileFails(f)
  BY <1>3, FileArrivesKeeps, FileFailsKeeps
<1>4. CASE \E frame, silent \in BOOLEAN : DryRunStep(frame, silent) \/ ComputeStep(frame, silent)
  BY <1>4, DryRunStepKeeps, ComputeStepKeeps
<1>5. CASE DryRunEnds
  BY <1>5, DryRunEndsKeeps
<1>6. CASE ComputeStart
  BY <1>6, ComputeStartKeeps
<1>7. CASE TrackTimeout
  BY <1>7, TrackTimeoutKeeps
<1>8. CASE Deliver
  BY <1>8, DeliverKeeps
<1>9. CASE UNCHANGED vars
  <2>1. UNCHANGED <<emu, cache, waiting, songReady, paused, last, track, call, status, asked>>
    BY <1>9 DEF vars, flags
  <2>2. TypeOK' /\ SampleInv' /\ DryRunInv' /\ RangeInv' /\ AskedInv'
    BY <2>1 DEF WebInv, TypeOK, SampleInv, DryRunInv, RangeInv, AskedInv
  <2>3. SongInv'
    BY <2>1 DEF WebInv, SongInv, HasSong, Ready, Absent, Answer
  <2> QED BY <2>2, <2>3 DEF WebInv
<1> QED BY <1>1, <1>2, <1>3, <1>4, <1>5, <1>6, <1>7, <1>8, <1>9 DEF Next

-----------------------------------------------------------------------------
(* What every behaviour has.                                               *)

\* The strengthened invariant: the last song can be reset at any time once it
\* was initialised, samples wait for nobody, and a dry run has made no sound.
THEOREM WebInvariant == Spec => []WebInv
<1>1. Init => WebInv
  BY WebInvInit
<1>2. WebInv /\ [Next]_vars => WebInv'
  BY WebInvStep
<1> QED BY <1>1, <1>2, PTL DEF Spec

\* Every variable of the player and of the emulator's globals keeps its type,
\* and no call runs in the emulator without a song in memory.
THEOREM WebTypeCorrect == Spec => []TypeOK
<1>1. WebInv => TypeOK
  BY DEF WebInv
<1> QED BY <1>1, WebInvariant, PTL

\* Whatever a call did besides, if it asked for a file that is still to come,
\* emu_init() or emu_compute_audio_samples() answers -1 and the player retries.
THEOREM PendingRetried == Spec => []PendingIsRetried
<1>1. WebInv => PendingIsRetried
  BY DEF WebInv, AskedInv, PendingIsRetried
<1> QED BY <1>1, WebInvariant, PTL

\* However late files arrive and for whichever song, the one that makes sound
\* is the last the page asked for, and no samples of its dry run are taken.
THEOREM LastSongSounds == Spec => []SoundIsOfLastSong
<1>1. WebInv => SoundIsOfLastSong
  BY DEF WebInv, SongInv, SampleInv, HasSong, SoundIsOfLastSong
<1> QED BY <1>1, WebInvariant, PTL

\* emu_set_subsong() brings the page's track into the range of the song that is
\* in memory, never of the one played before.
THEOREM SubsongsInRange == Spec => []SubsongInRange
<1>1. WebInv => SubsongInRange
  BY DEF WebInv, RangeInv, SubsongInRange
<1> QED BY <1>1, WebInvariant, PTL
=============================================================================
