------------------------------- MODULE SongDb -------------------------------
(***************************************************************************)
(* The two databases that all frontends of a user share as files           *)
(* (frontends/common/songdb.c): the content db, in which playtimes are     *)
(* kept, and song.conf, into which a frontend writes the options of a      *)
(* song.  Each is protected by lockf() only while one call lasts.          *)
(*                                                                         *)
(* The lines of the content db have different lengths and a save writes    *)
(* over the old file without truncating it: the file is a sequence of      *)
(* cells (an md5, a digit, a newline).  The lines of song.conf are whole.  *)
(* A missing file is an empty one.                                         *)
(***************************************************************************)
EXTENDS Integers, SequencesExt

CONSTANTS
    Processes,
    Songs,   \* numbers, in the order of their md5
    Times,   \* the playtimes each song may have, as sequences of digits
    Options, \* what may be set for a song
    None,
    Calls    \* how many calls a process makes that uses one file or the other

ASSUME SongDbAssumption ==
    /\ Songs \subseteq Nat /\ None \notin Processes \cup Options
    /\ Calls \in [{"db", "conf"} -> Nat]
    /\ \A s \in Songs : Times[s] \subseteq Seq(0..9) \ {<<>>}

VARIABLES
    db,   \* the content db: cells
    conf, \* song.conf: lines [song, option]
    lock, \* who has locked each of the two
    proc, \* the processes: see Fresh
    hist  \* history: see Init

vars == <<db, conf, lock, proc, hist>>

\* file: the file that a process uses.  The two share nothing but the code of
\* their locks, so all processes of a behaviour use the same.
\* loaded: contentchecksums # NULL; mem: its entries; modified: ccmodified; buf: what
\* the call in progress has still to write.  own is history: the playtimes that
\* the process has determined itself.
Fresh(file, calls) ==
    [pc |-> "idle", op |-> "none", file |-> file, loaded |-> FALSE, mem |-> <<>>, modified |-> FALSE,
     buf |-> <<>>, own |-> {}, calls |-> calls]

\* torn: the files that a process died over while it wrote; clash: two updates of
\* song.conf were under way at once; saved: the entries of the last save; wanted:
\* the options of the updates that are over.
Init ==
    /\ db = <<>> /\ conf = <<>>
    /\ lock = [db |-> None, conf |-> None]
    /\ \E file \in {"db", "conf"} : proc = [p \in Processes |-> Fresh(file, Calls[file])]
    /\ hist = [torn |-> {}, clash |-> FALSE, saved |-> {}, wanted |-> [s \in Songs |-> None]]

-----------------------------------------------------------------------------
(* Files and locks.                                                        *)

\* A process that closes any descriptor of a file loses its lock of it.
Unlocked(p, f) == [lock EXCEPT ![f] = IF @ = p THEN None ELSE @]

\* The content of a file after a write at an offset.
Overwritten(file, offset, new) ==
    [i \in 1 .. (IF Len(file) > offset + Len(new) THEN Len(file) ELSE offset + Len(new)) |->
        IF i > offset /\ i <= offset + Len(new) THEN new[i - offset] ELSE file[i]]

\* The call begins: open().  Variant: the file is opened in a mode that truncates it.
OpenTruncating(p, op) ==
    /\ proc[p].pc = "idle" /\ proc[p].calls > 0
    /\ proc' = [proc EXCEPT ![p].pc = "lock", ![p].op = op, ![p].calls = @ - 1]
    /\ db' = IF op = "save" THEN <<>> ELSE db
    /\ UNCHANGED <<conf, lock, hist>>

Open(p, op) ==
    /\ proc[p].pc = "idle" /\ proc[p].calls > 0
    /\ proc' = [proc EXCEPT ![p].pc = "lock", ![p].op = op, ![p].calls = @ - 1]
    /\ UNCHANGED <<db, conf, lock, hist>>

\* lockf() waits.  Variant: there is no lock, as on Cygwin.
NotLocked(p) ==
    /\ proc[p].pc = "lock"
    /\ proc' = [proc EXCEPT ![p].pc = "locked"]
    /\ UNCHANGED <<db, conf, lock, hist>>

Lock(p) ==
    /\ proc[p].pc = "lock" /\ lock[proc[p].file] \in {None, p}
    /\ lock' = [lock EXCEPT ![proc[p].file] = p]
    /\ proc' = [proc EXCEPT ![p].pc = "locked"]
    /\ UNCHANGED <<db, conf, hist>>

Holds(p, op) == proc[p].pc = "locked" /\ proc[p].op = op

\* The file cannot be opened, or lockf() fails, and the call has done nothing: a
\* read has created its empty database before, and an update goes on without a
\* descriptor until ftruncate() fails.
OpenFails(p) ==
    /\ proc[p].pc = "lock"
    /\ proc' = [proc EXCEPT ![p].pc = "idle", ![p].op = "none", ![p].loaded = @ \/ proc[p].op = "read"]
    /\ UNCHANGED <<db, conf, lock, hist>>

-----------------------------------------------------------------------------
(* The content db.                                                         *)

Newline == <<"newline">>
Line(e) == <<<<"md5", e.song>>>> \o [i \in DOMAIN e.time |-> <<"digit", e.time[i]>>] \o <<Newline>>

\* A line is accepted if it begins with an md5 and goes on with a number.
Accepted(line) ==
    /\ Len(line) >= 2 /\ line[1][1] = "md5"
    /\ \A i \in 2..Len(line) : line[i][1] = "digit"
Entry(line) == [song |-> line[1][2], time |-> [i \in 1..Len(line)-1 |-> line[i+1][2]]]

\* The line that begins at place k, without its newline.
EndOf(cells, k) ==
    CHOOSE j \in k..Len(cells)+1 :
        /\ j > Len(cells) \/ cells[j] = Newline
        /\ \A i \in k..j-1 : cells[i] # Newline
LineAt(cells, k) == SubSeq(cells, k, EndOf(cells, k)-1)

\* The entries of a file, in some order: they are sorted next.
Starts(cells) ==
    {k \in DOMAIN cells : (k = 1 \/ cells[k-1] = Newline) /\ Accepted(LineAt(cells, k))}
Entries(cells) ==
    LET starts == SetToSeq(Starts(cells))
    IN  [n \in DOMAIN starts |-> Entry(LineAt(cells, starts[n]))]

Matches(mem, song) == {i \in DOMAIN mem : mem[i].song = song}

Sorted(mem) == \A i, j \in DOMAIN mem : i < j => mem[i].song <= mem[j].song

\* qsort(): the order of equal entries is not specified.
Sortings(mem) ==
    {m \in {[i \in DOMAIN mem |-> mem[f[i]]] : f \in Bijection(DOMAIN mem, DOMAIN mem)} : Sorted(m)}

\* store_playtime(): "We value a playtime determined during run-time over a database
\* value".  Variant: an entry that is in memory is replaced.
NewestWins(mem, read) ==
    SelectSeq(mem, LAMBDA e : \A i \in DOMAIN read : read[i].song # e.song) \o read

store_playtimes(mem, read) ==
    LET new == SetToSeq({i \in DOMAIN read : Matches(mem, read[i].song) = {}})
    IN  mem \o [n \in DOMAIN new |-> read[new[n]]]

\* Variant: the file is not closed.
ReadUnclosed(p) ==
    /\ Holds(p, "read")
    /\ \E read \in {Entries(db)} : \E merged \in {store_playtimes(proc[p].mem, read)} : \E m \in Sortings(merged) :
          proc' = [proc EXCEPT ![p].pc = "idle", ![p].op = "none", ![p].loaded = TRUE, ![p].mem = m,
                               ![p].modified = @ \/ (proc[p].mem # <<>> /\ Len(m) > Len(proc[p].mem))]
    /\ UNCHANGED <<db, conf, lock, hist>>

uade_read_content_db(p) ==
    /\ Holds(p, "read")
    /\ \E read \in {Entries(db)} : \E merged \in {store_playtimes(proc[p].mem, read)} : \E m \in Sortings(merged) :
          proc' = [proc EXCEPT ![p].pc = "idle", ![p].op = "none", ![p].loaded = TRUE, ![p].mem = m,
                               ![p].modified = @ \/ (proc[p].mem # <<>> /\ Len(m) > Len(proc[p].mem))]
    /\ lock' = Unlocked(p, "db")
    /\ UNCHANGED <<db, conf, hist>>

\* A song has been played for so long.  Variant: a new entry is left
\* at the end.
Determined(p, song, time) == {e \in proc[p].own : e.song # song} \cup {[song |-> song, time |-> time]}

AddedUnsorted(mem, song, time) == {Append(mem, [song |-> song, time |-> time])}

Added(mem, song, time) ==
    IF Matches(mem, song) # {}
    THEN {[mem EXCEPT ![i].time = time] : i \in Matches(mem, song)}
    ELSE Sortings(Append(mem, [song |-> song, time |-> time]))

uade_add_playtime(p, song, time) ==
    /\ proc[p].pc = "idle" /\ proc[p].calls > 0 /\ proc[p].loaded
    /\ \E m \in Added(proc[p].mem, song, time) :
          proc' = [proc EXCEPT ![p].calls = @ - 1, ![p].own = Determined(p, song, time), ![p].mem = m,
                               ![p].modified = @ \/ m # proc[p].mem]
    /\ UNCHANGED <<db, conf, lock, hist>>

\* The text of the entries, one line after the other.  Offset: how many cells there
\* are before a line.
Offset(mem, i) == Cardinality(UNION {{j} \X DOMAIN Line(mem[j]) : j \in 1..i-1})
LineOf(mem, k) == CHOOSE i \in DOMAIN mem : Offset(mem, i) < k /\ k <= Offset(mem, i+1)
CellOf(mem, k) == LET i == LineOf(mem, k) IN Line(mem[i])[k - Offset(mem, i)]
Text(mem) ==
    LET size == Offset(mem, Len(mem)+1)
    IN  SubSeq([k \in 1..size |-> CellOf(mem, k)], 1, size)

\* uade_save_content_db(): fdopen(fd, "w") leaves the file as it is, and stdio
\* writes from its beginning, in pieces that know nothing of lines.
SaveSome(p) ==
    /\ Holds(p, "save")
    /\ \E cells \in {Text(proc[p].mem)} : \E n \in 1..Len(cells)-1 :
          /\ db' = Overwritten(db, 0, SubSeq(cells, 1, n))
          /\ proc' = [proc EXCEPT ![p].pc = "rest", ![p].buf = SubSeq(cells, n+1, Len(cells))]
    /\ UNCHANGED <<conf, lock, hist>>

SaveRest(p) ==
    /\ proc[p].pc = "rest"
    /\ \E offset \in {Len(Text(proc[p].mem)) - Len(proc[p].buf)} :
          db' = Overwritten(db, offset, proc[p].buf)
    /\ proc' = [proc EXCEPT ![p].pc = "idle", ![p].op = "none", ![p].buf = <<>>, ![p].modified = FALSE]
    /\ lock' = Unlocked(p, "db")
    /\ hist' = [hist EXCEPT !.saved = ToSet(proc[p].mem)]
    /\ UNCHANGED conf

-----------------------------------------------------------------------------
(* song.conf: uade_update_song_conf() with the same file for input and     *)
(* output.                                                                 *)

\* The first line of the song goes, and a new one is appended.  Variant: the old
\* line stays.
OldLineStays(lines, song, option) == Append(lines, [song |-> song, option |-> option])

Updated(lines, song, option) ==
    LET old == {i \in DOMAIN lines : lines[i].song = song}
        kept == IF old = {} THEN lines ELSE RemoveAt(lines, CHOOSE i \in old : \A j \in old : i <= j)
    IN  Append(kept, [song |-> song, option |-> option])

\* atomic_read_file() opens and closes the file, which ends the lock.
ReadConf(p) ==
    /\ Holds(p, "update")
    /\ \E s \in Songs, o \in Options :
          proc' = [proc EXCEPT ![p].pc = "truncate", ![p].buf = Updated(conf, s, o)]
    /\ lock' = Unlocked(p, "conf")
    /\ hist' = [hist EXCEPT !.clash = @ \/ \E q \in Processes : proc[q].pc \in {"truncate", "write"}]
    /\ UNCHANGED <<db, conf>>

Truncate(p) ==
    /\ proc[p].pc = "truncate"
    /\ conf' = <<>>
    /\ proc' = [proc EXCEPT ![p].pc = "write"]
    /\ UNCHANGED <<db, lock, hist>>

WriteConf(p) ==
    /\ proc[p].pc = "write"
    /\ conf' = Overwritten(conf, 0, proc[p].buf)
    /\ proc' = [proc EXCEPT ![p].pc = "idle", ![p].op = "none", ![p].buf = <<>>]
    /\ lock' = Unlocked(p, "conf")
    /\ hist' = [hist EXCEPT !.wanted[Last(proc[p].buf).song] = Last(proc[p].buf).option]
    /\ UNCHANGED db

\* song.conf, or the song, whose md5 is needed, cannot be read.
UpdateFails(p) ==
    /\ Holds(p, "update") \/ proc[p].pc = "truncate"
    /\ proc' = [proc EXCEPT ![p].pc = "idle", ![p].op = "none", ![p].buf = <<>>]
    /\ lock' = Unlocked(p, "conf")
    /\ UNCHANGED <<db, conf, hist>>

-----------------------------------------------------------------------------

\* A process ends, in an orderly way or not, and another is started.
Exit(p) ==
    /\ proc[p] # Fresh(proc[p].file, proc[p].calls)
    /\ proc' = [proc EXCEPT ![p] = Fresh(proc[p].file, proc[p].calls)]
    /\ lock' = [f \in DOMAIN lock |-> Unlocked(p, f)[f]]
    /\ hist' = [hist EXCEPT !.torn = @ \cup (IF proc[p].pc \in {"rest", "write"} THEN {proc[p].file} ELSE {})]
    /\ UNCHANGED <<db, conf>>

Call(p) ==
    \/ proc[p].file = "db" /\ Open(p, "read")
    \/ proc[p].modified /\ Open(p, "save")
    \/ proc[p].file = "conf" /\ Open(p, "update")
    \/ \E s \in Songs : \E t \in Times[s] : uade_add_playtime(p, s, t)

Return(p) ==
    \/ Lock(p) \/ uade_read_content_db(p) \/ SaveSome(p) \/ SaveRest(p)
    \/ ReadConf(p) \/ Truncate(p) \/ WriteConf(p) \/ UpdateFails(p)

Next == \E p \in Processes : Call(p) \/ Return(p) \/ OpenFails(p) \/ Exit(p)

\* A process runs; which calls it makes, and when it ends, is its own affair.  Nothing
\* says that open() or lockf() ever fails: who waits for a lock may have to wait on.
Spec == Init /\ [][Next]_vars /\ \A p \in Processes : WF_vars(Return(p))

-----------------------------------------------------------------------------
(* What must hold.                                                         *)

\* Types; and get_content() searches by bisection, so the entries are in order
\* whatever has been merged or added.
DbEntry == [song : Songs, time : Seq(0..9)]
TypeOK ==
    /\ db \in Seq({Newline} \cup ({"md5"} \X Songs) \cup ({"digit"} \X (0..9)))
    /\ conf \in Seq([song : Songs, option : Options])
    /\ lock \in [{"db", "conf"} -> Processes \cup {None}]
    /\ \A p \in Processes :
          /\ proc[p].pc \in {"idle", "lock", "locked", "rest", "truncate", "write"}
          /\ proc[p].op \in {"none", "read", "save", "update"}
          /\ proc[p].mem \in Seq(DbEntry) /\ Sorted(proc[p].mem) /\ (proc[p].loaded \/ proc[p].mem = <<>>)
          /\ proc[p].modified \in BOOLEAN /\ proc[p].own \subseteq DbEntry /\ proc[p].calls \in 0..Calls[proc[p].file]

\* No playtime is put together from pieces of two: what is in memory is a playtime
\* of its song, though saves write over longer and shorter files.  The exception
\* is a file that a process died over.
EntriesAreReal ==
    "db" \notin hist.torn =>
        \A p \in Processes : \A i \in DOMAIN proc[p].mem : proc[p].mem[i].time \in Times[proc[p].mem[i].song]

\* What was saved last can be read until something else is saved.
SavedIsThere ==
    lock.db = None /\ "db" \notin hist.torn => hist.saved \subseteq ToSet(Entries(db))

\* A process that has determined a playtime finds it again, whatever it reads, if
\* it has one entry of the song: a file may hold two, see README.
OwnTimeIsFound ==
    \A p \in Processes : \A e \in proc[p].own : \A i \in DOMAIN proc[p].mem :
        Matches(proc[p].mem, e.song) = {i} => proc[p].mem[i] = e

\* An option that was set stays, once, in song.conf, unless another update read the
\* file before this one wrote it: the lock does not last so long.
OptionIsKept ==
    (~hist.clash /\ "conf" \notin hist.torn /\ \A p \in Processes : proc[p].pc # "write") =>
        \A s \in Songs :
            IF hist.wanted[s] = None
            THEN Matches(conf, s) = {}
            ELSE \E i \in DOMAIN conf : Matches(conf, s) = {i} /\ conf[i].option = hist.wanted[s]

\* Every call returns, also those that wait for a lock.
CallsReturn == \A p \in Processes : proc[p].pc # "idle" ~> proc[p].pc = "idle"
=============================================================================
