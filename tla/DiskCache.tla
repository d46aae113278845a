----------------------------- MODULE DiskCache -----------------------------
(***************************************************************************)
(* internal/go/cache/cache.go: the cache directory that every golangci-    *)
(* lint process of a user shares.  An index file per action ID names an    *)
(* output ID; a data file per output ID holds the output.  Processes and   *)
(* goroutines Put, GetBytes and Trim without a common lock, and may be     *)
(* killed between any two system calls.                                    *)
(*                                                                         *)
(* An output ID is the hash of its content, so a value stands for both.    *)
(* A data file is known by how it compares with its value: "full" is the   *)
(* value, "short" fewer bytes, "corrupt" as many but other bytes, "long"   *)
(* more.  An index file is "bad" if it is not one well-formed entry.  A    *)
(* modification time is a tick of the clock.                               *)
(***************************************************************************)
EXTENDS Integers, FiniteSets

CONSTANTS
    Procs,         \* concurrent users of the directory
    Ids,           \* action IDs
    Values,        \* outputs
    Zero,          \* the output of length zero, if it is among them
    Produces,      \* the outputs an action may have
    Leftovers,     \* what earlier processes may have left of a data file
    MtimeInterval, TrimInterval, TrimLimit,
    Start,         \* the time at first
    Ages,          \* the times of what is there at first
    MaxTime,       \* bound on the clock
    MaxCalls,      \* bound on the calls
    Worlds         \* the sets of things that may happen besides Put and GetBytes

Contents == {"absent", "empty", "short", "full", "corrupt", "long"}
NoEntry  == {"absent", "bad"}

\* Calls fail, processes are killed, trim or are suspended, time passes, and
\* some data files were longer than their outputs from the beginning.
Happenings == {"io", "crash", "trim", "slow", "time", "damage"}

ASSUME CacheAssumption ==
    /\ Zero \subseteq Values
    /\ Produces \in [Ids -> SUBSET Values]
    /\ Leftovers \subseteq Contents
    /\ Values \cap NoEntry = {}
    /\ {MtimeInterval, TrimInterval, TrimLimit, Start, MaxTime, MaxCalls} \subseteq Nat
    /\ MtimeInterval > 0
    /\ Start <= MaxTime /\ Ages \subseteq 0 .. Start
    /\ Worlds \subseteq SUBSET Happenings

VARIABLES
    world,             \* what may happen here
    data, dataTime,    \* the data files and their modification times
    index, indexTime,  \* the index files: "absent", "bad" or an output ID
    trimTxt,           \* the time in trim.txt, or -1
    now,               \* the clock
    pc,                \* where each process is
    job,               \* the action ID and the value it works on
    seen,              \* what os.Stat said of the data file's length
    orphan,            \* processes whose open file was removed
    cut,               \* processes whose open file was truncated by another
    scan,              \* files that a trimming process still has to look at
    victim,            \* the file that it found old and removes next
    taken,             \* the time that Trim or markUsed took
    calls,             \* calls made so far
    answer,            \* the last answer of each process
    written,           \* values that Put was called with, by action ID
    kept,              \* calls of Put that returned without error
    opened             \* when OutputFile last returned having found a value, or -1

files == <<data, dataTime, index, indexTime>>
local == <<job, seen, scan, victim, taken>>
fds   == <<orphan, cut>>
hist  == <<written, kept, opened>>
vars  == <<world, files, trimTxt, now, pc, local, fds, calls, answer, hist>>

None == "none"

Init ==
    /\ world \in Worlds
    /\ data \in [Values -> Leftovers]
    /\ \A v \in Zero : data[v] \in {"absent", "full", "long"}
    /\ index \in [Ids -> NoEntry \cup Values]
    /\ \A i \in Ids : index[i] \in NoEntry \cup Produces[i]
    /\ \A v \in Values : data[v] = "long" => "damage" \in world
    /\ \E t \in Ages : /\ dataTime = [v \in Values |-> IF data[v] = "absent" THEN 0 ELSE t]
                      /\ indexTime = [i \in Ids |-> IF index[i] = "absent" THEN 0 ELSE t]
    /\ trimTxt = -1
    /\ now = Start
    /\ pc = [p \in Procs |-> "idle"]
    /\ job = [p \in Procs |-> [id |-> None, val |-> None]]
    /\ seen = [p \in Procs |-> None]
    /\ orphan = {} /\ cut = {}
    /\ scan = [p \in Procs |-> {}] /\ victim = [p \in Procs |-> {}] /\ taken = [p \in Procs |-> 0]
    /\ calls = 0
    /\ answer = [p \in Procs |-> None]
    /\ written = [i \in Ids |-> {index[i]} \cap Values]
    /\ kept = {}
    /\ opened = [v \in Values |-> -1]

Goto(p, from, to) == pc[p] = from /\ pc' = [pc EXCEPT ![p] = to]

Call(p, to) ==
    /\ Goto(p, "idle", to)
    /\ calls < MaxCalls
    /\ calls' = calls + 1

\* The call returns.
Return(p, from, a) == Goto(p, from, "idle") /\ answer' = [answer EXCEPT ![p] = a]

Val(p) == job[p].val
Id(p)  == job[p].id

\* A file of length zero.
Blank(v) == IF v \in Zero THEN "full" ELSE "empty"

SetData(v, c)  == data' = [data EXCEPT ![v] = c] /\ dataTime' = [dataTime EXCEPT ![v] = now]
SetIndex(i, c) == index' = [index EXCEPT ![i] = c] /\ indexTime' = [indexTime EXCEPT ![i] = now]
SameData  == UNCHANGED <<data, dataTime>>
SameIndex == UNCHANGED <<index, indexTime>>

\* Whoever has the data file, the index file open.
Writers(v)  == {p \in Procs : pc[p] \in {"prefix", "last"} /\ Val(p) = v}
Indexers(i) == {p \in Procs : pc[p] = "entry" /\ Id(p) = i}

\* os.Remove and f.Truncate(0): whoever has the file open writes in vain, or
\* leaves a hole where its first bytes were.
RemoveData(v) ==
    /\ data' = [data EXCEPT ![v] = "absent"] /\ dataTime' = [dataTime EXCEPT ![v] = 0]
    /\ orphan' = orphan \cup Writers(v)
    /\ UNCHANGED cut
RemoveIndex(i) ==
    /\ index' = [index EXCEPT ![i] = "absent"] /\ indexTime' = [indexTime EXCEPT ![i] = 0]
    /\ orphan' = orphan \cup Indexers(i)
    /\ UNCHANGED cut
TruncateData(p, v) == SetData(v, Blank(v)) /\ cut' = (cut \cup Writers(v)) \ {p}

\* markUsed: a file that was not marked for an interval is to be marked as
\* used.  os.Chtimes is a best effort, and its error is ignored.
Stale(t) == now - t >= MtimeInterval
Marked(t, at) == {at} \cup (IF "io" \in world THEN {t} ELSE {})

-----------------------------------------------------------------------------
(* Put: copyFile, then putIndexEntry.                                      *)

Put(p, i, v) ==
    /\ Call(p, "stat")
    /\ v \in Produces[i]
    /\ job' = [job EXCEPT ![p] = [id |-> i, val |-> v]]
    /\ written' = [written EXCEPT ![i] = @ \cup {v}]
    /\ UNCHANGED <<world, files, trimTxt, now, seen, fds, scan, victim, taken, answer, kept, opened>>

\* os.Stat(name): a file of the right length is looked at more closely.
Stat(p) ==
    LET c    == data[Val(p)]
        same == c \in {"full", "corrupt"}
    IN  /\ Goto(p, "stat", IF same THEN "check" ELSE "open")
        /\ seen' = [seen EXCEPT ![p] = IF c = "long" THEN "long" ELSE "short"]
        /\ UNCHANGED <<world, files, trimTxt, now, job, fds, scan, victim, taken, calls, answer, hist>>

\* The hash of what is there: the right output needs no copy.
Check(p) ==
    /\ Goto(p, "check", IF data[Val(p)] = "full" THEN "index" ELSE "open")
    /\ UNCHANGED <<world, files, trimTxt, now, local, fds, calls, answer, hist>>

\* A file cannot be read or opened.
GivesUp(p) ==
    /\ "io" \in world
    /\ \E from \in {"check", "open", "index"} : Return(p, from, "error")
    /\ UNCHANGED <<world, files, trimTxt, now, local, fds, calls, hist>>

\* os.OpenFile with O_CREATE, and with O_TRUNC only if the file was too long.
MutTruncates(p) == TRUE
Truncates(p) == seen[p] = "long"

Open(p) ==
    LET v == Val(p)
    IN  /\ Goto(p, "open", IF v \in Zero THEN "index" ELSE "prefix")
        /\ CASE data[v] = "absent" -> SetData(v, Blank(v)) /\ cut' = cut \ {p}
             [] data[v] # "absent" /\ Truncates(p) -> TruncateData(p, v)
             [] OTHER -> SameData /\ cut' = cut \ {p}
        /\ orphan' = orphan \ {p}
        /\ SameIndex
        /\ UNCHANGED <<world, trimTxt, now, local, calls, answer, hist>>

\* io.CopyN of all bytes but the last, over what is there.
WritePrefix(p) ==
    LET v == Val(p)
    IN  /\ Goto(p, "prefix", "last")
        /\ IF p \in orphan THEN SameData
           ELSE \E c \in CASE data[v] \in {"empty", "short"} -> {"short"}
                           [] data[v] = "corrupt"           -> {"corrupt", "full"}
                           [] OTHER                         -> {data[v]} : SetData(v, c)
        /\ SameIndex
        /\ UNCHANGED <<world, trimTxt, now, local, fds, calls, answer, hist>>

\* The last byte gives the file its length, and completes it unless the first
\* bytes are gone.
WriteLast(p) ==
    LET v == Val(p)
    IN  /\ Goto(p, "last", "close")
        /\ IF p \in orphan THEN SameData
           ELSE \E c \in CASE data[v] \in {"full", "long"} -> {data[v]}
                           [] data[v] = "empty"           -> {"corrupt"}
                           [] OTHER -> {"full"} \cup (IF p \in cut THEN {"corrupt"} ELSE {}) :
                  SetData(v, c)
        /\ SameIndex
        /\ UNCHANGED <<world, trimTxt, now, local, fds, calls, answer, hist>>

\* A failed write: a best-effort attempt to truncate the file.
WriteFails(p) ==
    /\ "io" \in world
    /\ \E from \in {"prefix", "last"} : Return(p, from, "error")
    /\ \/ p \notin orphan /\ TruncateData(p, Val(p))
       \/ SameData /\ UNCHANGED cut
    /\ SameIndex
    /\ UNCHANGED <<world, trimTxt, now, local, orphan, calls, hist>>

\* f.Close and os.Chtimes, which fails if the file is gone.
CloseData(p) ==
    LET there == data[Val(p)] # "absent"
    IN  /\ pc[p] = "close"
        /\ IF there
           THEN Goto(p, "close", "index") /\ SetData(Val(p), data[Val(p)]) /\ UNCHANGED answer
           ELSE Return(p, "close", "error") /\ SameData
        /\ SameIndex
        /\ UNCHANGED <<world, trimTxt, now, local, fds, calls, hist>>

\* f.Close fails: the file is removed.
CloseFails(p) ==
    /\ "io" \in world
    /\ Return(p, "close", "error")
    /\ RemoveData(Val(p))
    /\ SameIndex
    /\ UNCHANGED <<world, trimTxt, now, local, calls, hist>>

\* putIndexEntry: the file is opened, and truncated only after the write.
OpenIndex(p) ==
    LET i == Id(p)
    IN  /\ Goto(p, "index", "entry")
        /\ IF index[i] = "absent" THEN SetIndex(i, "bad") ELSE SameIndex
        /\ orphan' = orphan \ {p}
        /\ SameData
        /\ UNCHANGED <<world, trimTxt, now, local, cut, calls, answer, hist>>

WriteEntry(p) ==
    /\ Goto(p, "entry", "touch")
    /\ IF p \in orphan THEN SameIndex ELSE SetIndex(Id(p), Val(p))
    /\ SameData
    /\ UNCHANGED <<world, trimTxt, now, local, fds, calls, answer, hist>>

\* A failed write removes the index file, whoever has written it meanwhile.
EntryFails(p) ==
    /\ "io" \in world
    /\ Return(p, "entry", "error")
    /\ RemoveIndex(Id(p))
    /\ SameData
    /\ UNCHANGED <<world, trimTxt, now, local, calls, hist>>

\* os.Chtimes, and Put returns.
PutReturns(p) ==
    LET there == index[Id(p)] # "absent"
    IN  /\ Return(p, "touch", IF there THEN "stored" ELSE "error")
        /\ IF there
           THEN /\ SetIndex(Id(p), index[Id(p)])
                /\ kept' = kept \cup {<<Id(p), Val(p)>>}
           ELSE SameIndex /\ UNCHANGED kept
        /\ SameData
        /\ UNCHANGED <<world, trimTxt, now, local, fds, calls, written, opened>>

-----------------------------------------------------------------------------
(* GetBytes.                                                               *)

\* get: an index file that is not exactly one entry is a miss; a good one
\* is marked as used, here in the same step.
Get(p, i) ==
    LET hit == index[i] \in Values
    IN  /\ Call(p, IF hit THEN "output" ELSE "idle")
        /\ job' = [job EXCEPT ![p] = [id |-> i, val |-> IF hit THEN index[i] ELSE None]]
        /\ answer' = [answer EXCEPT ![p] = IF hit THEN @ ELSE "missing"]
        /\ IF hit /\ Stale(indexTime[i])
           THEN \E t \in Marked(indexTime[i], now) : indexTime' = [indexTime EXCEPT ![i] = t]
           ELSE UNCHANGED indexTime
        /\ SameData
        /\ UNCHANGED <<world, index, trimTxt, now, seen, fds, scan, victim, taken, hist>>

\* OutputFile calls markUsed on the data file: os.Stat, and the time is taken.
OutputFile(p) ==
    LET v     == Val(p)
        there == data[v] # "absent"
        mark  == there /\ Stale(dataTime[v])
    IN  /\ Goto(p, "output", IF mark THEN "mark" ELSE "read")
        /\ taken' = IF mark THEN [taken EXCEPT ![p] = now] ELSE taken
        /\ opened' = IF there /\ ~mark THEN [opened EXCEPT ![v] = now] ELSE opened
        /\ UNCHANGED <<world, files, trimTxt, now, job, seen, scan, victim, fds, calls, answer, written, kept>>

\* os.Chtimes with the time that was taken; the file may be gone meanwhile.
MarkUsed(p) ==
    LET v == Val(p)
    IN  /\ Goto(p, "mark", "read")
        /\ IF data[v] = "absent" THEN UNCHANGED <<dataTime, opened>>
           ELSE /\ \E t \in Marked(dataTime[v], taken[p]) : dataTime' = [dataTime EXCEPT ![v] = t]
                /\ opened' = [opened EXCEPT ![v] = now]
        /\ SameIndex
        /\ UNCHANGED <<world, data, trimTxt, now, local, fds, calls, answer, written, kept>>

\* The checksum decides what counts as the value.
MutChecksumOk(v) == data[v] # "absent"
ChecksumOk(v) == data[v] = "full"

ReadData(p) ==
    LET v == Val(p)
    IN  /\ Return(p, "read", IF ~ChecksumOk(v) THEN "missing"
                             ELSE IF data[v] = "full" THEN v ELSE "garbage")
        /\ UNCHANGED <<world, files, trimTxt, now, local, fds, calls, hist>>

-----------------------------------------------------------------------------
(* Trim, which Close calls.                                                *)

\* The last trim is recent, or a little in the future.
SkipTrim(t) == trimTxt >= 0 /\ t - trimTxt < TrimInterval /\ t - trimTxt > -MtimeInterval

Entries == (Values \X {"d"}) \cup (Ids \X {"a"})

\* The first look at trim.txt takes no exclusive lock.
Trim(p) ==
    /\ "trim" \in world
    /\ Call(p, IF SkipTrim(now) THEN "idle" ELSE "transform")
    /\ taken' = [taken EXCEPT ![p] = now]
    /\ UNCHANGED <<world, files, trimTxt, now, job, seen, fds, scan, victim, answer, hist>>

\* lockedfile.Transform looks again and writes the time before the trim.
MutTransform(p) ==
    /\ Goto(p, "transform", "trim")
    /\ trimTxt' = taken[p]
    /\ scan' = [scan EXCEPT ![p] = Entries]
    /\ UNCHANGED <<world, files, now, job, seen, fds, victim, taken, calls, answer, hist>>
Transform(p) ==
    LET skip == SkipTrim(taken[p])
    IN  /\ Goto(p, "transform", IF skip THEN "idle" ELSE "trim")
        /\ trimTxt' = IF skip THEN trimTxt ELSE taken[p]
        /\ scan' = [scan EXCEPT ![p] = IF skip THEN {} ELSE Entries]
        /\ UNCHANGED <<world, files, now, job, seen, fds, victim, taken, calls, answer, hist>>

\* An error of the file system does not keep Trim from trimming.
TransformFails(p) ==
    /\ "io" \in world
    /\ Goto(p, "transform", "trim")
    /\ scan' = [scan EXCEPT ![p] = Entries]
    /\ UNCHANGED <<world, files, trimTxt, now, job, seen, fds, victim, taken, calls, answer, hist>>

\* info.ModTime().Before(cutoff); the times are up to an interval behind.
MutCutoff(p) == taken[p] - TrimLimit
Cutoff(p) == taken[p] - TrimLimit - MtimeInterval

Old(p, e) ==
    IF e[2] = "d" THEN data[e[1]] # "absent" /\ dataTime[e[1]] < Cutoff(p)
    ELSE index[e[1]] # "absent" /\ indexTime[e[1]] < Cutoff(p)

\* os.Stat of the next file: one that is old enough is removed next.
TrimStat(p) ==
    /\ pc[p] = "trim"
    /\ \E e \in scan[p] :
          /\ scan' = [scan EXCEPT ![p] = @ \ {e}]
          /\ IF Old(p, e)
             THEN Goto(p, "trim", "remove") /\ victim' = [victim EXCEPT ![p] = {e}]
             ELSE UNCHANGED <<pc, victim>>
    /\ UNCHANGED <<world, files, trimTxt, now, job, seen, fds, taken, calls, answer, hist>>

\* os.Remove.
TrimRemove(p) ==
    /\ Goto(p, "remove", "trim")
    /\ \E e \in victim[p] :
          IF e[2] = "d" THEN RemoveData(e[1]) /\ SameIndex
          ELSE RemoveIndex(e[1]) /\ SameData
    /\ victim' = [victim EXCEPT ![p] = {}]
    /\ UNCHANGED <<world, trimTxt, now, job, seen, scan, taken, calls, answer, hist>>

TrimReturns(p) ==
    /\ scan[p] = {}
    /\ Return(p, "trim", "trimmed")
    /\ UNCHANGED <<world, files, trimTxt, now, local, fds, calls, hist>>

-----------------------------------------------------------------------------

\* The process is killed.
Crash(p) ==
    /\ "crash" \in world
    /\ pc[p] \notin {"idle", "dead"}
    /\ pc' = [pc EXCEPT ![p] = "dead"]
    /\ UNCHANGED <<world, files, trimTxt, now, local, fds, calls, answer, hist>>

\* Unless it is slow, a process uses the time that it took within mtimeInterval,
\* to decide whether to trim or to mark a file.
Tick ==
    /\ "time" \in world /\ now < MaxTime
    /\ \/ "slow" \in world
       \/ \A p \in Procs : pc[p] \in {"transform", "mark"} => now + 1 - taken[p] < MtimeInterval
    /\ now' = now + 1
    /\ UNCHANGED <<world, files, trimTxt, pc, local, fds, calls, answer, hist>>

Putting(p) ==
    \/ \E i \in Ids, v \in Values : Put(p, i, v)
    \/ Stat(p) \/ Check(p) \/ GivesUp(p) \/ Open(p) \/ WritePrefix(p) \/ WriteLast(p) \/ WriteFails(p)
    \/ CloseData(p) \/ CloseFails(p) \/ OpenIndex(p) \/ WriteEntry(p) \/ EntryFails(p)
    \/ PutReturns(p)

Getting(p) == (\E i \in Ids : Get(p, i)) \/ OutputFile(p) \/ MarkUsed(p) \/ ReadData(p)

Trimming(p) ==
    \/ Trim(p) \/ Transform(p) \/ TransformFails(p)
    \/ TrimStat(p) \/ TrimRemove(p) \/ TrimReturns(p)

Finished ==
    /\ \A p \in Procs : pc[p] = "dead" \/ (pc[p] = "idle" /\ calls = MaxCalls)
    /\ UNCHANGED vars

Next ==
    \/ \E p \in Procs : Putting(p) \/ Getting(p) \/ Trimming(p) \/ Crash(p)
    \/ Tick
    \/ Finished

Spec == Init /\ [][Next]_vars

-----------------------------------------------------------------------------
\* Every variable keeps its type; an index file names an output that its
\* action may have, whoever wrote it last; no file is newer than the clock.
TypeOK ==
    /\ data \in [Values -> Contents]
    /\ \A i \in Ids : index[i] \in NoEntry \cup Produces[i]
    /\ dataTime \in [Values -> 0 .. now] /\ indexTime \in [Ids -> 0 .. now]
    /\ now \in 0 .. MaxTime /\ trimTxt \in -1 .. now
    /\ orphan \subseteq Procs /\ cut \subseteq Procs
    /\ calls \in 0 .. MaxCalls

\* Whatever earlier processes left, whoever writes, truncates, removes or dies
\* meanwhile: GetBytes answers with a miss or with an output that was stored
\* for this action (content addressing and the checksum).
ReadsAreWritten ==
    \A p \in Procs :
        pc[p] = "idle" /\ answer[p] \notin {None, "missing", "stored", "error", "trimmed"}
            => answer[p] \in UNION {written[i] : i \in Ids \cap {Id(p)}}

\* "Truncating only after writing ensures that a second write of the same
\* content to the same file is idempotent, and does not - even temporarily! -
\* undo the effect of the first write": what a Put has stored stays readable
\* for everybody while others store the same, even if they are killed half-way
\* or had found a shorter file before.  Only failing calls, trims and the O_TRUNC
\* for a file that was too long may undo a Put, and the index entry goes to the
\* last of several outputs.
StoredStaysReadable ==
    world \cap {"io", "trim", "damage"} = {} => \A i \in Ids, v \in Values : <<i, v>> \in kept =>
        /\ data[v] = "full"
        /\ index[i] \in Values
        /\ Cardinality(written[i]) = 1 => index[i] = v

\* The time is written before the trim and looked at again under the lock:
\* no two processes trim on behalf of the same trimInterval.  A process that is
\* suspended for mtimeInterval between the two looks would set trim.txt back,
\* and a failing call would leave it: these are left out.
OneTrimPerInterval ==
    world \cap {"io", "slow"} = {} => \A p, q \in Procs :
        p # q /\ {pc[p], pc[q]} \subseteq {"trim", "remove"} =>
            \/ taken[p] - taken[q] >= TrimInterval
            \/ taken[q] - taken[p] >= TrimInterval

\* markUsed updates a time at most once per interval, and Trim allows for it:
\* when Trim decides to remove a data file, no OutputFile has returned it since
\* trimLimit before the trim began.  Left out are a failing os.Chtimes, which
\* markUsed ignores, and a process that is suspended for mtimeInterval between
\* the two calls of markUsed and then sets the time of a file back.
TrimSparesRead ==
    [][world \cap {"io", "slow"} = {} => \A p \in Procs, v \in Values :
          pc[p] = "trim" /\ pc'[p] = "remove" /\ victim'[p] = {<<v, "d">>}
              => opened[v] < taken[p] - TrimLimit]_vars
=============================================================================
