-------------------------- MODULE DiskCacheProofs --------------------------
(***************************************************************************)
(* What the cache directory guarantees to any number of processes, for any *)
(* action IDs and outputs, whatever was left there, whoever is killed and  *)
(* whichever calls fail.                                                   *)
(***************************************************************************)
EXTENDS DiskCache, FiniteSetTheorems, TLAPS

Storing == {"stat", "check", "open", "prefix", "last", "close", "index", "entry", "touch"}
Reading == {"output", "mark", "read"}
Pruning == {"transform", "trim", "remove"}

Words == {None, "missing", "stored", "error", "trimmed"}

FilesType ==
    /\ world \in Worlds
    /\ data \in [Values -> Contents] /\ dataTime \in [Values -> Nat]
    /\ index \in [Ids -> NoEntry \cup Values] /\ indexTime \in [Ids -> Nat]
    /\ now \in Nat /\ now <= MaxTime /\ calls \in Nat /\ calls <= MaxCalls
    /\ trimTxt \in Int /\ trimTxt >= -1 /\ trimTxt <= now
    /\ \A v \in Values : dataTime[v] <= now
    /\ \A i \in Ids : indexTime[i] <= now
    /\ written \in [Ids -> SUBSET Values]
    /\ opened \in [Values -> Int]
    /\ kept \subseteq Ids \X Values

ProcType ==
    /\ pc \in [Procs -> {"idle", "dead"} \cup Storing \cup Reading \cup Pruning]
    /\ job \in [Procs -> [id : Ids \cup {None}, val : Values \cup {None}]]
    /\ \A p \in Procs : pc[p] \in Storing \cup Reading => Id(p) \in Ids /\ Val(p) \in written[Id(p)]
    /\ seen \in [Procs -> {None, "long", "short"}]
    /\ scan \in [Procs -> SUBSET Entries] /\ victim \in [Procs -> SUBSET Entries]
    /\ taken \in [Procs -> Nat] /\ \A p \in Procs : taken[p] <= now
    /\ answer \in [Procs -> Values \cup Words]
    /\ orphan \subseteq Procs /\ cut \subseteq Procs

\* An index file names what somebody has stored for its action, and an answer
\* is what somebody has stored for the action that was asked for.
WriteInv ==
    /\ \A i \in Ids : index[i] \in NoEntry \cup written[i]
    /\ \A i \in Ids : written[i] \subseteq Produces[i] /\ IsFiniteSet(written[i])
    /\ \A p \in Procs : pc[p] \in {"idle"} \cup Pruning =>
            answer[p] \in Words \/ (Id(p) \in Ids /\ answer[p] \in written[Id(p)])

\* No file is removed or truncated: a data file only gains bytes, and it is
\* complete when the index entry is written.
CalmFiles ==
    /\ orphan = {} /\ cut = {}
    /\ \A v \in Values : data[v] # "long"
    /\ \A v \in Zero : data[v] \in {"absent", "full"}
CalmProc(p) ==
    /\ seen[p] # "long" /\ pc[p] \notin Pruning
    /\ pc[p] \in {"prefix", "last"} => data[Val(p)] # "absent"
    /\ pc[p] = "last" => data[Val(p)] # "empty"
    /\ pc[p] \in {"close", "index", "entry", "touch"} => data[Val(p)] = "full"
    /\ pc[p] = "entry" => index[Id(p)] # "absent"
    /\ pc[p] = "touch" => index[Id(p)] \in Values
CalmKept == \A i \in Ids, v \in Values : <<i, v>> \in kept =>
    data[v] = "full" /\ index[i] \in Values /\ v \in written[i]

Calm == world \cap {"io", "trim", "damage"} = {}
CalmInv == Calm => CalmFiles /\ (\A p \in Procs : CalmProc(p)) /\ CalmKept

\* No call fails, and nobody is suspended for mtimeInterval.
Timely == world \cap {"io", "slow"} = {}

\* A time that was taken is recent when it is used, and trim.txt only moves
\* forward, by an interval at least.
TrimInv == Timely =>
    /\ \A p \in Procs : pc[p] \in {"transform", "mark"} => now - taken[p] < MtimeInterval \/ taken[p] = now
    /\ \A p \in Procs : pc[p] \in {"trim", "remove"} => taken[p] <= trimTxt
    /\ OneTrimPerInterval

\* A data file is at most mtimeInterval older than its last use.
UseInv == \A v \in Values :
    opened[v] <= now /\ (Timely /\ data[v] # "absent" => opened[v] <= dataTime[v] + MtimeInterval)

IInv == FilesType /\ ProcType /\ WriteInv /\ CalmInv /\ TrimInv /\ UseInv
-----------------------------------------------------------------------------
USE CacheAssumption

\* The cache directory before any process has opened it.
LEMMA InitInv == Init => IInv
<1> SUFFICES ASSUME Init PROVE IInv
    OBVIOUS
<1>1. FilesType
    <2>1. PICK t \in Ages : /\ dataTime = [v \in Values |-> IF data[v] = "absent" THEN 0 ELSE t]
                            /\ indexTime = [i \in Ids |-> IF index[i] = "absent" THEN 0 ELSE t]
        BY DEF Init
    <2>2. t \in Nat /\ t <= Start /\ Start \in Nat
        OBVIOUS
    <2>3. /\ dataTime \in [Values -> Nat] /\ \A v \in Values : dataTime[v] <= Start
          /\ indexTime \in [Ids -> Nat] /\ \A i \in Ids : indexTime[i] <= Start
        BY <2>1, <2>2
    <2> QED
        BY <2>3 DEF Init, FilesType
<1>2. ProcType
    BY DEF Init, ProcType, Words, Storing, Reading, Pruning, Entries
<1>3. WriteInv
    <2>1. \A i \in Ids : IsFiniteSet({index[i]} \cap Values)
        BY FS_Singleton, FS_Subset
    <2> QED
        BY <2>1 DEF Init, WriteInv, Words, NoEntry
<1>4. CalmInv
    BY DEF Init, CalmInv, Calm, CalmFiles, CalmProc, CalmKept, Storing, Reading, Pruning, None
<1>5. TrimInv
    BY DEF Init, TrimInv, OneTrimPerInterval
<1>6. UseInv
    BY DEF Init, UseInv
<1> QED
    BY <1>1, <1>2, <1>3, <1>4, <1>5, <1>6 DEF IInv

\* Who has a data file open works on an output.
LEMMA JobType ==
    ASSUME FilesType, ProcType, NEW p \in Procs, pc[p] \in Storing \cup Reading
    PROVE  Id(p) \in Ids /\ Val(p) \in Values
BY DEF FilesType, ProcType, Id, Val

\* The types of the files.
LEMMA FilesStep ==
    ASSUME IInv, NEW p \in Procs, Putting(p) \/ Getting(p) \/ Trimming(p) \/ Crash(p)
    PROVE  FilesType'
<1> USE DEF IInv, Goto, Call, Return, SetData, SetIndex, SameData, SameIndex, files, hist
<1>1. pc[p] \in Storing \cup Reading => Id(p) \in Ids /\ Val(p) \in Values
    BY JobType
<1>2. ASSUME NEW i \in Ids, NEW v \in Values, Put(p, i, v) PROVE FilesType'
    BY <1>2 DEF Put, FilesType
<1>3. CASE Stat(p) \/ Check(p) \/ GivesUp(p) \/ ReadData(p) \/ Crash(p)
    BY <1>3 DEF Stat, Check, GivesUp, ReadData, Crash, FilesType
<1>4. CASE Open(p) \/ WriteFails(p)
    BY <1>1, <1>4 DEF Open, WriteFails, TruncateData, Blank, FilesType, Contents, Storing
<1>5. CASE WritePrefix(p) \/ WriteLast(p)
    BY <1>1, <1>5 DEF WritePrefix, WriteLast, FilesType, Contents, Storing
<1>6. CASE CloseData(p) \/ CloseFails(p)
    BY <1>1, <1>6 DEF CloseData, CloseFails, RemoveData, FilesType, Contents, Storing
<1>7. CASE OpenIndex(p) \/ WriteEntry(p) \/ EntryFails(p)
    BY <1>1, <1>7 DEF OpenIndex, WriteEntry, EntryFails, RemoveIndex, FilesType, NoEntry, Storing
<1>8. CASE PutReturns(p)
    BY <1>1, <1>8 DEF PutReturns, FilesType, NoEntry, Storing
<1>9. ASSUME NEW i \in Ids, Get(p, i) PROVE FilesType'
    BY <1>9 DEF Get, Marked, FilesType
<1>10. CASE OutputFile(p) \/ MarkUsed(p)
    <2>1. Val(p) \in Values /\ taken[p] \in Nat /\ taken[p] <= now
        BY <1>1, <1>10 DEF OutputFile, MarkUsed, ProcType, Reading
    <2>2. CASE OutputFile(p)
        BY <2>1, <2>2 DEF OutputFile, FilesType
    <2>3. CASE MarkUsed(p)
        BY <2>1, <2>3 DEF MarkUsed, Marked, FilesType
    <2> QED
        BY <1>10, <2>2, <2>3
<1>11. CASE Trim(p) \/ TransformFails(p) \/ TrimStat(p) \/ TrimReturns(p)
    BY <1>11 DEF Trim, TransformFails, TrimStat, TrimReturns, FilesType
<1>12. CASE Transform(p)
    BY <1>12 DEF Transform, FilesType, ProcType
<1>13. CASE TrimRemove(p)
    <2>1. PICK e \in victim[p] : IF e[2] = "d" THEN RemoveData(e[1]) /\ SameIndex
                                 ELSE RemoveIndex(e[1]) /\ SameData
        BY <1>13 DEF TrimRemove
    <2>2. e \in Entries
        BY DEF ProcType
    <2>3. \/ e[1] \in Values /\ RemoveData(e[1]) /\ SameIndex
          \/ e[1] \in Ids /\ RemoveIndex(e[1]) /\ SameData
        BY <2>1, <2>2 DEF Entries
    <2> QED
        BY <1>13, <2>3 DEF TrimRemove, RemoveData, RemoveIndex, FilesType, Contents, NoEntry
<1> QED
    BY <1>2, <1>3, <1>4, <1>5, <1>6, <1>7, <1>8, <1>9, <1>10, <1>11, <1>12, <1>13
    DEF Putting, Getting, Trimming

\* The types of what the processes keep.
LEMMA ProcStep ==
    ASSUME IInv, NEW p \in Procs, Putting(p) \/ Getting(p) \/ Trimming(p) \/ Crash(p)
    PROVE  ProcType'
<1> USE DEF IInv, Goto, Call, Return, SetData, SetIndex, SameData, SameIndex, files, fds, local, hist
<1>1. pc[p] \in Storing \cup Reading => Id(p) \in Ids /\ Val(p) \in Values
    BY JobType
<1>2. ASSUME NEW i \in Ids, NEW v \in Values, Put(p, i, v) PROVE ProcType'
    <2>1. \A q \in Procs : pc'[q] \in Storing \cup Reading => Id(q)' \in Ids /\ Val(q)' \in written'[Id(q)']
        BY <1>2 DEF Put, FilesType, ProcType, Id, Val, Storing, Reading
    <2> QED
        BY <1>2, <2>1 DEF Put, FilesType, ProcType, Storing
<1>3. ASSUME NEW i \in Ids, Get(p, i) PROVE ProcType'
    <2>1. index[i] \in Values => index[i] \in written[i]
        BY DEF WriteInv
    <2>2. \A q \in Procs : pc'[q] \in Storing \cup Reading => Id(q)' \in Ids /\ Val(q)' \in written'[Id(q)']
        BY <1>3, <2>1 DEF Get, FilesType, ProcType, Id, Val, Storing, Reading
    <2> QED
        BY <1>3, <2>2 DEF Get, FilesType, ProcType, Storing, Reading, Words
<1>4. ASSUME UNCHANGED <<job, written>>,
             pc'[p] \in {"idle", "dead"} \cup Pruning \/ pc[p] \in Storing \cup Reading,
             \A q \in Procs : q # p => pc'[q] = pc[q],
             pc' \in [Procs -> {"idle", "dead"} \cup Storing \cup Reading \cup Pruning]
      PROVE  \A q \in Procs : pc'[q] \in Storing \cup Reading => Id(q)' \in Ids /\ Val(q)' \in written'[Id(q)']
    BY <1>4 DEF ProcType, Id, Val, Storing, Reading, Pruning
<1>5. CASE Stat(p) \/ Check(p)
    BY <1>4, <1>5 DEF Stat, Check, ProcType, Storing
<1>6. ASSUME pc' \in [Procs -> {"idle", "dead"} \cup Storing \cup Reading \cup Pruning],
             answer' \in [Procs -> Values \cup Words],
             orphan' \subseteq Procs, cut' \subseteq Procs,
             pc'[p] \in {"idle", "dead"} \cup Pruning \/ pc[p] \in Storing \cup Reading,
             \A q \in Procs : q # p => pc'[q] = pc[q],
             UNCHANGED <<local, now, written>>
      PROVE  ProcType'
    BY <1>4, <1>6 DEF ProcType
<1>7. \A a \in Values \cup Words : [answer EXCEPT ![p] = a] \in [Procs -> Values \cup Words]
    BY DEF ProcType
<1>8. \A a \in {"idle", "dead"} \cup Storing \cup Reading \cup Pruning :
         /\ [pc EXCEPT ![p] = a] \in [Procs -> {"idle", "dead"} \cup Storing \cup Reading \cup Pruning]
         /\ [pc EXCEPT ![p] = a][p] = a /\ \A q \in Procs : q # p => [pc EXCEPT ![p] = a][q] = pc[q]
    BY DEF ProcType
<1>9. CASE \/ GivesUp(p) \/ ReadData(p) \/ Crash(p) \/ TrimReturns(p) \/ WriteFails(p) \/ CloseData(p)
           \/ CloseFails(p) \/ OpenIndex(p) \/ WriteEntry(p) \/ EntryFails(p) \/ PutReturns(p)
           \/ Open(p) \/ WritePrefix(p) \/ WriteLast(p)
    <2>1. orphan \subseteq Procs /\ cut \subseteq Procs /\ answer \in [Procs -> Values \cup Words]
        BY DEF ProcType
    <2>2. CASE GivesUp(p)
        BY <1>6, <1>7, <1>8, <2>1, <2>2 DEF GivesUp, Words
    <2>3. CASE ReadData(p)
        <3>1. PICK a : a = IF ~ChecksumOk(Val(p)) THEN "missing"
                           ELSE IF data[Val(p)] = "full" THEN Val(p) ELSE "garbage"
            OBVIOUS
        <3>2. a \in Values \cup Words
            BY <1>1, <2>3, <3>1 DEF ReadData, ChecksumOk, Reading, Words
        <3> QED
            BY <1>6, <1>7, <1>8, <2>1, <2>3, <3>1, <3>2 DEF ReadData
    <2>4. CASE Crash(p)
        BY <1>6, <1>8, <2>1, <2>4 DEF Crash
    <2>5. CASE TrimReturns(p)
        BY <1>6, <1>7, <1>8, <2>1, <2>5 DEF TrimReturns, Words
    <2>6. CASE WriteFails(p)
        BY <1>6, <1>7, <1>8, <2>1, <2>6 DEF WriteFails, TruncateData, Writers, Words
    <2>7. CASE CloseData(p)
        BY <1>6, <1>7, <1>8, <2>1, <2>7 DEF CloseData, Words, Storing
    <2>8. CASE CloseFails(p)
        BY <1>6, <1>7, <1>8, <2>1, <2>8 DEF CloseFails, RemoveData, Writers, Words
    <2>9. CASE OpenIndex(p) \/ WriteEntry(p)
        BY <1>6, <1>8, <2>1, <2>9 DEF OpenIndex, WriteEntry, Storing
    <2>10. CASE EntryFails(p)
        BY <1>6, <1>7, <1>8, <2>1, <2>10 DEF EntryFails, RemoveIndex, Indexers, Words
    <2>11. CASE PutReturns(p)
        BY <1>6, <1>7, <1>8, <2>1, <2>11 DEF PutReturns, Words
    <2>12. CASE Open(p) \/ WritePrefix(p) \/ WriteLast(p)
        BY <1>6, <1>8, <2>1, <2>12 DEF Open, WritePrefix, WriteLast, TruncateData, Writers, Storing
    <2> QED
        BY <1>9, <2>2, <2>3, <2>4, <2>5, <2>6, <2>7, <2>8, <2>9, <2>10, <2>11, <2>12
<1>10. CASE OutputFile(p) \/ MarkUsed(p)
    <2>1. CASE OutputFile(p)
        <3>1. taken' \in [Procs -> Nat] /\ \A q \in Procs : taken'[q] <= now'
            BY <2>1 DEF OutputFile, ProcType, FilesType
        <3> QED
            BY <1>4, <2>1, <3>1 DEF OutputFile, ProcType, Reading
    <2>2. CASE MarkUsed(p)
        BY <1>4, <2>2 DEF MarkUsed, ProcType, Reading
    <2> QED
        BY <1>10, <2>1, <2>2
<1>11. ASSUME pc' \in [Procs -> {"idle", "dead"} \cup Storing \cup Reading \cup Pruning],
              pc'[p] \in {"idle"} \cup Pruning,
              \A q \in Procs : q # p => pc'[q] = pc[q],
              scan' \in [Procs -> SUBSET Entries], victim' \in [Procs -> SUBSET Entries],
              taken' \in [Procs -> Nat], \A q \in Procs : taken'[q] <= now',
              UNCHANGED <<job, seen, orphan, cut, answer, written>>
       PROVE  ProcType'
    BY <1>4, <1>11 DEF ProcType
<1>12. CASE Trim(p) \/ Transform(p) \/ TransformFails(p) \/ TrimStat(p)
    <2>0. /\ scan \in [Procs -> SUBSET Entries] /\ victim \in [Procs -> SUBSET Entries]
          /\ taken \in [Procs -> Nat] /\ \A q \in Procs : taken[q] <= now
          /\ now \in Nat /\ pc \in [Procs -> {"idle", "dead"} \cup Storing \cup Reading \cup Pruning]
        BY DEF ProcType, FilesType
    <2>1. CASE Trim(p)
        <3>1. taken' \in [Procs -> Nat] /\ \A q \in Procs : taken'[q] <= now'
            BY <2>0, <2>1 DEF Trim
        <3> QED
            BY <1>8, <1>11, <2>0, <2>1, <3>1 DEF Trim, Pruning
    <2>2. CASE Transform(p)
        BY <1>8, <1>11, <2>0, <2>2 DEF Transform, Pruning
    <2>3. CASE TransformFails(p)
        BY <1>8, <1>11, <2>0, <2>3 DEF TransformFails, Pruning
    <2>4. CASE TrimStat(p)
        <3>1. PICK e \in scan[p] :
                /\ scan' = [scan EXCEPT ![p] = @ \ {e}]
                /\ IF Old(p, e)
                   THEN Goto(p, "trim", "remove") /\ victim' = [victim EXCEPT ![p] = {e}]
                   ELSE UNCHANGED <<pc, victim>>
            BY <2>4 DEF TrimStat
        <3>2. e \in Entries /\ pc[p] = "trim"
            BY <2>0, <2>4 DEF TrimStat
        <3>3. scan' \in [Procs -> SUBSET Entries]
            BY <2>0, <3>1
        <3>4. CASE Old(p, e)
            BY <1>8, <1>11, <2>0, <2>4, <3>1, <3>2, <3>3, <3>4 DEF TrimStat, Pruning
        <3>5. CASE ~Old(p, e)
            BY <1>11, <2>0, <2>4, <3>1, <3>2, <3>3, <3>5 DEF TrimStat, Pruning
        <3> QED
            BY <3>4, <3>5
    <2> QED
        BY <1>12, <2>1, <2>2, <2>3, <2>4
<1>13. CASE TrimRemove(p)
    <2>1. orphan' \subseteq Procs /\ UNCHANGED cut
        BY <1>13 DEF TrimRemove, RemoveData, RemoveIndex, Writers, Indexers, ProcType
    <2> QED
        BY <1>4, <1>13, <2>1 DEF TrimRemove, ProcType, Pruning
<1> QED
    BY <1>2, <1>3, <1>5, <1>9, <1>10, <1>12, <1>13
    DEF Putting, Getting, Trimming

\* What is stored for an action, and what is answered.
LEMMA WriteStep ==
    ASSUME IInv, NEW p \in Procs, Putting(p) \/ Getting(p) \/ Trimming(p) \/ Crash(p)
    PROVE  WriteInv'
<1> USE DEF IInv, Goto, Call, Return, SetIndex, SameIndex, files, local, hist
<1>1. pc[p] \in Storing \cup Reading => Id(p) \in Ids /\ Val(p) \in Values /\ Val(p) \in written[Id(p)]
    BY JobType DEF ProcType
<1>2. ASSUME NEW i \in Ids, NEW v \in Values, Put(p, i, v) PROVE WriteInv'
    <2>1. /\ written' = [written EXCEPT ![i] = @ \cup {v}] /\ v \in Produces[i]
          /\ UNCHANGED <<index, answer>> /\ \A q \in Procs : q # p => pc'[q] = pc[q] /\ job'[q] = job[q]
          /\ pc'[p] = "stat"
        BY <1>2 DEF Put, ProcType
    <2>2. \A j \in Ids : written[j] \subseteq written'[j] /\ written'[j] \subseteq written[j] \cup {v}
                         /\ (j # i => written'[j] = written[j])
        BY <2>1 DEF FilesType
    <2>3. \A j \in Ids : written'[j] \subseteq Produces[j]
        BY <2>1, <2>2 DEF WriteInv
    <2>4. \A j \in Ids : IsFiniteSet(written'[j])
        <3>1. IsFiniteSet(written[i] \cup {v})
            BY FS_AddElement DEF WriteInv
        <3>2. written'[i] = written[i] \cup {v}
            BY <2>1 DEF FilesType
        <3> QED
            BY <2>2, <3>1, <3>2 DEF WriteInv
    <2>5. \A q \in Procs : pc'[q] \in {"idle"} \cup Pruning =>
            answer'[q] \in Words \/ (Id(q)' \in Ids /\ answer'[q] \in written'[Id(q)'])
        BY <2>1, <2>2 DEF WriteInv, Id, Pruning
    <2>6. \A j \in Ids : index'[j] \in NoEntry \cup written'[j]
        BY <2>1, <2>2 DEF WriteInv
    <2> QED
        BY <2>3, <2>4, <2>5, <2>6 DEF WriteInv
<1>3. ASSUME NEW i \in Ids, Get(p, i) PROVE WriteInv'
    BY <1>3 DEF Get, WriteInv, ProcType, Id, Words, Reading, Pruning
<1>4. ASSUME UNCHANGED <<job, written>>,
             \A i \in Ids : index'[i] \in NoEntry \cup written[i],
             \A q \in Procs : q # p => pc'[q] = pc[q] /\ answer'[q] = answer[q],
             pc'[p] \in {"idle"} \cup Pruning =>
                \/ answer'[p] \in Words
                \/ Id(p) \in Ids /\ answer'[p] \in written[Id(p)]
                \/ pc[p] \in {"idle"} \cup Pruning /\ UNCHANGED answer
      PROVE  WriteInv'
    BY <1>4 DEF WriteInv, Id
<1>0. \A i \in Ids : index[i] \in NoEntry \cup written[i]
    BY DEF WriteInv
<1>5. CASE Stat(p) \/ Check(p) \/ Open(p) \/ WritePrefix(p) \/ WriteLast(p)
           \/ OutputFile(p) \/ MarkUsed(p) \/ Crash(p)
    BY <1>0, <1>4, <1>5 DEF Stat, Check, Open, WritePrefix, WriteLast, OutputFile, MarkUsed, Crash, ProcType, Storing, Reading, Pruning
<1>6. CASE GivesUp(p) \/ WriteFails(p) \/ CloseData(p) \/ CloseFails(p) \/ TrimReturns(p)
    BY <1>0, <1>4, <1>6 DEF GivesUp, WriteFails, CloseData, CloseFails, TrimReturns, ProcType, Storing, Words, Pruning
<1>7. CASE OpenIndex(p) \/ WriteEntry(p) \/ EntryFails(p) \/ PutReturns(p)
    <2>0. index \in [Ids -> NoEntry \cup Values] /\ answer \in [Procs -> Values \cup Words]
          /\ pc \in [Procs -> {"idle", "dead"} \cup Storing \cup Reading \cup Pruning]
        BY DEF FilesType, ProcType
    <2>1. CASE OpenIndex(p)
        BY <1>0, <1>1, <1>4, <2>0, <2>1 DEF OpenIndex, NoEntry, Storing, Pruning
    <2>2. CASE WriteEntry(p)
        BY <1>0, <1>1, <1>4, <2>0, <2>2 DEF WriteEntry, NoEntry, Storing, Pruning
    <2>3. CASE EntryFails(p)
        BY <1>0, <1>1, <1>4, <2>0, <2>3 DEF EntryFails, RemoveIndex, NoEntry, Words
    <2>4. CASE PutReturns(p)
        BY <1>0, <1>1, <1>4, <2>0, <2>4 DEF PutReturns, Words
    <2> QED
        BY <1>7, <2>1, <2>2, <2>3, <2>4
<1>8. CASE ReadData(p)
    BY <1>0, <1>1, <1>4, <1>8 DEF ReadData, ChecksumOk, ProcType, Reading, Words, Pruning
<1>9. CASE Trim(p) \/ Transform(p) \/ TransformFails(p) \/ TrimStat(p)
    BY <1>0, <1>4, <1>9 DEF Trim, Transform, TransformFails, TrimStat, ProcType, Pruning
<1>10. CASE TrimRemove(p)
    <2>1. PICK e \in victim[p] : IF e[2] = "d" THEN RemoveData(e[1]) /\ SameIndex
                                 ELSE RemoveIndex(e[1]) /\ SameData
        BY <1>10 DEF TrimRemove
    <2>2. e \in Entries
        BY DEF ProcType
    <2>3. \/ UNCHANGED index
          \/ e[1] \in Ids /\ index' = [index EXCEPT ![e[1]] = "absent"]
        BY <2>1, <2>2 DEF Entries, RemoveIndex
    <2>4. \A i \in Ids : index'[i] \in NoEntry \cup written[i]
        BY <1>0, <2>3 DEF FilesType, NoEntry
    <2> QED
        BY <1>4, <1>10, <2>4 DEF TrimRemove, ProcType, Pruning
<1> QED
    BY <1>2, <1>3, <1>5, <1>6, <1>7, <1>8, <1>9, <1>10
    DEF Putting, Getting, Trimming

\* What a calm step leaves of the files: nothing that was there is undone.
Monotone ==
    /\ \A v \in Values : /\ data[v] = "full" => data'[v] = "full"
                         /\ data[v] # "absent" => data'[v] # "absent"
                         /\ data[v] \notin {"absent", "empty"} => data'[v] \notin {"absent", "empty"}
    /\ \A i \in Ids : /\ index[i] # "absent" => index'[i] # "absent"
                      /\ index[i] \in Values => index'[i] \in Values
                      /\ written[i] \subseteq written'[i]

\* What other processes rely on survives such a step.
LEMMA CalmFrame ==
    ASSUME FilesType, ProcType, Monotone, NEW q \in Procs, CalmProc(q),
           pc'[q] = pc[q], job'[q] = job[q], seen'[q] = seen[q]
    PROVE  CalmProc(q)'
<1>1. pc[q] \in Storing \cup Reading => Id(q) \in Ids /\ Val(q) \in Values
    BY JobType
<1>2. {"prefix", "last", "close", "index", "entry", "touch"} \subseteq Storing
    BY DEF Storing
<1>3. Id(q)' = Id(q) /\ Val(q)' = Val(q)
    BY DEF Id, Val
<1>4. pc[q] \in {"prefix", "last"} => data'[Val(q)] # "absent"
    BY <1>1, <1>2 DEF Monotone, CalmProc
<1>5. pc[q] = "last" => data'[Val(q)] # "empty"
    BY <1>1, <1>2 DEF Monotone, CalmProc
<1>6. pc[q] \in {"close", "index", "entry", "touch"} => data'[Val(q)] = "full"
    BY <1>1, <1>2 DEF Monotone, CalmProc
<1>7. /\ pc[q] = "entry" => index'[Id(q)] # "absent"
      /\ pc[q] = "touch" => index'[Id(q)] \in Values
    BY <1>1, <1>2 DEF Monotone, CalmProc
<1> QED
    BY <1>3, <1>4, <1>5, <1>6, <1>7 DEF CalmProc

\* Without I/O errors, damage and trimming a step keeps every stored value readable.
LEMMA CalmStep ==
    ASSUME IInv, NEW p \in Procs, Putting(p) \/ Getting(p) \/ Trimming(p) \/ Crash(p)
    PROVE  CalmInv'
<1>0. UNCHANGED world
    BY DEF Putting, Getting, Trimming, Put, Stat, Check, GivesUp, Open, WritePrefix, WriteLast, WriteFails,
           CloseData, CloseFails, OpenIndex, WriteEntry, EntryFails, PutReturns, Get, OutputFile, MarkUsed, ReadData,
           Trim, Transform, TransformFails, TrimStat, TrimRemove, TrimReturns, Crash
<1> SUFFICES ASSUME Calm PROVE CalmFiles' /\ (\A q \in Procs : CalmProc(q)') /\ CalmKept'
    BY <1>0 DEF CalmInv, Calm
<1>1. /\ CalmFiles /\ (\A q \in Procs : CalmProc(q)) /\ CalmKept
      /\ FilesType /\ ProcType
    BY DEF IInv, CalmInv
<1>2. pc[p] \in Storing \cup Reading => Id(p) \in Ids /\ Val(p) \in Values
    BY <1>1, JobType
<1>3. "io" \notin world /\ "trim" \notin world
    BY DEF Calm
<1>4. pc[p] \notin Pruning /\ seen[p] # "long" /\ p \notin orphan /\ p \notin cut
    BY <1>1 DEF CalmProc, CalmFiles
<1>5. ASSUME Monotone, CalmFiles', CalmProc(p)', UNCHANGED kept,
             \A q \in Procs : q # p => pc'[q] = pc[q] /\ job'[q] = job[q] /\ seen'[q] = seen[q]
      PROVE  CalmFiles' /\ (\A q \in Procs : CalmProc(q)') /\ CalmKept'
    <2>1. ASSUME NEW q \in Procs, q # p PROVE CalmProc(q)'
        BY <1>1, <1>5, <2>1, CalmFrame
    <2>2. CalmKept'
        BY <1>1, <1>5 DEF CalmKept, Monotone
    <2> QED
        BY <1>5, <2>1, <2>2
<1>6. ASSUME UNCHANGED <<data, index>>, \A i \in Ids : written[i] \subseteq written'[i]
      PROVE  Monotone
    BY <1>6 DEF Monotone
<1>7. ASSUME NEW i \in Ids, NEW v \in Values, Put(p, i, v)
      PROVE  CalmFiles' /\ (\A q \in Procs : CalmProc(q)') /\ CalmKept'
    <2>1. Monotone
        BY <1>1, <1>6, <1>7 DEF Put, files, FilesType
    <2>2. CalmFiles' /\ UNCHANGED kept
        BY <1>1, <1>7 DEF Put, files, fds, CalmFiles
    <2>3. CalmProc(p)' /\ \A q \in Procs : q # p => pc'[q] = pc[q] /\ job'[q] = job[q] /\ seen'[q] = seen[q]
        BY <1>1, <1>4, <1>7 DEF Put, Call, Goto, ProcType, CalmProc, Pruning
    <2> QED
        BY <1>5, <2>1, <2>2, <2>3
<1>8. ASSUME NEW i \in Ids, Get(p, i)
      PROVE  CalmFiles' /\ (\A q \in Procs : CalmProc(q)') /\ CalmKept'
    <2>1. Monotone
        BY <1>6, <1>8 DEF Get, SameData, hist
    <2>2. CalmFiles' /\ UNCHANGED kept
        BY <1>1, <1>8 DEF Get, SameData, fds, hist, CalmFiles
    <2>3. CalmProc(p)' /\ \A q \in Procs : q # p => pc'[q] = pc[q] /\ job'[q] = job[q] /\ seen'[q] = seen[q]
        BY <1>1, <1>4, <1>8 DEF Get, Call, Goto, ProcType, CalmProc, Pruning
    <2> QED
        BY <1>5, <2>1, <2>2, <2>3
<1>9. CASE Stat(p) \/ Check(p) \/ ReadData(p) \/ Crash(p)
    <2>1. Monotone
        BY <1>6, <1>9 DEF Stat, Check, ReadData, Crash, files, hist
    <2>2. CalmFiles' /\ UNCHANGED kept
        BY <1>1, <1>9 DEF Stat, Check, ReadData, Crash, files, fds, hist, CalmFiles
    <2>3. data[Val(p)] # "long" \/ pc[p] \notin Storing
        BY <1>1, <1>2 DEF CalmFiles
    <2>4. CASE Stat(p)
        BY <1>1, <1>4, <1>5, <2>1, <2>2, <2>3, <2>4
        DEF Stat, Goto, files, ProcType, CalmProc, Pruning, Storing, Val, Id
    <2>5. CASE Check(p)
        BY <1>1, <1>4, <1>5, <2>1, <2>2, <2>5
        DEF Check, Goto, files, local, ProcType, CalmProc, Pruning, Val, Id
    <2>6. CASE ReadData(p) \/ Crash(p)
        BY <1>1, <1>4, <1>5, <2>1, <2>2, <2>6
        DEF ReadData, Crash, Return, Goto, files, local, ProcType, CalmProc, Pruning, Val, Id
    <2> QED
        BY <1>9, <2>4, <2>5, <2>6
<1>10. CASE Open(p) \/ WritePrefix(p) \/ WriteLast(p) \/ CloseData(p)
    <2>1. PICK v \in Values : v = Val(p)
        BY <1>2, <1>10 DEF Open, WritePrefix, WriteLast, CloseData, Goto, Storing
    <2>2. \/ SameData
          \/ \E c : SetData(v, c)
        BY <1>10, <2>1 DEF Open, WritePrefix, WriteLast, CloseData, TruncateData
    <2>3. /\ \A w \in Values : w # v => data'[w] = data[w]
          /\ UNCHANGED <<index, written, kept, job, seen>>
          /\ pc' = [pc EXCEPT ![p] = pc'[p]]
        BY <1>1, <1>10, <2>2 DEF Open, WritePrefix, WriteLast, CloseData, SetData, SameData, SameIndex, hist, local,
                                Goto, Return, FilesType, ProcType
    <2>4. /\ data[v] \in {"absent", "empty", "short", "full", "corrupt"}
          /\ data[v] = "long" => FALSE
          /\ v \in Zero => data[v] \in {"absent", "full"}
          /\ orphan = {} /\ cut = {}
        BY <1>1 DEF CalmFiles, FilesType, Contents
    <2>5. /\ data[v] = "full" => data'[v] = "full"
          /\ data[v] # "absent" => data'[v] # "absent"
          /\ data[v] \notin {"absent", "empty"} => data'[v] \notin {"absent", "empty"}
          /\ data'[v] # "long" /\ (v \in Zero => data'[v] \in {"absent", "full"})
          /\ orphan' = {} /\ cut' = {}
          /\ pc'[p] \notin Pruning
          /\ pc'[p] \in {"prefix", "last"} => data'[v] # "absent"
          /\ pc'[p] = "last" => data'[v] # "empty"
          /\ pc'[p] \in {"close", "index", "entry", "touch"} => data'[v] = "full"
          /\ pc'[p] \notin {"entry", "touch"}
        <3>1. CASE Open(p)
            BY <1>1, <1>4, <2>1, <2>4, <3>1
            DEF Open, Goto, SetData, SameData, Truncates, Blank, FilesType, ProcType, Pruning
        <3>2. CASE WritePrefix(p)
            BY <1>1, <1>4, <2>1, <2>4, <3>2
            DEF WritePrefix, Goto, SetData, SameData, fds, FilesType, ProcType, CalmProc, Pruning
        <3>3. CASE WriteLast(p)
            BY <1>1, <1>4, <2>1, <2>4, <3>3
            DEF WriteLast, Goto, SetData, SameData, fds, FilesType, ProcType, CalmProc, Pruning
        <3>4. CASE CloseData(p)
            BY <1>1, <1>4, <2>1, <2>4, <3>4
            DEF CloseData, Goto, Return, SetData, SameData, fds, FilesType, ProcType, CalmProc, Pruning
        <3> QED
            BY <1>10, <3>1, <3>2, <3>3, <3>4
    <2>6. Monotone
        BY <2>3, <2>5 DEF Monotone
    <2>7. CalmFiles'
        BY <1>1, <2>3, <2>5 DEF CalmFiles
    <2>8. CalmProc(p)'
        BY <1>4, <2>1, <2>3, <2>5 DEF CalmProc, Val
    <2> QED
        BY <1>1, <1>5, <2>3, <2>6, <2>7, <2>8 DEF ProcType
<1>11. CASE OpenIndex(p) \/ WriteEntry(p) \/ PutReturns(p)
    <2>1. PICK i \in Ids, v \in Values : i = Id(p) /\ v = Val(p) /\ v \in written[i]
        BY <1>1, <1>2, <1>11 DEF OpenIndex, WriteEntry, PutReturns, Return, Goto, Storing, ProcType
    <2>2. data[v] = "full"
        BY <1>1, <1>11, <2>1 DEF OpenIndex, WriteEntry, PutReturns, Return, Goto, CalmProc
    <2>3. /\ UNCHANGED <<data, written, job, seen, cut>>
          /\ orphan' = {}
          /\ pc' = [pc EXCEPT ![p] = pc'[p]]
        BY <1>1, <1>11 DEF OpenIndex, WriteEntry, PutReturns, Return, Goto, SameData, hist, local, fds, CalmFiles, ProcType
    <2>4. /\ \A j \in Ids : j # i => index'[j] = index[j]
          /\ index[i] # "absent" => index'[i] # "absent"
          /\ index[i] \in Values => index'[i] \in Values
          /\ pc'[p] \in {"idle", "entry", "touch"}
          /\ pc'[p] = "entry" => index'[i] # "absent"
          /\ pc'[p] = "touch" => index'[i] \in Values
          /\ kept' = kept \/ (kept' = kept \cup {<<i, v>>} /\ index'[i] \in Values)
        <3>1. v # "absent"
            BY DEF NoEntry
        <3>2. CASE OpenIndex(p)
            BY <1>1, <2>1, <3>1, <3>2 DEF OpenIndex, Goto, SetIndex, SameIndex, hist, FilesType, ProcType, NoEntry
        <3>3. CASE WriteEntry(p)
            BY <1>1, <1>4, <2>1, <3>1, <3>3 DEF WriteEntry, Goto, SetIndex, SameIndex, hist, FilesType, ProcType
        <3>4. CASE PutReturns(p)
            BY <1>1, <2>1, <3>1, <3>4 DEF PutReturns, Return, Goto, SetIndex, SameIndex, FilesType, ProcType, CalmProc
        <3> QED
            BY <1>11, <3>2, <3>3, <3>4
    <2>5. Monotone
        BY <2>3, <2>4 DEF Monotone
    <2>6. CalmFiles'
        BY <1>1, <2>3 DEF CalmFiles
    <2>7. CalmProc(p)'
        BY <1>4, <2>1, <2>2, <2>3, <2>4 DEF CalmProc, Val, Id, Pruning
    <2>8. ASSUME NEW q \in Procs, q # p PROVE CalmProc(q)'
        BY <1>1, <2>3, <2>5, <2>8, CalmFrame DEF ProcType
    <2>9. CalmKept'
        BY <1>1, <2>1, <2>2, <2>3, <2>4 DEF CalmKept
    <2> QED
        BY <2>6, <2>7, <2>8, <2>9
<1>12. CASE OutputFile(p) \/ MarkUsed(p)
    <2>1. Monotone
        BY <1>6, <1>12 DEF OutputFile, MarkUsed, SameIndex, files
    <2>2. CalmFiles' /\ UNCHANGED kept
        BY <1>1, <1>12 DEF OutputFile, MarkUsed, fds, files, CalmFiles
    <2>3. CalmProc(p)' /\ \A q \in Procs : q # p => pc'[q] = pc[q] /\ job'[q] = job[q] /\ seen'[q] = seen[q]
        BY <1>1, <1>4, <1>12 DEF OutputFile, MarkUsed, Goto, local, files, ProcType, CalmProc, Pruning
    <2> QED
        BY <1>5, <2>1, <2>2, <2>3
<1>13. ~(GivesUp(p) \/ WriteFails(p) \/ CloseFails(p) \/ EntryFails(p) \/ Trimming(p))
    BY <1>3, <1>4 DEF GivesUp, WriteFails, CloseFails, EntryFails, Trimming, Trim, Transform, TransformFails,
                      TrimStat, TrimRemove, TrimReturns, Return, Goto, Pruning
<1> QED
    BY <1>7, <1>8, <1>9, <1>10, <1>11, <1>12, <1>13 DEF Putting, Getting

\* The times of the data files.
LEMMA UseStep ==
    ASSUME IInv, NEW p \in Procs, Putting(p) \/ Getting(p) \/ Trimming(p) \/ Crash(p)
    PROVE  UseInv'
<1>0. FilesType /\ ProcType /\ UseInv /\ TrimInv
    BY DEF IInv
<1>w. UNCHANGED world
    BY DEF Putting, Getting, Trimming, Put, Stat, Check, GivesUp, Open, WritePrefix, WriteLast, WriteFails,
           CloseData, CloseFails, OpenIndex, WriteEntry, EntryFails, PutReturns, Get, OutputFile, MarkUsed, ReadData,
           Trim, Transform, TransformFails, TrimStat, TrimRemove, TrimReturns, Crash
<1>1. pc[p] \in Storing \cup Reading => Val(p) \in Values
    BY <1>0, JobType
<1>2. ASSUME UNCHANGED <<now, opened>>, SameData
      PROVE  UseInv'
    BY <1>0, <1>w, <1>2 DEF UseInv, Timely, SameData
<1>3. ASSUME NEW v \in Values, UNCHANGED <<now, opened>>, NEW c, SetData(v, c)
      PROVE  UseInv'
    BY <1>0, <1>w, <1>3 DEF UseInv, Timely, SetData, FilesType
<1>4. ASSUME NEW v \in Values, UNCHANGED <<now, opened>>, RemoveData(v)
      PROVE  UseInv'
    BY <1>0, <1>w, <1>4 DEF UseInv, Timely, RemoveData, FilesType
<1>5. CASE Open(p) \/ WritePrefix(p) \/ WriteLast(p) \/ CloseData(p) \/ WriteFails(p)
    <2>1. UNCHANGED <<now, opened>> /\ Val(p) \in Values
        BY <1>1, <1>5 DEF Open, WritePrefix, WriteLast, CloseData, WriteFails, Return, Goto, hist, Storing
    <2>2. SameData \/ \E c : SetData(Val(p), c)
        BY <1>5 DEF Open, WritePrefix, WriteLast, CloseData, WriteFails, TruncateData
    <2> QED
        BY <1>2, <1>3, <2>1, <2>2
<1>6. CASE CloseFails(p)
    <2>1. UNCHANGED <<now, opened>> /\ Val(p) \in Values
        BY <1>1, <1>6 DEF CloseFails, Return, Goto, hist, Storing
    <2> QED
        BY <1>4, <1>6, <2>1 DEF CloseFails
<1>7. ASSUME NEW v \in Values, UNCHANGED <<now, data>>, opened' = [opened EXCEPT ![v] = now],
             \A w \in Values : w # v => dataTime'[w] = dataTime[w],
             Timely => now <= dataTime'[v] + MtimeInterval
      PROVE  UseInv'
    <2>1. opened'[v] = now /\ now \in Nat /\ \A w \in Values : w # v => opened'[w] = opened[w]
        BY <1>0, <1>7 DEF FilesType
    <2>2. ASSUME NEW w \in Values
          PROVE  (opened[w] <= now /\ (Timely /\ data[w] # "absent" => opened[w] <= dataTime[w] + MtimeInterval))'
        BY <1>0, <1>w, <1>7, <2>1, <2>2 DEF UseInv, Timely
    <2> QED
        BY <2>2 DEF UseInv
<1>10. CASE OutputFile(p)
    <2>1. PICK v \in Values : v = Val(p)
        BY <1>1, <1>10 DEF OutputFile, Goto, Reading
    <2>2. UNCHANGED <<now, data, dataTime>>
        BY <1>10 DEF OutputFile, files
    <2>3. CASE UNCHANGED opened
        BY <1>2, <2>2, <2>3 DEF SameData
    <2>4. CASE ~Stale(dataTime[v]) /\ opened' = [opened EXCEPT ![v] = now]
        <3>1. now <= dataTime[v] + MtimeInterval
            BY <1>0, <2>4 DEF Stale, FilesType
        <3> QED
            BY <1>7, <2>2, <2>4, <3>1
    <2> QED
        BY <1>10, <2>1, <2>3, <2>4 DEF OutputFile
<1>11. CASE MarkUsed(p)
    <2>1. PICK v \in Values : v = Val(p)
        BY <1>1, <1>11 DEF MarkUsed, Goto, Reading
    <2>2. CASE data[v] = "absent"
        BY <1>2, <1>11, <2>1, <2>2 DEF MarkUsed, SameData
    <2>3. CASE data[v] # "absent"
        <3>1. PICK t \in Marked(dataTime[v], taken[p]) : dataTime' = [dataTime EXCEPT ![v] = t]
            BY <1>11, <2>1, <2>3 DEF MarkUsed
        <3>2. opened' = [opened EXCEPT ![v] = now] /\ UNCHANGED <<now, data>>
            BY <1>11, <2>1, <2>3 DEF MarkUsed
        <3>3. dataTime'[v] = t /\ \A w \in Values : w # v => dataTime'[w] = dataTime[w]
            BY <1>0, <3>1 DEF FilesType
        <3>4. ASSUME Timely PROVE now <= t + MtimeInterval
            <4>1. t = taken[p]
                BY <3>1, <3>4 DEF Marked, Timely
            <4>2. now - taken[p] < MtimeInterval \/ taken[p] = now
                BY <1>0, <1>11, <3>4 DEF MarkUsed, Goto, TrimInv
            <4>3. now \in Nat /\ taken[p] \in Nat /\ MtimeInterval \in Nat
                BY <1>0 DEF FilesType, ProcType
            <4> QED
                BY <4>1, <4>2, <4>3
        <3> QED
            BY <1>7, <3>2, <3>3, <3>4
    <2> QED
        BY <2>2, <2>3
<1>8. CASE TrimRemove(p)
    <2>1. PICK e \in victim[p] : IF e[2] = "d" THEN RemoveData(e[1]) /\ SameIndex
                                 ELSE RemoveIndex(e[1]) /\ SameData
        BY <1>8 DEF TrimRemove
    <2>2. e \in Entries
        BY <1>0 DEF ProcType
    <2>3. (e[1] \in Values /\ RemoveData(e[1])) \/ SameData
        BY <2>1, <2>2 DEF Entries
    <2>4. UNCHANGED <<now, opened>>
        BY <1>8 DEF TrimRemove, hist
    <2> QED
        BY <1>2, <1>4, <2>3, <2>4
<1>9. CASE \/ (\E i \in Ids, v \in Values : Put(p, i, v)) \/ (\E i \in Ids : Get(p, i))
           \/ Stat(p) \/ Check(p) \/ GivesUp(p) \/ OpenIndex(p) \/ WriteEntry(p) \/ EntryFails(p) \/ PutReturns(p)
           \/ ReadData(p) \/ Trim(p) \/ Transform(p) \/ TransformFails(p) \/ TrimStat(p) \/ TrimReturns(p) \/ Crash(p)
    BY <1>2, <1>9 DEF Put, Get, Stat, Check, GivesUp, OpenIndex, WriteEntry, EntryFails, PutReturns, ReadData, Trim,
                      Transform, TransformFails, TrimStat, TrimReturns, Crash, files, hist, SameData
<1> QED
    BY <1>5, <1>6, <1>8, <1>9, <1>10, <1>11 DEF Putting, Getting, Trimming

\* trim.txt.
LEMMA TrimStep ==
    ASSUME IInv, NEW p \in Procs, Putting(p) \/ Getting(p) \/ Trimming(p) \/ Crash(p)
    PROVE  TrimInv'
<1>0. FilesType /\ ProcType /\ TrimInv
    BY DEF IInv
<1>1. ASSUME UNCHANGED <<world, now, trimTxt, taken>>,
             \A q \in Procs : /\ pc'[q] \in {"transform", "mark"} => pc[q] \in {"transform", "mark"}
                              /\ pc'[q] \in {"trim", "remove"} => pc[q] \in {"trim", "remove"}
      PROVE  TrimInv'
    BY <1>1, <1>0 DEF TrimInv, Timely, OneTrimPerInterval
<1>2. ASSUME UNCHANGED <<world, now, trimTxt, taken>>, NEW to, pc' = [pc EXCEPT ![p] = to],
             to \in {"transform", "mark"} => pc[p] \in {"transform", "mark"},
             to \in {"trim", "remove"} => pc[p] \in {"trim", "remove"}
      PROVE  TrimInv'
    BY <1>0, <1>1, <1>2 DEF ProcType
<1>3. CASE Putting(p)
    <2>1. UNCHANGED <<world, now, trimTxt, taken>>
        BY <1>3 DEF Putting, Put, Stat, Check, GivesUp, Open, WritePrefix, WriteLast, WriteFails,
           CloseData, CloseFails, OpenIndex, WriteEntry, EntryFails, PutReturns, local
    <2>2. \E to : pc' = [pc EXCEPT ![p] = to] /\ to \notin {"transform", "mark", "trim", "remove"}
        <3>1. CASE (\E i \in Ids, v \in Values : Put(p, i, v)) \/ Stat(p) \/ Check(p) \/ Open(p) \/ CloseData(p)
            BY <3>1 DEF Put, Stat, Check, Open, CloseData, Call, Return, Goto
        <3>2. CASE \/ GivesUp(p) \/ WritePrefix(p) \/ WriteLast(p) \/ WriteFails(p) \/ CloseFails(p)
                   \/ OpenIndex(p) \/ WriteEntry(p) \/ EntryFails(p) \/ PutReturns(p)
            BY <3>2 DEF GivesUp, WritePrefix, WriteLast, WriteFails, CloseFails, OpenIndex, WriteEntry, EntryFails,
                        PutReturns, Return, Goto
        <3> QED
            BY <1>3, <3>1, <3>2 DEF Putting
    <2> QED
        BY <1>2, <2>1, <2>2
<1>4. CASE \/ (\E i \in Ids : Get(p, i)) \/ MarkUsed(p) \/ ReadData(p) \/ TrimReturns(p) \/ Crash(p)
           \/ (OutputFile(p) /\ UNCHANGED taken /\ pc' = [pc EXCEPT ![p] = "read"])
    BY <1>2, <1>4 DEF Get, OutputFile, MarkUsed, ReadData, TrimReturns, Crash, Call, Return, Goto, local
<1>5. CASE TrimStat(p)
    <2>1. UNCHANGED pc \/ pc' = [pc EXCEPT ![p] = "remove"]
        BY <1>5 DEF TrimStat, Goto
    <2>2. UNCHANGED <<world, now, trimTxt, taken>> /\ pc[p] = "trim"
        BY <1>5 DEF TrimStat
    <2> QED
        BY <1>1, <1>2, <2>1, <2>2
<1>6. CASE TrimRemove(p)
    BY <1>2, <1>6 DEF TrimRemove, Goto
<1>7. CASE TransformFails(p)
    BY <1>7 DEF TransformFails, TrimInv, Timely
<1>8. CASE Trim(p) \/ (OutputFile(p) /\ taken' = [taken EXCEPT ![p] = now] /\ pc' = [pc EXCEPT ![p] = "mark"])
    <2>1. UNCHANGED <<world, now, trimTxt>> /\ taken' = [taken EXCEPT ![p] = now]
          /\ pc' = [pc EXCEPT ![p] = pc'[p]] /\ pc'[p] \in {"idle", "transform", "mark"}
        BY <1>0, <1>8 DEF Trim, OutputFile, Call, Goto, ProcType
    <2>2. /\ taken'[p] = now /\ pc'[p] \notin {"trim", "remove"}
          /\ \A q \in Procs : q # p => taken'[q] = taken[q] /\ pc'[q] = pc[q]
        BY <1>0, <2>1 DEF ProcType
    <2> QED
        BY <1>0, <2>1, <2>2 DEF TrimInv, Timely, OneTrimPerInterval
<1>9. CASE Transform(p)
    <2>1. CASE SkipTrim(taken[p])
        BY <1>2, <1>9, <2>1 DEF Transform, Goto
    <2>2. CASE ~SkipTrim(taken[p])
        <3>1. /\ UNCHANGED <<world, now, taken>> /\ trimTxt' = taken[p]
              /\ pc[p] = "transform" /\ pc' = [pc EXCEPT ![p] = "trim"]
            BY <1>9, <2>2 DEF Transform, Goto
        <3>2. pc'[p] = "trim" /\ \A q \in Procs : q # p => pc'[q] = pc[q]
            BY <1>0, <3>1 DEF ProcType
        <3> SUFFICES ASSUME Timely
                     PROVE  /\ \A q \in Procs : pc'[q] \in {"transform", "mark"} => now - taken[q] < MtimeInterval \/ taken[q] = now
                            /\ \A q \in Procs : pc'[q] \in {"trim", "remove"} => taken[q] <= taken[p]
                            /\ OneTrimPerInterval'
            BY <3>1 DEF TrimInv, Timely
        <3>3. /\ \A q \in Procs : pc[q] \in {"transform", "mark"} => now - taken[q] < MtimeInterval \/ taken[q] = now
              /\ \A q \in Procs : pc[q] \in {"trim", "remove"} => taken[q] <= trimTxt
              /\ OneTrimPerInterval
            BY <1>0 DEF TrimInv
        <3>4. /\ now \in Nat /\ trimTxt \in Int /\ trimTxt >= -1 /\ trimTxt <= now
              /\ \A q \in Procs : taken[q] \in Nat /\ taken[q] <= now
              /\ MtimeInterval \in Nat /\ MtimeInterval > 0 /\ TrimInterval \in Nat
            BY <1>0 DEF FilesType, ProcType
        <3>5. now - taken[p] < MtimeInterval \/ taken[p] = now
            BY <3>1, <3>3
        <3>6. ~(trimTxt >= 0 /\ taken[p] - trimTxt < TrimInterval /\ taken[p] - trimTxt > -MtimeInterval)
            BY <2>2 DEF SkipTrim
        <3>7. trimTxt < 0 \/ taken[p] - trimTxt >= TrimInterval
            BY <3>4, <3>5, <3>6
        <3>8. ASSUME NEW q \in Procs, pc[q] \in {"trim", "remove"}
              PROVE  taken[q] <= taken[p] /\ taken[p] - taken[q] >= TrimInterval
            <4>1. taken[q] <= trimTxt
                BY <3>3, <3>8
            <4> QED
                BY <3>4, <3>7, <4>1
        <3>9. OneTrimPerInterval'
            <4> SUFFICES ASSUME NEW a \in Procs, NEW b \in Procs, a # b,
                                pc'[a] \in {"trim", "remove"}, pc'[b] \in {"trim", "remove"}
                         PROVE  \/ taken[a] - taken[b] >= TrimInterval
                                \/ taken[b] - taken[a] >= TrimInterval
                BY <3>1 DEF OneTrimPerInterval, Timely
            <4>1. CASE a = p
                BY <3>2, <3>8, <4>1
            <4>2. CASE b = p
                BY <3>2, <3>8, <4>2
            <4>3. CASE a # p /\ b # p
                BY <3>2, <3>3, <4>3 DEF OneTrimPerInterval, Timely
            <4> QED
                BY <4>1, <4>2, <4>3
        <3> QED
            BY <3>2, <3>3, <3>4, <3>8, <3>9
    <2> QED
        BY <2>1, <2>2
<1>10. ASSUME OutputFile(p)
       PROVE  \/ UNCHANGED taken /\ pc' = [pc EXCEPT ![p] = "read"]
              \/ taken' = [taken EXCEPT ![p] = now] /\ pc' = [pc EXCEPT ![p] = "mark"]
    BY <1>10 DEF OutputFile, Goto
<1> QED
    BY <1>3, <1>4, <1>5, <1>6, <1>7, <1>8, <1>9, <1>10 DEF Getting, Trimming

\* The clock.
LEMMA TickStep == IInv /\ Tick => IInv'
<1> SUFFICES ASSUME IInv, Tick PROVE IInv'
    OBVIOUS
<1>0. /\ UNCHANGED <<world, files, trimTxt, pc, local, fds, calls, answer, hist>>
      /\ now' = now + 1 /\ now < MaxTime /\ now \in Nat
    BY DEF Tick, IInv, FilesType
<1>1. FilesType'
    BY <1>0 DEF IInv, FilesType, files, hist
<1>2. ProcType'
    <2>1. \A p \in Procs : taken[p] \in Nat /\ taken[p] <= now + 1
        BY <1>0 DEF IInv, ProcType
    <2>2. \A p \in Procs : Id(p)' = Id(p) /\ Val(p)' = Val(p)
        BY <1>0 DEF Id, Val, local
    <2> QED
        BY <1>0, <2>1, <2>2 DEF IInv, ProcType, local, fds, hist
<1>3. WriteInv'
    BY <1>0 DEF IInv, WriteInv, Id, files, local, hist
<1>4. CalmInv'
    BY <1>0 DEF IInv, CalmInv, Calm, CalmFiles, CalmProc, CalmKept, Id, Val, files, local, fds, hist
<1>5. TrimInv'
    <2>1. "slow" \notin world => \A p \in Procs : pc[p] \in {"transform", "mark"} => now + 1 - taken[p] < MtimeInterval
        BY DEF Tick
    <2>2. OneTrimPerInterval => OneTrimPerInterval'
        BY <1>0 DEF OneTrimPerInterval, local
    <2>3. UNCHANGED <<world, pc, taken, trimTxt>>
        BY <1>0 DEF local
    <2>4. TrimInv
        BY DEF IInv
    <2> QED
        <3> SUFFICES ASSUME Timely PROVE TrimInv'
            BY <2>3 DEF TrimInv, Timely
        <3>1. \A p \in Procs : (pc[p] \in {"transform", "mark"} => now - taken[p] < MtimeInterval \/ taken[p] = now)'
            <4>1. "slow" \notin world /\ \A p \in Procs : taken[p] \in Nat
                BY DEF IInv, ProcType, Timely
            <4> QED
                BY <1>0, <2>1, <2>3, <4>1
        <3>2. \A p \in Procs : (pc[p] \in {"trim", "remove"} => taken[p] <= trimTxt)'
            BY <2>3, <2>4 DEF TrimInv
        <3> QED
            BY <2>2, <2>4, <3>1, <3>2 DEF TrimInv
<1>6. UseInv'
    BY <1>0 DEF IInv, UseInv, Timely, FilesType, files, hist
<1> QED
    BY <1>1, <1>2, <1>3, <1>4, <1>5, <1>6 DEF IInv

\* A step that changes nothing changes no part of the invariant.
LEMMA StutterStep == IInv /\ UNCHANGED vars => IInv'
BY DEF IInv, FilesType, ProcType, WriteInv, CalmInv, Calm, CalmFiles, CalmProc, CalmKept, TrimInv, Timely, OneTrimPerInterval,
       UseInv, Id, Val, vars, files, local, fds, hist

\* Every step of every process keeps the invariant.
LEMMA Inductive == IInv /\ [Next]_vars => IInv'
<1>1. ASSUME IInv, NEW p \in Procs, Putting(p) \/ Getting(p) \/ Trimming(p) \/ Crash(p)
      PROVE  IInv'
    BY <1>1, FilesStep, ProcStep, WriteStep, CalmStep, TrimStep, UseStep DEF IInv
<1> QED
    BY <1>1, TickStep, StutterStep DEF Next, Finished

\* The inductive invariant holds in every state of the shared directory.
LEMMA Invariant == Spec => []IInv
BY InitInv, Inductive, PTL DEF Spec
-----------------------------------------------------------------------------
\* The invariant bounds every variable: an index file names an output that its
\* action may have, and no file, nor trim.txt, is newer than the clock.
THEOREM TypeCorrect == Spec => []TypeOK
<1>1. IInv => TypeOK
    <2> SUFFICES ASSUME IInv PROVE TypeOK
        OBVIOUS
    <2>1. /\ now \in Nat /\ now <= MaxTime /\ calls \in Nat /\ calls <= MaxCalls
          /\ trimTxt \in Int /\ trimTxt >= -1 /\ trimTxt <= now
          /\ dataTime \in [Values -> 0 .. now] /\ indexTime \in [Ids -> 0 .. now]
        BY DEF IInv, FilesType
    <2> QED
        BY <2>1 DEF IInv, FilesType, ProcType, WriteInv, TypeOK
<1> QED
    BY <1>1, Invariant, PTL

\* GetBytes: whatever the directory holds and whoever writes, truncates,
\* removes or dies meanwhile, an answer that is not a miss is an output that
\* somebody gave to Put for this very action.
THEOREM ReadsWritten == Spec => []ReadsAreWritten
<1>1. IInv => ReadsAreWritten
    <2> SUFFICES ASSUME IInv, NEW p \in Procs, pc[p] = "idle", answer[p] \notin Words
                 PROVE  answer[p] \in UNION {written[i] : i \in Ids \cap {Id(p)}}
        BY DEF ReadsAreWritten, Words
    <2>1. Id(p) \in Ids /\ answer[p] \in written[Id(p)]
        BY DEF IInv, WriteInv
    <2> QED
        BY <2>1
<1> QED
    BY <1>1, Invariant, PTL

\* copyFile and putIndexEntry: as long as no call fails, nobody trims and no
\* file was too long, what a Put has stored stays readable for everybody.
THEOREM StoredStays == Spec => []StoredStaysReadable
<1>1. IInv => StoredStaysReadable
    <2> SUFFICES ASSUME IInv, Calm, NEW i \in Ids, NEW v \in Values, <<i, v>> \in kept
                 PROVE  /\ data[v] = "full"
                        /\ index[i] \in Values
                        /\ Cardinality(written[i]) = 1 => index[i] = v
        BY DEF StoredStaysReadable, Calm
    <2>1. data[v] = "full" /\ index[i] \in Values /\ v \in written[i]
        BY DEF IInv, CalmInv, CalmKept
    <2>2. index[i] \in written[i] /\ IsFiniteSet(written[i])
        BY <2>1 DEF IInv, WriteInv, NoEntry
    <2>3. ASSUME Cardinality(written[i]) = 1 PROVE index[i] = v
        <3>1. PICK S : S = written[i]
            OBVIOUS
        <3>2. PICK x : S = {x}
            BY <2>2, <2>3, <3>1, FS_Singleton
        <3> QED
            BY <2>1, <2>2, <3>1, <3>2
    <2> QED
        BY <2>1, <2>3
<1> QED
    BY <1>1, Invariant, PTL

\* Trim: the second look at trim.txt, under the lock, keeps two processes from
\* trimming on behalf of the same trimInterval.
THEOREM OneTrim == Spec => []OneTrimPerInterval
<1>1. IInv => OneTrimPerInterval
    BY DEF IInv, TrimInv, Timely, OneTrimPerInterval
<1> QED
    BY <1>1, Invariant, PTL

\* markUsed and the cutoff of Trim: as long as no call fails and nobody is
\* suspended for mtimeInterval, no data file is chosen for removal that
\* OutputFile has handed out since trimLimit before the trim began.
THEOREM TrimSpares == Spec => TrimSparesRead
<1>1. IInv /\ [Next]_vars =>
        [world \cap {"io", "slow"} = {} => \A p \in Procs, v \in Values :
            pc[p] = "trim" /\ pc'[p] = "remove" /\ victim'[p] = {<<v, "d">>}
                => opened[v] < taken[p] - TrimLimit]_vars
    <2> SUFFICES ASSUME IInv, Next, Timely, NEW p \in Procs, NEW v \in Values,
                        pc[p] = "trim", pc'[p] = "remove", victim'[p] = {<<v, "d">>}
                 PROVE  opened[v] < taken[p] - TrimLimit
        BY DEF vars, Timely
    <2>1. pc \in [Procs -> {"idle", "dead"} \cup Storing \cup Reading \cup Pruning]
        BY DEF IInv, ProcType
    <2>2. PICK q \in Procs : Putting(q) \/ Getting(q) \/ Trimming(q) \/ Crash(q)
        BY DEF Next, Tick, Finished, vars
    <2>3. \E to : pc' = [pc EXCEPT ![q] = to] \/ (TrimStat(q) /\ UNCHANGED pc)
        BY <2>2 DEF Putting, Getting, Trimming, Put, Stat, Check, GivesUp, Open, WritePrefix, WriteLast, WriteFails,
           CloseData, CloseFails, OpenIndex, WriteEntry, EntryFails, PutReturns, Get, OutputFile, MarkUsed, ReadData,
           Trim, Transform, TransformFails, TrimStat, TrimRemove, TrimReturns, Crash, Call, Return, Goto
    <2>4. q = p
        BY <2>1, <2>3
    <2>5. TrimStat(p)
        BY <2>1, <2>2, <2>4 DEF Putting, Getting, Trimming, Put, Stat, Check, GivesUp, Open, WritePrefix, WriteLast,
           WriteFails, CloseData, CloseFails, OpenIndex, WriteEntry, EntryFails, PutReturns, Get, OutputFile, MarkUsed, ReadData,
           Trim, Transform, TransformFails, TrimRemove, TrimReturns, Crash, Call, Return, Goto
    <2>6. PICK e \in scan[p] : Old(p, e) /\ victim' = [victim EXCEPT ![p] = {e}]
        BY <2>5 DEF TrimStat
    <2>7. e = <<v, "d">>
        BY <2>6 DEF IInv, ProcType
    <2>8. data[v] # "absent" /\ dataTime[v] < Cutoff(p)
        BY <2>6, <2>7 DEF Old
    <2>9. opened[v] \in Int /\ opened[v] <= dataTime[v] + MtimeInterval /\ dataTime[v] \in Nat /\ taken[p] \in Nat
        BY <2>8 DEF IInv, UseInv, FilesType, ProcType
    <2> QED
        BY <2>8, <2>9 DEF Cutoff
<1> QED
    BY <1>1, Invariant, PTL DEF Spec, TrimSparesRead
=============================================================================
