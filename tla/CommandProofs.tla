--------------------------- MODULE CommandProofs ---------------------------
(***************************************************************************)
(* What the commands promise for any input: that `migrate` never loses the *)
(* version 1 configuration, and that `run` exits with 0 only for an        *)
(* analysis that was completed and shown, and never over a package that    *)
(* does not compile; and what the benchmark harness promises for any       *)
(* manifest and options: that it restores the sources, accounts for its    *)
(* worktrees, and neither hides a process that it killed nor one that      *)
(* outlived its parent.                                                    *)
(***************************************************************************)
EXTENDS Migrate, LintRun, BenchMatrix, BenchExecution, ReachabilityProofs, SequenceTheorems

-----------------------------------------------------------------------------
(***************************************************************************)
(* migrate.                                                                *)
(***************************************************************************)
Contents == {"v1", "v2", "bare", "none", "empty", "cut"}

\* After the check of persistentPreRunE a file is in use.
Chosen == {"check", "backup", "backup write", "create", "encode", "cleanup"}

MigrateType ==
    /\ mpc \in Chosen \cup {"load", "end", "used"}
    /\ msrc \in {"none", "src", "dst"}
    /\ files \in [{"src", "dst", "bck", "dstBck"} -> Contents]
    /\ mruns \in Nat \ {0}
    /\ mpc \in Chosen => msrc \in {"src", "dst"}

\* Without --skip-validation, and but for a TOML file converted in place for the
\* second time, a source gets past preRunE only with the version 1 configuration,
\* and nothing overwrites it before the backup holds it; a destination has a
\* backup of its own.
BackupFirst ==
    /\ files.dst # "none" \/ msrc = "dst" => mopts.format # "same"
    /\ mpc = "check" => files[msrc] # "none"
    /\ ~mopts.skip /\ ~(TomlInPlace /\ mruns > 1) =>
          /\ "v1" \in {files.src, files.bck}
          /\ mopts.format # "same" => files.src \in {"v1", "none"}
          /\ mruns = 1 /\ mpc \in {"load", "check"} => files.src = "v1"
          /\ msrc = "src" /\ mpc \in {"backup", "backup write"} => files.src = "v1"
          /\ msrc = "src" /\ mpc \in {"create", "encode", "cleanup"} => files.bck = "v1"

MigrateInv == MigrateType /\ BackupFirst

\* A step of the command that moves on without a file being written.
LEMMA MigrateQuiet ==
    MigrateInv /\ (MLoad \/ MLoadFails \/ MPreRun \/ MBackupFails \/ MCreateFails \/ MCrash \/ MAgain \/ MUse)
    => MigrateInv'
<1> SUFFICES ASSUME MigrateInv, MLoad \/ MLoadFails \/ MPreRun \/ MBackupFails \/ MCreateFails \/ MCrash \/ MAgain \/ MUse
             PROVE  MigrateInv'
    OBVIOUS
<1> USE DEF MigrateInv, MigrateType, BackupFirst, Contents, Chosen, TomlInPlace
<1>1. CASE MLoad
    BY <1>1 DEF MLoad, ConfigFileUsed
<1>2. CASE MPreRun
    BY <1>2 DEF MPreRun, MGoto, Validates
<1>3. CASE MLoadFails \/ MBackupFails \/ MCreateFails \/ MCrash
    BY <1>3 DEF MLoadFails, MBackupFails, MCreateFails, MCrash, MGoto
<1>4. CASE MAgain
    BY <1>4 DEF MAgain
<1>5. CASE MUse
    BY <1>5 DEF MUse
<1> QED
    BY <1>1, <1>2, <1>3, <1>4, <1>5

\* A step of the command that writes or removes a file.
LEMMA MigrateWrites ==
    MigrateInv /\ (MBackupOpen \/ MBackupWrite \/ MCreate \/ MEncode \/ MEncodeFails \/ MCleanup) => MigrateInv'
<1> SUFFICES ASSUME MigrateInv, MBackupOpen \/ MBackupWrite \/ MCreate \/ MEncode \/ MEncodeFails \/ MCleanup
             PROVE  MigrateInv'
    OBVIOUS
<1> USE DEF MigrateInv, MigrateType, BackupFirst, Contents, Chosen, TomlInPlace
<1>1. CASE MBackupOpen
    BY <1>1 DEF MBackupOpen, MGoto, BackupPath
<1>2. CASE MBackupWrite
    BY <1>2 DEF MBackupWrite, MGoto, BackupPath
<1>3. CASE MCreate
    BY <1>3 DEF MCreate, DstPath
<1>4. CASE MEncode
    BY <1>4 DEF MEncode, MGoto, DstPath
<1>5. CASE MEncodeFails
    BY <1>5 DEF MEncodeFails, MGoto, DstPath
<1>6. CASE MCleanup
    BY <1>6 DEF MCleanup, MGoto, DstPath
<1> QED
    BY <1>1, <1>2, <1>3, <1>4, <1>5, <1>6

\* However often the command is repeated after failures and kills, for any
\* configuration, flags and formats, the version 1 configuration is still there;
\* for a TOML file converted in place, during the first migration.
THEOREM V1Survives == MigrateSpec => []V1ConfigSurvives
<1>1. MigrateInit => MigrateInv
    BY DEF MigrateInit, MigrateInv, MigrateType, BackupFirst, TomlInPlace, Contents, Chosen
<1>2. MigrateInv /\ [MigrateNext]_migrateVars => MigrateInv'
    <2>1. MigrateInv /\ UNCHANGED migrateVars => MigrateInv'
        BY DEF MigrateInv, MigrateType, BackupFirst, TomlInPlace, migrateVars
    <2> QED
        BY <2>1, MigrateQuiet, MigrateWrites DEF MigrateNext
<1>3. MigrateInv => V1ConfigSurvives
    BY DEF MigrateInv, BackupFirst, V1ConfigSurvives
<1> QED
    BY <1>1, <1>2, <1>3, PTL DEF MigrateSpec

-----------------------------------------------------------------------------
(***************************************************************************)
(* Lists and loops.                                                        *)
(***************************************************************************)
\* A finite list of any elements.
Listed(s) == \E X : s \in Seq(X)

\* A function on 1..n is a list of length n.
LEMMA ListOf ==
    ASSUME NEW n \in Nat, NEW S, NEW s \in [1..n -> S]
    PROVE  s \in Seq(S) /\ Len(s) = n /\ IsList(s)
<1>1. s \in Seq(S)
    BY SeqDef
<1>2. Len(s) = n
    BY <1>1, LenProperties
<1> QED
    BY <1>1, <1>2 DEF IsList

\* A list is a sequence over its range.
LEMMA ListRange ==
    ASSUME NEW s, Listed(s)
    PROVE  s \in Seq(Range(s)) /\ IsList(s)
<1>1. PICK X : s \in Seq(X)
    BY DEF Listed
<1>2. Len(s) \in Nat /\ DOMAIN s = 1..Len(s) /\ s \in [1..Len(s) -> X]
    BY <1>1, LenProperties
<1>3. s \in [1..Len(s) -> Range(s)]
    BY <1>2 DEF Range
<1> QED
    BY <1>2, <1>3, ListOf DEF IsList

\* The recursive function that Joined names exists.
LEMMA JoinedExists ==
    ASSUME NEW X, NEW rounds, Len(rounds) \in Nat,
           \A i \in 1..Len(rounds) : rounds[i] \in Seq(X)
    PROVE  \E f : f = [i \in 0..Len(rounds) |-> IF i = 0 THEN <<>> ELSE f[i - 1] \o rounds[i]]
<1>1. PICK n : n = Len(rounds)
    OBVIOUS
<1>2. PICK V : V = Seq(X)
    OBVIOUS
<1>3. PICK F : F = [i \in Nat |-> [s \in V |-> IF i < n THEN s \o rounds[i + 1] ELSE s]]
    OBVIOUS
<1>4. F \in [Nat -> [V -> V]]
    <2>1. ASSUME NEW i \in Nat, NEW s \in V PROVE (IF i < n THEN s \o rounds[i + 1] ELSE s) \in V
        <3>1. CASE i < n
            <4>1. i + 1 \in 1..Len(rounds)
                BY <1>1, <3>1
            <4>2. rounds[i + 1] \in Seq(X)
                BY <4>1
            <4>3. s \o rounds[i + 1] \in Seq(X)
                BY <1>2, <4>2, ConcatProperties
            <4> QED
                BY <1>2, <3>1, <4>3
        <3>2. CASE ~(i < n)
            BY <3>2
        <3> QED
            BY <3>1, <3>2
    <2> QED
        BY <1>3, <2>1
<1>5. <<>> \in V
    BY <1>2
<1>6. PICK L : Iterates(L, V, <<>>, F)
    BY <1>4, <1>5, RecursionExists
<1>7. PICK f : f = [i \in 0..n |-> L[i]]
    OBVIOUS
<1>8. ASSUME NEW i \in 0..n PROVE f[i] = IF i = 0 THEN <<>> ELSE f[i - 1] \o rounds[i]
    <2>1. CASE i = 0
        BY <1>1, <1>6, <1>7, <2>1 DEF Iterates
    <2>2. CASE i # 0
        <3>1. i - 1 \in Nat /\ (i - 1) + 1 = i /\ i - 1 < n /\ i - 1 \in 0..n
            BY <1>1, <2>2
        <3>2. L[i - 1] \in V /\ L[(i - 1) + 1] = F[i - 1][L[i - 1]]
            BY <1>6, <3>1 DEF Iterates
        <3>3. F[i - 1][L[i - 1]] = L[i - 1] \o rounds[(i - 1) + 1]
            BY <1>3, <3>1, <3>2
        <3>4. f[i] = L[i] /\ f[i - 1] = L[i - 1]
            BY <1>7, <3>1
        <3> QED
            BY <2>2, <3>1, <3>2, <3>3, <3>4
    <2> QED
        BY <2>1, <2>2
<1>9. f = [i \in 0..n |-> IF i = 0 THEN <<>> ELSE f[i - 1] \o rounds[i]]
    BY <1>7, <1>8
<1> QED
    BY <1>1, <1>9

\* What Joined computes, round by round.
LEMMA JoinedRuns ==
    ASSUME NEW X, NEW rounds, Len(rounds) \in Nat,
           \A i \in 1..Len(rounds) : rounds[i] \in Seq(X)
    PROVE  \E done : /\ done[0] = <<>>
                     /\ \A i \in 1..Len(rounds) : done[i] = done[i - 1] \o rounds[i]
                     /\ Joined(rounds) = done[Len(rounds)]
<1> DEFINE Good(f) == f = [i \in 0..Len(rounds) |-> IF i = 0 THEN <<>> ELSE f[i - 1] \o rounds[i]]
           done    == CHOOSE f : Good(f)
<1>1. \E f : Good(f)
    BY JoinedExists
<1>3. Joined(rounds) = done[Len(rounds)]
    BY DEF Joined
<1> HIDE DEF Good
<1>2. Good(done)
    BY <1>1
<1> HIDE DEF done
<1>4. done[0] = <<>> /\ \A i \in 1..Len(rounds) : done[i] = done[i - 1] \o rounds[i]
    BY <1>2 DEF Good
<1> QED
    BY <1>3, <1>4

\* What every round yields and \o preserves holds of the whole loop.
LEMMA JoinedIn ==
    ASSUME NEW X, NEW C \in SUBSET Seq(X), <<>> \in C, \A s, t \in C : s \o t \in C,
           NEW rounds, Len(rounds) \in Nat, \A i \in 1..Len(rounds) : rounds[i] \in C
    PROVE  Joined(rounds) \in C
<1>1. PICK done : /\ done[0] = <<>>
                  /\ \A i \in 1..Len(rounds) : done[i] = done[i - 1] \o rounds[i]
                  /\ Joined(rounds) = done[Len(rounds)]
    BY JoinedRuns
<1> DEFINE T == {i \in Nat : i <= Len(rounds) => done[i] \in C}
<1>2. 0 \in T
    BY <1>1
<1>3. ASSUME NEW i \in Nat, i \in T PROVE i + 1 \in T
    <2> SUFFICES ASSUME i + 1 <= Len(rounds) PROVE done[i + 1] \in C
        OBVIOUS
    <2>1. i + 1 \in 1..Len(rounds) /\ (i + 1) - 1 = i /\ i <= Len(rounds)
        OBVIOUS
    <2>2. done[i] \in C
        BY <1>3, <2>1
    <2>3. rounds[i + 1] \in C
        BY <2>1
    <2>4. done[i + 1] = done[i] \o rounds[i + 1]
        BY <1>1, <2>1
    <2> QED
        BY <2>2, <2>3, <2>4
<1> HIDE DEF T
<1>4. Nat \subseteq T
    BY <1>2, <1>3, InductionOverNat
<1>5. done[Len(rounds)] \in C
    BY <1>4 DEF T
<1> QED
    BY <1>1, <1>5

\* A loop whose rounds yield lists over X yields one.
LEMMA JoinedSeq ==
    ASSUME NEW X, NEW rounds, Len(rounds) \in Nat,
           \A i \in 1..Len(rounds) : rounds[i] \in Seq(X)
    PROVE  Joined(rounds) \in Seq(X)
<1>1. PICK C : C = Seq(X)
    OBVIOUS
<1>2. C \in SUBSET Seq(X) /\ <<>> \in C
    BY <1>1
<1>3. \A s, t \in C : s \o t \in C
    BY <1>1, ConcatProperties
<1>4. Joined(rounds) \in C
    BY <1>1, <1>2, <1>3, JoinedIn
<1> QED
    BY <1>1, <1>4

\* A loop whose rounds are lists over X yields one.
LEMMA LoopSeq ==
    ASSUME NEW X, NEW n \in Nat, NEW r, r = [i \in 1..n |-> r[i]], \A i \in 1..n : r[i] \in Seq(X)
    PROVE  Joined(r) \in Seq(X) /\ Len(Joined(r)) \in Nat
<1>1. r \in [1..n -> Seq(X)]
    OBVIOUS
<1>2. Len(r) = n
    BY <1>1, ListOf
<1>3. Joined(r) \in Seq(X)
    BY <1>2, JoinedSeq
<1> QED
    BY <1>3, LenProperties

\* d has the elements of seq at those of the places that are not above n, and
\* no others.
PickedUpto(d, seq, places, n) ==
    /\ d \in Seq({seq[i] : i \in 1..Len(seq)})
    /\ \A i \in places : i \in 1..n => \E k \in 1..Len(d) : d[k] = seq[i]
    /\ \A k \in 1..Len(d) : \E i \in places : i \in 1..n /\ d[k] = seq[i]

\* One round.
LEMMA PickedRound ==
    ASSUME NEW seq, Len(seq) \in Nat, NEW places, NEW n \in Nat, n + 1 <= Len(seq), NEW d,
           PickedUpto(d, seq, places, n)
    PROVE  PickedUpto(d \o (IF n + 1 \in places THEN <<seq[n + 1]>> ELSE <<>>), seq, places, n + 1)
<1> DEFINE X == {seq[i] : i \in 1..Len(seq)}
<1>1. d \in Seq(X) /\ seq[n + 1] \in X
    BY DEF PickedUpto
<1>2. CASE n + 1 \in places
    <2> DEFINE e == d \o <<seq[n + 1]>>
    <2>1. e \in Seq(X) /\ Len(e) = Len(d) + 1 /\ e[Len(d) + 1] = seq[n + 1] /\ Len(d) \in Nat
        BY <1>1
    <2>2. \A k \in 1..Len(d) : e[k] = d[k]
        BY <1>1
    <2> HIDE DEF e, X
    <2>3. \A i \in places : i \in 1..(n + 1) => \E k \in 1..Len(e) : e[k] = seq[i]
        <3> SUFFICES ASSUME NEW i \in places, i \in 1..(n + 1) PROVE \E k \in 1..Len(e) : e[k] = seq[i]
            OBVIOUS
        <3>1. CASE i = n + 1
            BY <2>1, <3>1
        <3>2. CASE i # n + 1
            <4>1. i \in 1..n
                BY <3>2
            <4>2. PICK k \in 1..Len(d) : d[k] = seq[i]
                BY <4>1 DEF PickedUpto
            <4>3. k \in 1..Len(e) /\ e[k] = seq[i]
                BY <2>1, <2>2, <4>2
            <4> QED
                BY <4>3
        <3> QED
            BY <3>1, <3>2
    <2>4. \A k \in 1..Len(e) : \E i \in places : i \in 1..(n + 1) /\ e[k] = seq[i]
        <3> SUFFICES ASSUME NEW k \in 1..Len(e) PROVE \E i \in places : i \in 1..(n + 1) /\ e[k] = seq[i]
            OBVIOUS
        <3>1. CASE k = Len(d) + 1
            BY <1>2, <2>1, <3>1
        <3>2. CASE k # Len(d) + 1
            <4>1. k \in 1..Len(d)
                BY <2>1, <3>2
            <4>2. PICK i \in places : i \in 1..n /\ d[k] = seq[i]
                BY <4>1 DEF PickedUpto
            <4> QED
                BY <2>2, <4>1, <4>2
        <3> QED
            BY <3>1, <3>2
    <2>5. PickedUpto(e, seq, places, n + 1)
        BY <2>1, <2>3, <2>4 DEF PickedUpto, X
    <2> QED
        BY <1>2, <2>5 DEF e
<1>3. CASE n + 1 \notin places
    <2>1. d \o <<>> = d
        BY <1>1
    <2>2. \A i \in places : i \in 1..(n + 1) => i \in 1..n
        BY <1>3
    <2>3. PickedUpto(d, seq, places, n + 1)
        BY <2>2 DEF PickedUpto
    <2> QED
        BY <1>3, <2>1, <2>3
<1> QED
    BY <1>2, <1>3

\* Picked has the elements at the places, and no others.
LEMMA PickedAll ==
    ASSUME NEW seq, Len(seq) \in Nat, NEW places
    PROVE  PickedUpto(Picked(seq, places), seq, places, Len(seq))
<1> DEFINE X == {seq[i] : i \in 1..Len(seq)}
           r == [i \in 1..Len(seq) |-> IF i \in places THEN <<seq[i]>> ELSE <<>>]
<1>1. \A i \in 1..Len(seq) : r[i] = (IF i \in places THEN <<seq[i]>> ELSE <<>>) /\ r[i] \in Seq(X)
    <2> TAKE i \in 1..Len(seq)
    <2>1. seq[i] \in X
        OBVIOUS
    <2>2. <<seq[i]>> \in Seq(X) /\ <<>> \in Seq(X)
        BY <2>1
    <2> QED
        BY <2>2
<1>2. Picked(seq, places) = Joined(r)
    BY DEF Picked
<1>3. r \in [1..Len(seq) -> Seq(X)]
    BY <1>1
<1>4. Len(r) = Len(seq)
    BY <1>3, ListOf
<1> HIDE DEF r
<1>5. PICK done : /\ done[0] = <<>>
                  /\ \A i \in 1..Len(r) : done[i] = done[i - 1] \o r[i]
                  /\ Joined(r) = done[Len(r)]
    BY <1>1, <1>4, JoinedRuns
<1> DEFINE T == {n \in Nat : n <= Len(seq) => PickedUpto(done[n], seq, places, n)}
<1>6. 0 \in T
    <2>1. <<>> \in Seq(X) /\ Len(<<>>) = 0 /\ 1..0 = {}
        OBVIOUS
    <2>2. PickedUpto(<<>>, seq, places, 0)
        BY <2>1 DEF PickedUpto
    <2> QED
        BY <1>5, <2>2
<1>7. ASSUME NEW n \in Nat, n \in T PROVE n + 1 \in T
    <2> SUFFICES ASSUME n + 1 <= Len(seq) PROVE PickedUpto(done[n + 1], seq, places, n + 1)
        OBVIOUS
    <2>1. n + 1 \in 1..Len(seq) /\ (n + 1) - 1 = n /\ n <= Len(seq)
        OBVIOUS
    <2>2. PickedUpto(done[n], seq, places, n)
        BY <1>7, <2>1
    <2>3. done[n + 1] = done[n] \o r[n + 1] /\ r[n + 1] = IF n + 1 \in places THEN <<seq[n + 1]>> ELSE <<>>
        BY <1>1, <1>4, <1>5, <2>1
    <2>4. PickedUpto(done[n] \o (IF n + 1 \in places THEN <<seq[n + 1]>> ELSE <<>>), seq, places, n + 1)
        BY <2>2, PickedRound
    <2> QED
        BY <2>3, <2>4
<1> HIDE DEF T
<1>8. Nat \subseteq T
    BY <1>6, <1>7, InductionOverNat
<1>9. PickedUpto(done[Len(seq)], seq, places, Len(seq))
    BY <1>8 DEF T
<1> QED
    BY <1>2, <1>4, <1>5, <1>9

\* The same, as it is used.
LEMMA PickedList ==
    ASSUME NEW seq, Len(seq) \in Nat, NEW places
    PROVE  /\ Picked(seq, places) \in Seq({seq[i] : i \in 1..Len(seq)})
           /\ Len(Picked(seq, places)) \in Nat
           /\ \A i \in places : i \in 1..Len(seq) =>
                \E k \in 1..Len(Picked(seq, places)) : Picked(seq, places)[k] = seq[i]
           /\ \A k \in 1..Len(Picked(seq, places)) :
                \E i \in places : i \in 1..Len(seq) /\ Picked(seq, places)[k] = seq[i]
<1>1. PICK d : d = Picked(seq, places)
    OBVIOUS
<1>2. PickedUpto(d, seq, places, Len(seq))
    BY <1>1, PickedAll
<1>3. Len(d) \in Nat
    BY <1>2, LenProperties DEF PickedUpto
<1> QED
    BY <1>1, <1>2, <1>3 DEF PickedUpto

-----------------------------------------------------------------------------
(***************************************************************************)
(* run.                                                                    *)
(***************************************************************************)
Early  == {"start", "prerun", "open", "flock", "select", "load", "build", "lint", "print"}
Late   == {"unlock", "remove", "post", "exited"}
Places == Early \cup {"finish"} \cup Late \cup {"absent", "killed"}

\* What runner p may know at place pc.  Errors are only logged with a code or,
\* by a panic, together with an error of the linters, which gets its code in
\* processLintResults; the timeout is looked at last, in setupExitCode.
Fits(p, pc, r) ==
    /\ DOMAIN r = DOMAIN NewRun
    /\ r.printed \in BOOLEAN /\ r.expired \in BOOLEAN /\ r.logged \in BOOLEAN /\ r.lintError \in BOOLEAN
    /\ pc \in Early => r.code = Success /\ (r.logged => r.lintError)
    /\ pc \in Early \ {"lint"} => ~r.lintError
    /\ pc \in {"finish"} \cup Late /\ r.code = Success =>
          /\ r.printed /\ ~r.lintError /\ ~r.logged
          /\ r.out # <<>> => in[p].issuesCode = Success
    /\ pc \in Late /\ r.code = Success => ~r.expired

LintInv ==
    /\ rpc \in [Runners -> Places] /\ DOMAIN run = Runners
    /\ \A p \in Runners : Fits(p, rpc[p], run[p])

\* A step concerns one runner, and what the others know still fits.
LEMMA LintTo ==
    ASSUME LintInv, NEW p \in Runners, NEW pc \in Places, NEW r, To(p, pc, r), in' = in, Fits(p, pc, r)
    PROVE  LintInv'
<1>1. /\ rpc' \in [Runners -> Places] /\ DOMAIN run' = Runners
      /\ rpc'[p] = pc /\ run'[p] = r
      /\ \A q \in Runners \ {p} : rpc'[q] = rpc[q] /\ run'[q] = run[q]
    BY DEF To, LintInv
<1>2. ASSUME NEW q \in Runners PROVE Fits(q, rpc[q], run[q])'
    <2>1. CASE q = p
        BY <1>1, <2>1 DEF Fits
    <2>2. CASE q # p
        BY <1>1, <2>2 DEF LintInv, Fits
    <2> QED
        BY <2>1, <2>2
<1> QED
    BY <1>1, <1>2 DEF LintInv

\* The steps up to the analysis.
LEMMA LintPrepares ==
    ASSUME LintInv, NEW p \in Runners, RLoadConfig(p) \/ RPreRun(p) \/ ROpenLock(p) \/ RFlock(p) \/ RSelectLinters(p)
    PROVE  LintInv'
<1> USE DEF Early, Late, Places, Success, Failure, NewRun
<1>1. Fits(p, rpc[p], run[p]) /\ rpc[p] \in {"start", "prerun", "open", "flock", "select"}
    BY DEF LintInv, RLoadConfig, RPreRun, ROpenLock, RFlock, RSelectLinters
<1>2. /\ \A pc \in Early \ {"lint"} : Fits(p, pc, run[p])
      /\ Fits(p, "exited", [run[p] EXCEPT !.code = Failure])
      /\ Fits(p, "exited", [run[p] EXCEPT !.fd = 0, !.code = Failure])
      /\ \A fd : Fits(p, "flock", [run[p] EXCEPT !.fd = fd]) /\ Fits(p, "open", [run[p] EXCEPT !.fd = fd])
      /\ Fits(p, "open", [run[p] EXCEPT !.fd = 0, !.tries = @ + 1])
      /\ \A l, g : Fits(p, "load", [run[p] EXCEPT !.linters = l, !.groups = g])
      /\ Fits(p, "finish", [run[p] EXCEPT !.logged = TRUE, !.code = Failure])
    BY <1>1 DEF Fits
<1>3. in' = in
    BY DEF RLoadConfig, RPreRun, ROpenLock, RFlock, RSelectLinters, NoLocks
<1>4. CASE RLoadConfig(p)
    BY <1>2, <1>3, <1>4, LintTo DEF RLoadConfig
<1>5. CASE RPreRun(p)
    BY <1>2, <1>3, <1>5, LintTo DEF RPreRun
<1>6. CASE ROpenLock(p)
    BY <1>2, <1>3, <1>6, LintTo DEF ROpenLock
<1>7. CASE RFlock(p)
    BY <1>2, <1>3, <1>7, LintTo DEF RFlock
<1>8. CASE RSelectLinters(p)
    BY <1>2, <1>3, <1>8, LintTo DEF RSelectLinters, RunError
<1> QED
    BY <1>4, <1>5, <1>6, <1>7, <1>8

\* Loading, the linters and what is made of their issues.
LEMMA LintAnalyses ==
    ASSUME LintInv, NEW p \in Runners, RLoadPackages(p) \/ RBuildRunner(p) \/ RLinter(p) \/ RProcess(p)
    PROVE  LintInv'
<1> USE DEF Early, Late, Places, Success, Failure, NoGoFiles, NewRun
<1>1. Fits(p, rpc[p], run[p]) /\ rpc[p] \in {"load", "build", "lint"} /\ in' = in
    BY DEF LintInv, RLoadPackages, RBuildRunner, RLinter, RProcess, NoLocks
<1>2. CASE RLoadPackages(p)
    <2>1. rpc[p] = "load"
        BY <1>2 DEF RLoadPackages
    <2>2. /\ \A code \in {Failure, NoGoFiles} : Fits(p, "finish", [run[p] EXCEPT !.logged = TRUE, !.code = code])
          /\ \A pkgs : Fits(p, "build", [run[p] EXCEPT !.kept = pkgs])
        BY <1>1, <2>1 DEF Fits
    <2> QED
        BY <1>1, <1>2, <2>2, LintTo DEF RLoadPackages, RunError
<1>3. CASE RBuildRunner(p)
    <2>1. Fits(p, "finish", [run[p] EXCEPT !.logged = TRUE, !.code = Failure]) /\ Fits(p, "lint", run[p])
        BY <1>1, <1>3 DEF Fits, RBuildRunner
    <2> QED
        BY <1>1, <1>3, <2>1, LintTo DEF RBuildRunner, RunError
<1>4. CASE RLinter(p)
    <2> DEFINE Rest(g) == [run[p] EXCEPT !.groups = @ \ {g}]
    <2>1. ASSUME NEW g
          PROVE  /\ Fits(p, "lint", [Rest(g) EXCEPT !.warned = TRUE])
                 /\ \A more : Fits(p, "lint", [Rest(g) EXCEPT !.issues = @ \o more])
                 /\ \A panic \in BOOLEAN :
                      Fits(p, "lint", [Rest(g) EXCEPT !.lintError = TRUE, !.warned = TRUE, !.logged = @ \/ panic])
        BY <1>1, <1>4 DEF Fits, RLinter
    <2> QED
        BY <1>1, <1>4, <2>1, LintTo DEF RLinter
<1>5. CASE RProcess(p)
    <2>1. PICK after \in Processed(in[p], run[p]) :
              IF after.lintError THEN RunError(p, after, Failure) ELSE To(p, "print", after)
        BY <1>5 DEF RProcess
    <2>2. PICK out, fixed, warned : after = [run[p] EXCEPT !.out = out, !.fixed = fixed, !.warned = warned]
        BY <2>1 DEF Processed
    <2>3. Fits(p, "lint", after)
        BY <1>1, <1>5, <2>2 DEF Fits, RProcess
    <2>4. CASE after.lintError
        <3>1. Fits(p, "finish", [after EXCEPT !.logged = TRUE, !.code = Failure])
            BY <2>3 DEF Fits
        <3> QED
            BY <1>1, <2>1, <2>4, <3>1, LintTo DEF RunError
    <2>5. CASE ~after.lintError
        <3>1. Fits(p, "print", after)
            BY <2>3, <2>5 DEF Fits
        <3> QED
            BY <1>1, <2>1, <2>5, <3>1, LintTo
    <2> QED
        BY <2>4, <2>5
<1> QED
    BY <1>2, <1>3, <1>4, <1>5

\* Printing and the exit code; and the end, as far as the lock is concerned.
LEMMA LintEnds ==
    ASSUME LintInv, NEW p \in Runners, RPrint(p) \/ RFinish(p) \/ RUnlock(p) \/ RRemove(p) \/ RPostRun(p)
    PROVE  LintInv'
<1> USE DEF Early, Late, Places, Success, Failure, NewRun
<1>1. Fits(p, rpc[p], run[p]) /\ in' = in
    BY DEF LintInv, RPrint, RFinish, RUnlock, RRemove, RPostRun, NoLocks
<1>2. CASE RPrint(p)
    <2>1. /\ Fits(p, "finish", [run[p] EXCEPT !.logged = TRUE, !.code = Failure])
          /\ Fits(p, "finish", [run[p] EXCEPT !.printed = TRUE,
                                  !.code = IF run[p].out # <<>> THEN in[p].issuesCode ELSE @])
        BY <1>1, <1>2 DEF Fits, RPrint
    <2> QED
        BY <1>1, <1>2, <2>1, LintTo DEF RPrint, RunError
<1>3. CASE RFinish(p)
    <2>1. ExitCode(p) = Success => ~run[p].expired /\ run[p].code = Success
        BY <1>1 DEF ExitCode, TimeoutCode, Fits
    <2>2. \A pc \in Late : Fits(p, pc, [run[p] EXCEPT !.code = ExitCode(p)])
        BY <1>1, <1>3, <2>1 DEF Fits, RFinish
    <2> QED
        BY <1>1, <1>3, <2>2, LintTo DEF RFinish
<1>4. CASE RUnlock(p)
    <2>1. Fits(p, "remove", [run[p] EXCEPT !.fd = 0])
        BY <1>1, <1>4 DEF Fits, RUnlock
    <2> QED
        BY <1>1, <1>4, <2>1, LintTo DEF RUnlock
<1>5. CASE RRemove(p)
    <2>1. Fits(p, "post", run[p])
        BY <1>1, <1>5 DEF Fits, RRemove
    <2> QED
        BY <1>1, <1>5, <2>1, LintTo DEF RRemove
<1>6. CASE RPostRun(p)
    <2>1. Fits(p, "exited", run[p]) /\ Fits(p, "exited", [run[p] EXCEPT !.code = Failure])
        BY <1>1, <1>6 DEF Fits, RPostRun
    <2> QED
        BY <1>1, <1>6, <2>1, LintTo DEF RPostRun
<1> QED
    BY <1>2, <1>3, <1>4, <1>5, <1>6

\* The timeout and the signals may come at any place.
LEMMA LintStopped ==
    ASSUME LintInv, NEW p \in Runners, RExpire(p) \/ RKill(p)
    PROVE  LintInv'
<1> USE DEF Early, Late, Places, NewRun
<1>1. Fits(p, rpc[p], run[p]) /\ rpc[p] \in Places /\ in' = in
    BY DEF LintInv, RExpire, RKill, NoLocks
<1>2. CASE RExpire(p)
    <2>1. Fits(p, rpc[p], [run[p] EXCEPT !.expired = TRUE])
        BY <1>1, <1>2 DEF Fits, RExpire
    <2> QED
        BY <1>1, <1>2, <2>1, LintTo DEF RExpire
<1>3. CASE RKill(p)
    <2>1. Fits(p, "killed", run[p])
        BY <1>1 DEF Fits
    <2> QED
        BY <1>1, <1>3, <2>1, LintTo DEF RKill
<1> QED
    BY <1>2, <1>3

\* Initially nothing is known.
LEMMA LintStarts ==
    ASSUME LintInit
    PROVE  LintInv
<1>1. rpc \in [Runners -> {"start", "absent"}] /\ DOMAIN run = Runners /\ \A p \in Runners : run[p] = NewRun
    BY DEF LintInit, Started
<1>2. ASSUME NEW p \in Runners PROVE Fits(p, rpc[p], NewRun)
    <2>1. rpc[p] \in {"start", "absent"}
        BY <1>1
    <2> QED
        BY <2>1 DEF Fits, NewRun, Early, Late, Success
<1> QED
    BY <1>1, <1>2 DEF LintInv, Early, Places

\* LintInv is inductive.
LEMMA LintStep ==
    ASSUME LintInv, [LintNext]_lintVars
    PROVE  LintInv'
<1>1. CASE UNCHANGED lintVars
    BY <1>1 DEF LintInv, Fits, lintVars
<1>2. CASE LintNext
    BY <1>2, LintPrepares, LintAnalyses, LintEnds, LintStopped DEF LintNext, RStep
<1> QED
    BY <1>1, <1>2

\* For any number of runners, any configurations, packages, issues and faults:
\* the code 0 is only for a complete analysis in time, and for a clean one
\* unless the user asked for 0.
THEOREM HonestExitCode == LintSpec => []ExitCodeIsHonest
<1>1. LintInit => LintInv
    BY LintStarts
<1>2. LintInv /\ [LintNext]_lintVars => LintInv'
    BY LintStep
<1>3. LintInv => ExitCodeIsHonest
    BY DEF LintInv, Fits, ExitCodeIsHonest, Late
<1> QED
    BY <1>1, <1>2, <1>3, PTL DEF LintSpec

-----------------------------------------------------------------------------
(***************************************************************************)
(* run: compile errors are shown.                                          *)
(***************************************************************************)

\* The two fields of an issue that the argument needs.
IsIssue(x) == {"linter", "edits"} \subseteq DOMAIN x

\* Issues, and those of typecheck come without a fix.
Sound(s) ==
    /\ Listed(s)
    /\ \A n \in 1..Len(s) : IsIssue(s[n]) /\ (s[n].linter = "typecheck" => s[n].edits = <<>>)

\* One of them is a compile error.
Shows(s) == Sound(s) /\ \E n \in 1..Len(s) : s[n].linter = "typecheck"

\* Compile errors only, one at least.
OnlyErrors(s) == Shows(s) /\ \A n \in 1..Len(s) : s[n].linter = "typecheck"

\* Lists have a length, and those with an element are not empty.
LEMMA ListedLen ==
    ASSUME NEW s, Listed(s)
    PROVE  Len(s) \in Nat /\ DOMAIN s = 1..Len(s) /\ (Len(s) >= 1 => s # <<>>)
<1>1. PICK X : s \in Seq(X)
    BY DEF Listed
<1> QED
    BY <1>1

\* A list that is not empty has a first element.
LEMMA ListedFirst ==
    ASSUME NEW s, Listed(s), s # <<>>
    PROVE  1 \in 1..Len(s)
<1>1. PICK X : s \in Seq(X)
    BY DEF Listed
<1> QED
    BY <1>1

\* A function on the places of a list is a list as long.
LEMMA MappedList ==
    ASSUME NEW n \in Nat, NEW t, t = [i \in 1..n |-> t[i]]
    PROVE  Listed(t) /\ Len(t) = n /\ <<>> \o t = t
<1> DEFINE X == {t[i] : i \in 1..n}
<1>1. t \in [1..n -> X]
    OBVIOUS
<1>2. t \in Seq(X) /\ Len(t) = n
    BY <1>1, ListOf
<1>3. <<>> \o t = t
    BY <1>2
<1> QED
    BY <1>2, <1>3 DEF Listed

\* A filter that lets typecheck pass.
LEMMA PickedShows ==
    ASSUME NEW s, Sound(s), NEW places
    PROVE  /\ Sound(Picked(s, places))
           /\ Shows(s) /\ (\A n \in 1..Len(s) : s[n].linter = "typecheck" => n \in places) =>
                 Shows(Picked(s, places))
           /\ OnlyErrors(s) /\ 1..Len(s) \subseteq places => OnlyErrors(Picked(s, places))
           /\ Shows(s) /\ places = {n \in 1..Len(s) : s[n].linter = "typecheck"} => OnlyErrors(Picked(s, places))
<1>1. Len(s) \in Nat
    BY ListedLen DEF Sound
<1>2. PICK d : d = Picked(s, places)
    OBVIOUS
<1>3. PickedUpto(d, s, places, Len(s))
    BY <1>1, <1>2, PickedAll
<1>4. Listed(d)
    BY <1>3 DEF PickedUpto, Listed
<1>5. \A k \in 1..Len(d) : \E i \in places : i \in 1..Len(s) /\ d[k] = s[i]
    BY <1>3 DEF PickedUpto
<1>6. \A i \in places : i \in 1..Len(s) => \E k \in 1..Len(d) : d[k] = s[i]
    BY <1>3 DEF PickedUpto
<1>7. Sound(d)
    BY <1>4, <1>5 DEF Sound
<1>8. ASSUME Shows(s), \A n \in 1..Len(s) : s[n].linter = "typecheck" => n \in places
      PROVE  Shows(d)
    BY <1>6, <1>7, <1>8 DEF Shows
<1>9. ASSUME OnlyErrors(s), 1..Len(s) \subseteq places PROVE OnlyErrors(d)
    <2>1. Shows(d)
        BY <1>8, <1>9 DEF OnlyErrors
    <2> QED
        BY <1>5, <1>9, <2>1 DEF OnlyErrors
<1>10. ASSUME Shows(s), places = {n \in 1..Len(s) : s[n].linter = "typecheck"} PROVE OnlyErrors(d)
    <2>1. Shows(d)
        BY <1>8, <1>10
    <2> QED
        BY <1>5, <1>10, <2>1 DEF OnlyErrors
<1> QED
    BY <1>2, <1>7, <1>8, <1>9, <1>10

\* A change of other fields.
LEMMA MappedShows ==
    ASSUME NEW s, Shows(s), NEW t, t = [n \in 1..Len(s) |-> t[n]],
           \A n \in 1..Len(s) : IsIssue(t[n]) /\ t[n].linter = s[n].linter /\ t[n].edits = s[n].edits
    PROVE  Shows(<<>> \o t) /\ (OnlyErrors(s) => OnlyErrors(<<>> \o t))
<1>1. Len(s) \in Nat
    BY ListedLen DEF Shows, Sound
<1>2. Listed(t) /\ Len(t) = Len(s) /\ <<>> \o t = t
    BY <1>1, MappedList
<1>3. Shows(t)
    BY <1>2 DEF Shows, Sound
<1>4. OnlyErrors(s) => OnlyErrors(t)
    BY <1>2, <1>3 DEF OnlyErrors
<1> QED
    BY <1>2, <1>3, <1>4

\* The two path processors that set the form of a name.
LEMMA PathsShow ==
    ASSUME NEW s, Shows(s)
    PROVE  Shows(PathAbsoluter(s)) /\ (OnlyErrors(s) => OnlyErrors(PathRelativity(s)))
<1>1. DOMAIN s = 1..Len(s)
    BY ListedLen DEF Shows, Sound
<1>2. ASSUME NEW form
      PROVE  LET t == [n \in DOMAIN s |-> [s[n] EXCEPT !.path = form]]
             IN  Shows(<<>> \o t) /\ (OnlyErrors(s) => OnlyErrors(<<>> \o t))
    <2> DEFINE t == [n \in DOMAIN s |-> [s[n] EXCEPT !.path = form]]
    <2>1. t = [n \in 1..Len(s) |-> t[n]]
        BY <1>1
    <2>2. \A n \in 1..Len(s) : IsIssue(t[n]) /\ t[n].linter = s[n].linter /\ t[n].edits = s[n].edits
        BY <1>1 DEF Shows, Sound, IsIssue
    <2> HIDE DEF t
    <2>3. Shows(<<>> \o t) /\ (OnlyErrors(s) => OnlyErrors(<<>> \o t))
        BY <2>1, <2>2, MappedShows
    <2> QED
        BY <2>3 DEF t
<1> QED
    BY <1>2 DEF PathAbsoluter, PathRelativity, TransformIssues

\* //line directives change file and line.
LEMMA UnadjusterShows ==
    ASSUME NEW onDisk, NEW analysed, NEW s, Shows(s)
    PROVE  Shows(FilenameUnadjuster(onDisk, analysed, s))
<1>1. DOMAIN s = 1..Len(s)
    BY ListedLen DEF Shows, Sound
<1> DEFINE claims == {f \in analysed : onDisk[f].parses /\ onDisk[f].claims # ""}
           Real(name) == CHOOSE f \in claims : onDisk[f].claims = name
           Unadjusted(i) ==
             IF \E f \in claims : onDisk[f].claims = i.file
             THEN [i EXCEPT !.file = Real(i.file), !.line = @ + onDisk[Real(i.file)].shift]
             ELSE i
           t == [n \in DOMAIN s |-> Unadjusted(s[n])]
<1>2. FilenameUnadjuster(onDisk, analysed, s) = <<>> \o t
    BY DEF FilenameUnadjuster, TransformIssues
<1>3. \A x : IsIssue(x) => IsIssue(Unadjusted(x)) /\ Unadjusted(x).linter = x.linter /\ Unadjusted(x).edits = x.edits
    BY DEF IsIssue
<1> HIDE DEF Unadjusted
<1>4. t = [n \in 1..Len(s) |-> t[n]]
    BY <1>1
<1>5. \A n \in 1..Len(s) : IsIssue(t[n]) /\ t[n].linter = s[n].linter /\ t[n].edits = s[n].edits
    BY <1>1, <1>3 DEF Shows, Sound
<1> HIDE DEF t
<1> QED
    BY <1>2, <1>4, <1>5, MappedShows

\* FilterIssues never hides a compile error, and invalid_issue leaves nothing else.
LEMMA FiltersShow ==
    ASSUME NEW s, Shows(s), NEW onDisk
    PROVE  Shows(Cgo(onDisk, s)) /\ OnlyErrors(InvalidIssue(onDisk, s))
<1>1. Shows(Cgo(onDisk, s))
    <2> DEFINE places == {n \in 1..Len(s) : IsTypecheck(s[n]) \/ onDisk[s[n].file].kind # "cgo"}
    <2>1. Cgo(onDisk, s) = Picked(s, places)
        BY DEF Cgo, FilterIssues, Filter
    <2>2. \A n \in 1..Len(s) : s[n].linter = "typecheck" => n \in places
        BY DEF IsTypecheck
    <2> HIDE DEF places
    <2> QED
        BY <2>1, <2>2, PickedShows DEF Shows
<1>2. OnlyErrors(InvalidIssue(onDisk, s))
    <2> DEFINE places == {n \in 1..Len(s) : IsTypecheck(s[n])}
    <2>1. InvalidIssue(onDisk, s) = IF Picked(s, places) # <<>> THEN Picked(s, places)
                                   ELSE Picked(s, {n \in 1..Len(s) : onDisk[s[n].file].kind \in {"go", "mod"}})
        BY DEF InvalidIssue, Filter
    <2>2. places = {n \in 1..Len(s) : s[n].linter = "typecheck"}
        BY DEF IsTypecheck
    <2> HIDE DEF places
    <2>3. OnlyErrors(Picked(s, places))
        BY <2>2, PickedShows DEF Shows
    <2>4. Picked(s, places) # <<>>
        BY <2>3, ListedLen DEF OnlyErrors, Shows, Sound
    <2> QED
        BY <2>1, <2>3, <2>4
<1> QED
    BY <1>1, <1>2

\* What two lists show, both of them show.
LEMMA ConcatShows ==
    ASSUME NEW s, Sound(s), NEW t, Sound(t)
    PROVE  /\ Sound(s \o t)
           /\ Shows(s) \/ Shows(t) => Shows(s \o t)
           /\ OnlyErrors(s) /\ (\A n \in 1..Len(t) : t[n].linter = "typecheck") => OnlyErrors(s \o t)
<1>1. PICK X : s \in Seq(X)
    BY DEF Sound, Listed
<1>2. PICK Y : t \in Seq(Y)
    BY DEF Sound, Listed
<1>3. s \in Seq(X \cup Y) /\ t \in Seq(X \cup Y)
    BY <1>1, <1>2
<1>4. PICK u : u = s \o t
    OBVIOUS
<1>5. /\ u \in Seq(X \cup Y) /\ Len(u) = Len(s) + Len(t) /\ Len(s) \in Nat /\ Len(t) \in Nat
      /\ \A n \in 1..Len(s) : u[n] = s[n]
      /\ \A n \in 1..Len(t) : u[Len(s) + n] = t[n]
    BY <1>3, <1>4, ConcatProperties
<1>6. \A n \in 1..Len(u) : n \in 1..Len(s) \/ \E k \in 1..Len(t) : n = Len(s) + k
    <2> TAKE n \in 1..Len(u)
    <2>1. CASE n > Len(s)
        <3>1. n - Len(s) \in 1..Len(t) /\ n = Len(s) + (n - Len(s))
            BY <1>5, <2>1
        <3> QED
            BY <3>1
    <2> QED
        BY <1>5, <2>1
<1>7. \A n \in 1..Len(u) : (\E k \in 1..Len(s) : u[n] = s[k]) \/ (\E k \in 1..Len(t) : u[n] = t[k])
    BY <1>5, <1>6
<1>8. /\ \A k \in 1..Len(s) : \E n \in 1..Len(u) : u[n] = s[k]
      /\ \A k \in 1..Len(t) : \E n \in 1..Len(u) : u[n] = t[k]
    <2>1. ASSUME NEW k \in 1..Len(s) PROVE k \in 1..Len(u) /\ u[k] = s[k]
        BY <1>5
    <2>2. ASSUME NEW k \in 1..Len(t) PROVE Len(s) + k \in 1..Len(u) /\ u[Len(s) + k] = t[k]
        BY <1>5
    <2> QED
        BY <2>1, <2>2
<1>9. Sound(u)
    <2> DEFINE Good(x) == IsIssue(x) /\ (x.linter = "typecheck" => x.edits = <<>>)
    <2>1. (\A k \in 1..Len(s) : Good(s[k])) /\ (\A k \in 1..Len(t) : Good(t[k]))
        BY DEF Sound
    <2> HIDE DEF Good
    <2>2. \A n \in 1..Len(u) : Good(u[n])
        BY <1>7, <2>1
    <2>3. Listed(u)
        BY <1>5 DEF Listed
    <2> QED
        BY <2>2, <2>3 DEF Sound, Good
<1>10. Shows(s) \/ Shows(t) => Shows(u)
    BY <1>8, <1>9 DEF Shows
<1>11. OnlyErrors(s) /\ (\A n \in 1..Len(t) : t[n].linter = "typecheck") => OnlyErrors(u)
    BY <1>7, <1>10 DEF OnlyErrors
<1> QED
    BY <1>4, <1>9, <1>10, <1>11

\* The exclusions, the diff and the fixer's own filter.
LEMMA ExclusionsShow ==
    ASSUME NEW s, OnlyErrors(s), NEW cfg, NEW onDisk, NEW diff
    PROVE  /\ OnlyErrors(ExclusionPaths(cfg, onDisk, s))
           /\ OnlyErrors(GeneratedFileFilter(cfg, onDisk, s))
           /\ OnlyErrors(ExclusionRules(cfg, onDisk, s))
           /\ OnlyErrors(Diff(diff, onDisk, s))
           /\ OnlyErrors(NotFixable(s))
<1>1. ASSUME NEW places, \A n \in 1..Len(s) : IsTypecheck(s[n]) => n \in places
      PROVE  OnlyErrors(Picked(s, places))
    BY <1>1, PickedShows DEF OnlyErrors, Shows, IsTypecheck
<1>2. OnlyErrors(ExclusionPaths(cfg, onDisk, s))
    <2> DEFINE places == {n \in 1..Len(s) : IsTypecheck(s[n]) \/
                             /\ onDisk[s[n].file].dirs \cap cfg.paths = {}
                             /\ cfg.pathsExcept # {} => onDisk[s[n].file].dirs \cap cfg.pathsExcept # {}}
    <2>1. ExclusionPaths(cfg, onDisk, s) = Picked(s, places)
        BY DEF ExclusionPaths, FilterIssues, Filter
    <2>2. \A n \in 1..Len(s) : IsTypecheck(s[n]) => n \in places
        OBVIOUS
    <2> HIDE DEF places
    <2> QED
        BY <1>1, <2>1, <2>2
<1>3. OnlyErrors(GeneratedFileFilter(cfg, onDisk, s))
    <2> DEFINE places == {n \in 1..Len(s) : IsTypecheck(s[n]) \/
                             (onDisk[s[n].file].kind = "mod" \/ ~IsGeneratedFile(cfg, onDisk[s[n].file]))}
    <2>1. GeneratedFileFilter(cfg, onDisk, s) \in {s, Picked(s, places)}
        BY DEF GeneratedFileFilter, FilterIssues, Filter
    <2>2. \A n \in 1..Len(s) : IsTypecheck(s[n]) => n \in places
        OBVIOUS
    <2> HIDE DEF places
    <2> QED
        BY <1>1, <2>1, <2>2
<1>4. OnlyErrors(ExclusionRules(cfg, onDisk, s))
    <2> DEFINE rules == cfg.rules \cup UNION {PresetRules(p) : p \in cfg.presets}
               places == {n \in 1..Len(s) : IsTypecheck(s[n]) \/ ~ \E r \in rules : RuleMatches(r, onDisk, s[n])}
    <2>1. ExclusionRules(cfg, onDisk, s) = Picked(s, places)
        BY DEF ExclusionRules, FilterIssues, Filter
    <2>2. \A n \in 1..Len(s) : IsTypecheck(s[n]) => n \in places
        OBVIOUS
    <2> HIDE DEF places
    <2> QED
        BY <1>1, <2>1, <2>2
<1>5. OnlyErrors(Diff(diff, onDisk, s))
    <2> DEFINE places == {n \in 1..Len(s) : IsTypecheck(s[n]) \/ s[n].line \in onDisk[s[n].file].changed}
    <2>1. Diff(diff, onDisk, s) \in {s, Picked(s, places)}
        BY DEF Diff, FilterIssues, Filter
    <2>2. \A n \in 1..Len(s) : IsTypecheck(s[n]) => n \in places
        OBVIOUS
    <2> HIDE DEF places
    <2> QED
        BY <1>1, <2>1, <2>2
<1>6. OnlyErrors(NotFixable(s))
    <2> DEFINE places == {n \in 1..Len(s) : s[n].linter \notin AllFormatterNames /\ s[n].edits = <<>>}
    <2>1. NotFixable(s) = Picked(s, places)
        BY DEF NotFixable, Filter
    <2>2. \A n \in 1..Len(s) : IsTypecheck(s[n]) => n \in places
        BY DEF OnlyErrors, Shows, Sound, IsTypecheck, AllFormatterNames
    <2> HIDE DEF places
    <2> QED
        BY <1>1, <2>1, <2>2
<1> QED
    BY <1>2, <1>3, <1>4, <1>5, <1>6

\* nolint: directives are looked at for other issues only.
LEMMA NolintShows ==
    ASSUME NEW s, OnlyErrors(s), NEW onDisk, NEW enabled
    PROVE  OnlyErrors(NolintFilter(onDisk, enabled, s))
<1>1. PICK sorted : sorted = NolintlintLast(s)
    OBVIOUS
<1>2. OnlyErrors(sorted)
    <2> DEFINE first == {n \in 1..Len(s) : s[n].linter # "nolintlint"}
               last  == {n \in 1..Len(s) : s[n].linter = "nolintlint"}
    <2>1. sorted = Picked(s, first) \o Picked(s, last)
        BY <1>1 DEF NolintlintLast, Filter
    <2>2. 1..Len(s) \subseteq first /\ last = {}
        BY DEF OnlyErrors
    <2> HIDE DEF first, last
    <2>3. OnlyErrors(Picked(s, first)) /\ Sound(Picked(s, last))
        BY <2>2, PickedShows DEF OnlyErrors, Shows
    <2>4. Len(s) \in Nat
        BY ListedLen DEF OnlyErrors, Shows, Sound
    <2>5. PICK d : d = Picked(s, last)
        OBVIOUS
    <2>6. PickedUpto(d, s, last, Len(s))
        BY <2>4, <2>5, PickedAll
    <2>7. \A n \in 1..Len(d) : FALSE
        BY <2>2, <2>6 DEF PickedUpto
    <2> QED
        BY <2>1, <2>3, <2>5, <2>7, ConcatShows DEF OnlyErrors, Shows
<1>3. PICK X : sorted \in Seq(X)
    BY <1>2 DEF OnlyErrors, Shows, Sound, Listed
<1>4. Len(sorted) \in Nat /\ \A n \in 1..Len(sorted) : sorted[n] \in X
    BY <1>3
<1> DEFINE
        Foreign(i) == i.linter = "nolintlint" /\ i.expect \notin {"", "any"} \cup enabled
        Filtered(acc, i) ==
            LET ranges == IgnoredRanges(onDisk[i.file])
                matched == {<<m[2], m[3]>> : m \in {m \in acc.matched : m[1] = i.file}}
                hits == {k \in DOMAIN ranges : DoesMatch(onDisk[i.file], ranges[k], matched, i)}
                first == CHOOSE k \in hits : \A j \in hits : k <= j
            IN IF Foreign(i) THEN acc
               ELSE IF IsTypecheck(i) \/ hits = {} THEN [acc EXCEPT !.out = Append(@, i)]
               ELSE [acc EXCEPT !.matched = @ \cup {<<i.file, ranges[first].d, i.linter>>}]
        Good(f) == f = [n \in 0..Len(sorted) |->
                          IF n = 0 THEN [matched |-> {}, out |-> <<>>] ELSE Filtered(f[n - 1], sorted[n])]
        after == CHOOSE f : Good(f)
        State(n) == [matched |-> {}, out |-> SubSeq(sorted, 1, n)]
<1>5. NolintFilter(onDisk, enabled, s) = after[Len(sorted)].out
    BY <1>1 DEF NolintFilter
<1>6. \A n \in 1..Len(sorted) : \A acc : Filtered(acc, sorted[n]) = [acc EXCEPT !.out = Append(@, sorted[n])]
    BY <1>2 DEF OnlyErrors, IsTypecheck
<1> HIDE DEF Filtered
<1>7. \A n \in 1..Len(sorted) : Filtered(State(n - 1), sorted[n]) = State(n)
    <2> TAKE n \in 1..Len(sorted)
    <2>1. Append(SubSeq(sorted, 1, n - 1), sorted[n]) = SubSeq(sorted, 1, n)
        BY <1>3, <1>4
    <2>2. PICK p : p = SubSeq(sorted, 1, n - 1)
        OBVIOUS
    <2>3. PICK acc : acc = [matched |-> {}, out |-> p]
        OBVIOUS
    <2>4. [acc EXCEPT !.out = Append(@, sorted[n])] = [matched |-> {}, out |-> Append(p, sorted[n])]
        <3>1. \A v : [acc EXCEPT !.out = v] = [matched |-> {}, out |-> v]
            BY <2>3
        <3>2. acc.out = p
            BY <2>3
        <3>3. [acc EXCEPT !.out = Append(@, sorted[n])] = [acc EXCEPT !.out = Append(p, sorted[n])]
            BY <3>2, Zenon
        <3> QED
            BY <3>1, <3>3
    <2>5. Filtered(acc, sorted[n]) = [acc EXCEPT !.out = Append(@, sorted[n])]
        BY <1>6
    <2> QED
        BY <2>1, <2>2, <2>3, <2>4, <2>5
<1>8. State(0) = [matched |-> {}, out |-> <<>>]
    <2>1. SubSeq(sorted, 1, 0) = <<>>
        BY <1>3, SubSeqEmpty
    <2> QED
        BY <2>1
<1> HIDE DEF State
<1>9. Good([n \in 0..Len(sorted) |-> State(n)])
    BY <1>4, <1>7, <1>8
<1> HIDE DEF Good
<1>10. Good(after)
    BY <1>9
<1> HIDE DEF after
<1>11. after[0] = State(0) /\ \A n \in 1..Len(sorted) : after[n] = Filtered(after[n - 1], sorted[n])
    <2>1. after = [n \in 0..Len(sorted) |->
                     IF n = 0 THEN [matched |-> {}, out |-> <<>>] ELSE Filtered(after[n - 1], sorted[n])]
        BY <1>10 DEF Good
    <2>2. 0 \in 0..Len(sorted) /\ \A n \in 1..Len(sorted) : n \in 0..Len(sorted) /\ n # 0
        BY <1>4
    <2>3. after[0] = [matched |-> {}, out |-> <<>>]
        BY <2>1, <2>2
    <2>4. \A n \in 1..Len(sorted) : after[n] = Filtered(after[n - 1], sorted[n])
        BY <2>1, <2>2
    <2> QED
        BY <1>8, <2>3, <2>4
<1> DEFINE T == {n \in Nat : n <= Len(sorted) => after[n] = State(n)}
<1>12. 0 \in T
    BY <1>11
<1>13. ASSUME NEW n \in Nat, n \in T PROVE n + 1 \in T
    <2> SUFFICES ASSUME n + 1 <= Len(sorted) PROVE after[n + 1] = State(n + 1)
        OBVIOUS
    <2>1. n + 1 \in 1..Len(sorted) /\ (n + 1) - 1 = n /\ n <= Len(sorted)
        BY <1>4
    <2>2. after[n] = State(n)
        BY <1>13, <2>1
    <2> QED
        BY <1>7, <1>11, <2>1, <2>2
<1> HIDE DEF T
<1>14. Nat \subseteq T
    BY <1>12, <1>13, InductionOverNat
<1>15. after[Len(sorted)] = State(Len(sorted))
    BY <1>4, <1>14 DEF T
<1>16. SubSeq(sorted, 1, Len(sorted)) = sorted
    BY <1>3
<1>17. State(Len(sorted)) = [matched |-> {}, out |-> sorted]
    BY <1>16 DEF State
<1>18. NolintFilter(onDisk, enabled, s) = sorted
    BY <1>5, <1>15, <1>17
<1> QED
    BY <1>2, <1>18

\* All that comes before the fixer.
LEMMA BeforeFixerShows ==
    ASSUME NEW inp, NEW linters, NEW pkgs, NEW issues, Shows(issues)
    PROVE  OnlyErrors(BeforeFixer(inp, linters, pkgs, issues))
<1> DEFINE onDisk == inp.files
           compiled == UNION {p.files : p \in ToSet(pkgs)}
           cfg == Loaded(inp.cfg, inp.flags)
           a == FilenameUnadjuster(onDisk, compiled, Cgo(onDisk, PathAbsoluter(issues)))
           b == PathRelativity(InvalidIssue(onDisk, a))
           c == GeneratedFileFilter(cfg, onDisk, ExclusionPaths(cfg, onDisk, b))
           d == NolintFilter(onDisk, NamesOf(linters), ExclusionRules(cfg, onDisk, c))
<1>1. BeforeFixer(inp, linters, pkgs, issues) = Diff(inp.diff, onDisk, d)
    BY DEF BeforeFixer, ProcessPaths
<1>2. Shows(a)
    BY PathsShow, FiltersShow, UnadjusterShows
<1> HIDE DEF a, onDisk, cfg
<1>3. OnlyErrors(b)
    <2>1. OnlyErrors(InvalidIssue(onDisk, a))
        BY <1>2, FiltersShow
    <2> QED
        BY <2>1, PathsShow DEF OnlyErrors
<1> HIDE DEF b
<1>4. OnlyErrors(c)
    BY <1>3, ExclusionsShow
<1> HIDE DEF c
<1>5. OnlyErrors(d)
    BY <1>4, ExclusionsShow, NolintShows
<1> HIDE DEF d
<1> QED
    BY <1>1, <1>5, ExclusionsShow

\* The fixer: a compile error has no fix, so that nothing can stop it either.
LEMMA FixerShows ==
    ASSUME NEW s, OnlyErrors(s), NEW fix, NEW onDisk, NEW names, NEW o \in FixerOutcomes(fix, onDisk, names, s)
    PROVE  OnlyErrors(o.issues)
<1>1. \A i \in ToSet(s) : ~Fixable(i)
    <2>1. DOMAIN s = 1..Len(s)
        BY ListedLen DEF OnlyErrors, Shows, Sound
    <2> QED
        BY <2>1 DEF ToSet, Fixable, OnlyErrors, Shows, Sound
<1>2. o.issues \in {s, NotFixable(s)}
    BY <1>1 DEF FixerOutcomes
<1> QED
    BY <1>2, ExclusionsShow

\* A list with an element.
Some(s) == Listed(s) /\ s # <<>>

\* A limit keeps the first issue.
LEMMA LimitsKeepFirst ==
    ASSUME NEW s, Some(s), NEW places, 1 \in places
    PROVE  Some(Picked(s, places))
<1>1. Len(s) \in Nat /\ 1 \in 1..Len(s)
    BY ListedFirst, ListedLen DEF Some
<1>2. PICK d : d = Picked(s, places)
    OBVIOUS
<1>3. PickedUpto(d, s, places, Len(s))
    BY <1>1, <1>2, PickedAll
<1>4. Listed(d) /\ \E k \in 1..Len(d) : d[k] = s[1]
    BY <1>1, <1>3 DEF PickedUpto, Listed
<1>5. Len(d) >= 1
    BY <1>4, ListedLen
<1> QED
    BY <1>2, <1>4, <1>5, ListedLen DEF Some

\* The first of a key is one.
LEMMA FirstCounts ==
    ASSUME NEW S, S = {1}
    PROVE  Cardinality(S) = 1
BY FS_Singleton

\* The limits leave something, when they are not below one.
LEMMA LimitsShow ==
    ASSUME NEW s, Some(s), NEW limits, limits.same \in Nat, limits.linter \in Nat, NEW fix
    PROVE  /\ Some(UniqByLine(limits, s)) /\ Some(MaxPerFileFromLinter(fix, s))
           /\ Some(MaxSameIssues(limits, s)) /\ Some(MaxFromLinter(limits, s))
<1>1. Len(s) \in Nat /\ 1 \in 1..Len(s) /\ 1 <= Len(s)
    BY ListedFirst, ListedLen DEF Some
<1>2. Some(UniqByLine(limits, s))
    <2> DEFINE Same(n) == {m \in 1..n : <<s[m].file, s[m].line>> = <<s[n].file, s[n].line>>}
               places == {n \in 1..Len(s) : Cardinality(Same(n)) <= 1}
    <2>1. UniqByLine(limits, s) \in {s, Picked(s, places)}
        BY DEF UniqByLine, AtMost
    <2>2. Same(1) = {1}
        OBVIOUS
    <2> HIDE DEF Same
    <2>3. 1 \in places
        BY <1>1, <2>2, FirstCounts
    <2> HIDE DEF places
    <2> QED
        BY <2>1, <2>3, LimitsKeepFirst
<1>3. Some(MaxPerFileFromLinter(fix, s))
    <2> DEFINE Same(n) == {m \in 1..n : <<s[m].file, s[m].linter>> = <<s[n].file, s[n].linter>>}
               Limit(n) == IF ~fix /\ s[n].linter \in AllFormatterNames THEN 1 ELSE Len(s)
               places == {n \in 1..Len(s) : Cardinality(Same(n)) <= Limit(n)}
    <2>1. MaxPerFileFromLinter(fix, s) = Picked(s, places)
        BY DEF MaxPerFileFromLinter, AtMost
    <2>2. Same(1) = {1}
        OBVIOUS
    <2> HIDE DEF Same
    <2>3. 1 \in places
        BY <1>1, <2>2, FirstCounts
    <2> HIDE DEF places
    <2> QED
        BY <2>1, <2>3, LimitsKeepFirst
<1>4. Some(MaxSameIssues(limits, s))
    <2> DEFINE Same(n) == {m \in 1..n : s[m].text = s[n].text}
               places == {n \in 1..Len(s) : Cardinality(Same(n)) <= limits.same}
    <2>1. MaxSameIssues(limits, s) = IF limits.same = 0 THEN s ELSE Picked(s, places)
        BY DEF MaxSameIssues, AtMost
    <2>2. Same(1) = {1}
        OBVIOUS
    <2> HIDE DEF Same
    <2>3. limits.same # 0 => 1 \in places
        BY <1>1, <2>2, FirstCounts
    <2> HIDE DEF places
    <2> QED
        BY <2>1, <2>3, LimitsKeepFirst
<1>5. Some(MaxFromLinter(limits, s))
    <2> DEFINE Same(n) == {m \in 1..n : s[m].linter = s[n].linter}
               places == {n \in 1..Len(s) : Cardinality(Same(n)) <= limits.linter}
    <2>1. MaxFromLinter(limits, s) = IF limits.linter = 0 THEN s ELSE Picked(s, places)
        BY DEF MaxFromLinter, AtMost
    <2>2. Same(1) = {1}
        OBVIOUS
    <2> HIDE DEF Same
    <2>3. limits.linter # 0 => 1 \in places
        BY <1>1, <2>2, FirstCounts
    <2> HIDE DEF places
    <2> QED
        BY <2>1, <2>3, LimitsKeepFirst
<1> QED
    BY <1>2, <1>3, <1>4, <1>5

\* A change of every issue leaves as many.
LEMMA MappedSome ==
    ASSUME NEW s, Some(s), NEW t, t = [n \in 1..Len(s) |-> t[n]]
    PROVE  Some(t) /\ Some(<<>> \o t)
<1>1. Len(s) \in Nat /\ 1 \in 1..Len(s)
    BY ListedFirst, ListedLen DEF Some
<1>2. Listed(t) /\ Len(t) = Len(s) /\ <<>> \o t = t
    BY <1>1, MappedList
<1>3. t # <<>>
    BY <1>1, <1>2, ListedLen
<1> QED
    BY <1>2, <1>3 DEF Some

\* Severity, the form of the names and the order.
LEMMA LastStepsShow ==
    ASSUME NEW s, Some(s), NEW default, NEW rules, NEW onDisk, NEW cfg, NEW names
    PROVE  /\ Some(Severity(default, rules, onDisk, s))
           /\ Some(PathPrettifier(cfg, s))
           /\ Some(SortResults(cfg, names, s))
<1>1. DOMAIN s = 1..Len(s)
    BY ListedLen DEF Some
<1>2. Some(Severity(default, rules, onDisk, s))
    <2> DEFINE Matching(i) == {n \in DOMAIN rules : RuleMatches(rules[n].base, onDisk, i)}
               FirstRule(i) == rules[CHOOSE n \in Matching(i) : \A m \in Matching(i) : n <= m].severity
               Level(i) == IF Matching(i) # {} /\ FirstRule(i) # "" THEN FirstRule(i) ELSE default
               Leveled(i) == IF Level(i) = "@linter" THEN i ELSE [i EXCEPT !.severity = Level(i)]
               t == [n \in DOMAIN s |-> Leveled(s[n])]
    <2>1. Severity(default, rules, onDisk, s) \in {s, <<>> \o t}
        BY DEF Severity, TransformIssues
    <2> HIDE DEF Leveled
    <2>2. t = [n \in 1..Len(s) |-> t[n]]
        BY <1>1
    <2> HIDE DEF t
    <2> QED
        BY <2>1, <2>2, MappedSome
<1>3. Some(PathPrettifier(cfg, s))
    <2> DEFINE t == [n \in DOMAIN s |-> [s[n] EXCEPT !.path = "relative"]]
    <2>1. PathPrettifier(cfg, s) \in {s, <<>> \o t}
        BY DEF PathPrettifier, TransformIssues
    <2>2. t = [n \in 1..Len(s) |-> t[n]]
        BY <1>1
    <2> HIDE DEF t
    <2> QED
        BY <2>1, <2>2, MappedSome
<1>4. Some(SortResults(cfg, names, s))
    <2>1. PICK places : SortResults(cfg, names, s) = [n \in 1..Len(s) |-> s[places[n]]]
        BY Zenon DEF SortResults
    <2>2. PICK t : t = [n \in 1..Len(s) |-> s[places[n]]]
        OBVIOUS
    <2>3. t = [n \in 1..Len(s) |-> t[n]]
        BY <2>2
    <2> QED
        BY <2>1, <2>2, <2>3, MappedSome
<1> QED
    BY <1>2, <1>3, <1>4

\* All that comes after the fixer.
LEMMA AfterFixerShows ==
    ASSUME NEW inp, inp.limits.same \in Nat, inp.limits.linter \in Nat, NEW issues, OnlyErrors(issues)
    PROVE  AfterFixer(inp, issues) # <<>>
<1> DEFINE cfg == Loaded(inp.cfg, inp.flags)
           a == MaxPerFileFromLinter(inp.fix, UniqByLine(inp.limits, issues))
           b == MaxFromLinter(inp.limits, MaxSameIssues(inp.limits, a))
           c == Severity(cfg.severity, inp.severityRules, inp.files, b)
<1>1. Some(issues)
    BY ListedLen DEF OnlyErrors, Shows, Sound, Some
<1>2. AfterFixer(inp, issues) = SortResults(cfg, inp.names, PathPrettifier(cfg, c))
    BY DEF AfterFixer
<1>3. Some(a)
    BY <1>1, LimitsShow
<1> HIDE DEF a
<1>4. Some(b)
    BY <1>3, LimitsShow
<1> HIDE DEF b, cfg
<1>5. Some(c)
    BY <1>4, LastStepsShow
<1> HIDE DEF c
<1>6. Some(PathPrettifier(cfg, c))
    BY <1>5, LastStepsShow
<1> QED
    BY <1>2, <1>6, LastStepsShow DEF Some

\* What a group of linters reports; with typecheck among them, also what does
\* not compile.
LEMMA LintersShow ==
    ASSUME NEW inp, Len(inp.found) \in Nat,
           \A n \in 1..Len(inp.found) : IsIssue(inp.found[n]) /\ inp.found[n].linter # "typecheck",
           NEW names, NEW pkgs, Len(pkgs) \in Nat
    PROVE  /\ Sound(LinterIssues(inp, names, pkgs))
           /\ "typecheck" \in names /\ (\E k \in 1..Len(pkgs) : HasErrors(inp, pkgs[k])) =>
                 Shows(LinterIssues(inp, names, pkgs))
<1> DEFINE onDisk == UNION {p.files : p \in ToSet(pkgs)}
           failing == {n \in 1..Len(pkgs) : HasErrors(inp, pkgs[n])}
           broken == Picked(pkgs, failing)
           Error(n) ==
             [linter |-> "typecheck", file |-> CHOOSE f \in broken[n].files : inp.files[f].kind = "go", line |-> 1,
              text |-> "does not compile", source |-> "", edits |-> <<>>, expect |-> "", severity |-> "", path |-> "relative"]
           compile == [n \in DOMAIN broken |-> Error(n)]
           broke == UNION {p.files : p \in ToSet(broken)}
           Reported(i) == /\ i.linter \in names
                          /\ \/ inp.files[i.file].kind = "mod"
                             \/ \E f \in onDisk \ broke : i.file \in {f, inp.files[f].claims}
           others == {n \in 1..Len(inp.found) : Reported(inp.found[n])}
           errors == IF "typecheck" \in names THEN compile ELSE <<>>
<1>1. LinterIssues(inp, names, pkgs) = errors \o Picked(inp.found, others)
    BY DEF LinterIssues, Filter
<1>2. Sound(Picked(inp.found, others))
    <2> HIDE DEF others
    <2>1. PICK d : d = Picked(inp.found, others)
        OBVIOUS
    <2>2. PickedUpto(d, inp.found, others, Len(inp.found))
        BY <2>1, PickedAll
    <2>3. Sound(d)
        BY <2>2 DEF PickedUpto, Sound, Listed
    <2> QED
        BY <2>1, <2>3
<1>3. PickedUpto(broken, pkgs, failing, Len(pkgs))
    <2> HIDE DEF failing
    <2> QED
        BY PickedAll
<1>4. Listed(broken)
    BY <1>3 DEF PickedUpto, Listed
<1>5. Len(broken) \in Nat /\ DOMAIN broken = 1..Len(broken)
    BY <1>4, ListedLen
<1>6. \A n : IsIssue(Error(n)) /\ Error(n).linter = "typecheck" /\ Error(n).edits = <<>>
    BY DEF IsIssue
<1>7. (\E k \in 1..Len(pkgs) : HasErrors(inp, pkgs[k])) => \E n \in 1..Len(broken) : TRUE
    BY <1>3 DEF PickedUpto
<1> HIDE DEF Error, broken, failing, others
<1>8. compile = [n \in 1..Len(broken) |-> compile[n]] /\ \A n \in 1..Len(broken) : compile[n] = Error(n)
    BY <1>5
<1> HIDE DEF compile
<1>9. Listed(compile) /\ Len(compile) = Len(broken)
    BY <1>5, <1>8, MappedList
<1>10. Sound(compile) /\ ((\E k \in 1..Len(pkgs) : HasErrors(inp, pkgs[k])) => Shows(compile))
    BY <1>6, <1>7, <1>8, <1>9 DEF Sound, Shows
<1>11. Sound(<<>>)
    <2>1. <<>> \in Seq({}) /\ Len(<<>>) = 0 /\ 1..0 = {}
        OBVIOUS
    <2> QED
        BY <2>1 DEF Sound, Listed
<1>12. Sound(errors)
    BY <1>10, <1>11
<1>13. "typecheck" \in names => errors = compile
    OBVIOUS
<1> HIDE DEF errors
<1> QED
    BY <1>1, <1>2, <1>10, <1>12, <1>13, ConcatShows

\* narrowToChanges keeps what does not compile, if types are loaded.
LEMMA NarrowingShows ==
    ASSUME NEW inp, NEW types, NEW pkgs, Len(pkgs) \in Nat
    PROVE  /\ Len(NarrowToChanges(inp, types, pkgs)) \in Nat
           /\ types /\ (\E k \in 1..Len(pkgs) : HasErrors(inp, pkgs[k])) =>
                \E k \in 1..Len(NarrowToChanges(inp, types, pkgs)) : HasErrors(inp, NarrowToChanges(inp, types, pkgs)[k])
<1> DEFINE places == {n \in 1..Len(pkgs) : \/ types /\ HasErrors(inp, pkgs[n])
                                           \/ \E f \in pkgs[n].files : inp.files[f].changed # {}}
<1>1. PICK d : d = Picked(pkgs, places)
    OBVIOUS
<1>2. NarrowToChanges(inp, types, pkgs) \in {pkgs, d}
    BY <1>1 DEF NarrowToChanges, ChangedPackages, Filter
<1>3. types => \A n \in 1..Len(pkgs) : HasErrors(inp, pkgs[n]) => n \in places
    OBVIOUS
<1> HIDE DEF places
<1>4. PickedUpto(d, pkgs, places, Len(pkgs)) /\ Len(d) \in Nat
    BY <1>1, PickedAll, PickedList
<1>5. types /\ (\E k \in 1..Len(pkgs) : HasErrors(inp, pkgs[k])) => \E k \in 1..Len(d) : HasErrors(inp, d[k])
    BY <1>3, <1>4 DEF PickedUpto
<1> QED
    BY <1>2, <1>4, <1>5

\* The packages that the loader keeps are a list.
LEMMA LoadedList ==
    ASSUME NEW pkgs, Len(pkgs) \in Nat
    PROVE  LET all == FilterDuplicatePackages(FilterTestMainPackages(pkgs))
           IN  Len(all) \in Nat /\ DOMAIN all = 1..Len(all)
<1>1. PICK mains : mains = {n \in 1..Len(pkgs) : ~pkgs[n].testMain}
    OBVIOUS
<1>2. PICK some : some = Picked(pkgs, mains)
    OBVIOUS
<1>3. FilterTestMainPackages(pkgs) = some
    BY <1>1, <1>2 DEF FilterTestMainPackages, Filter
<1>4. Len(some) \in Nat
    BY <1>2, PickedList
<1>5. PICK plain : plain = {n \in 1..Len(some) :
                        some[n].variantOf # "" \/ some[n].path \notin {p.variantOf : p \in ToSet(some)} \ {""}}
    OBVIOUS
<1>6. FilterDuplicatePackages(some) = Picked(some, plain)
    BY <1>5 DEF FilterDuplicatePackages, Filter
<1>7. Listed(Picked(some, plain))
    BY <1>4, PickedList DEF Listed
<1> QED
    BY <1>3, <1>6, <1>7, ListedLen

\* The linters that do nothing with an old Go are two of the catalog, and
\* typecheck is none of them.
LEMMA NoopsOfTheCatalog ==
    /\ \A lc \in Catalog : "go122" \in lc.opts <=> lc.name \in {"copyloopvar", "intrange"}
    /\ \E lc \in Catalog : lc.name = "typecheck"
    /\ {"copyloopvar", "intrange", "typecheck"} \subseteq NamesOf(Catalog)
<1> DEFINE Fine(lc) == "go122" \in lc.opts <=> lc.name \in {"copyloopvar", "intrange"}
<1>1. \A lc \in Build1 : Fine(lc)
    BY DEF Build1, With
<1>2. \A lc \in Build2 : Fine(lc)
    BY DEF Build2, With
<1>3. \A lc \in Build3 : Fine(lc)
    BY DEF Build3, With
<1>4. \A lc \in Build4 : Fine(lc)
    BY DEF Build4, With
<1>5. \A lc \in Build5 : Fine(lc)
    BY DEF Build5, With
<1>6. \A lc \in Catalog : Fine(lc)
    BY <1>1, <1>2, <1>3, <1>4, <1>5 DEF Catalog
<1>7. \E lc \in Build4 : lc.name = "typecheck"
    <2>1. [name |-> "typecheck", opts |-> {"internal"}] \in With({"internal"}, {"typecheck"})
        BY DEF With
    <2>2. [name |-> "typecheck", opts |-> {"internal"}] \in Build4
        BY <2>1 DEF Build4
    <2>3. [name |-> "typecheck", opts |-> {"internal"}].name = "typecheck"
        OBVIOUS
    <2> QED
        BY <2>2, <2>3
<1>8. \E lc \in Build1 : lc.name = "copyloopvar"
    <2>1. [name |-> "copyloopvar", opts |-> {"fix", "go122"}] \in With({"fix", "go122"}, {"copyloopvar"})
        BY DEF With
    <2>2. [name |-> "copyloopvar", opts |-> {"fix", "go122"}] \in Build1
        BY <2>1 DEF Build1
    <2>3. [name |-> "copyloopvar", opts |-> {"fix", "go122"}].name = "copyloopvar"
        OBVIOUS
    <2> QED
        BY <2>2, <2>3
<1>9. \E lc \in Build3 : lc.name = "intrange"
    <2>1. [name |-> "intrange", opts |-> {"analysis", "fix", "go122"}] \in With({"analysis", "fix", "go122"}, {"intrange"})
        BY DEF With
    <2>2. [name |-> "intrange", opts |-> {"analysis", "fix", "go122"}] \in Build3
        BY <2>1 DEF Build3
    <2>3. [name |-> "intrange", opts |-> {"analysis", "fix", "go122"}].name = "intrange"
        OBVIOUS
    <2> QED
        BY <2>2, <2>3
<1> QED
    BY <1>6, <1>7, <1>8, <1>9 DEF Catalog, NamesOf

\* A group with typecheck still has to run, and will not just warn.
Awaited(p, r) ==
    \E g \in r.groups : "typecheck" \in g /\ ~ \E lc \in r.linters : lc.name \in g /\ Noop(lc, in[p].oldGo)

\* What runner p has been given does not compile, and this concerns it.
Given(p) == FilterDuplicatePackages(FilterTestMainPackages(in[p].pkgs))
Breaks(p, r) == NeedsTypes(r.linters) /\ \E k \in 1..Len(Given(p)) : HasErrors(in[p], Given(p)[k])

\* What runner p may know of this at place pc: either typecheck is still to
\* run, or an error is among the issues, later among those that are shown.
ErrorsFit(p, pc, r) ==
    /\ DOMAIN r = DOMAIN NewRun
    /\ pc \in Early => Sound(r.issues) /\ ~r.printed
    /\ pc \in {"load", "build", "lint"} =>
          r.lintError \/ Awaited(p, r) \/ (pc = "lint" /\ (Breaks(p, r) => Shows(r.issues)))
    /\ pc \in {"build", "lint"} => r.kept = NarrowToChanges(in[p], NeedsTypes(r.linters), Given(p))
    /\ pc \in {"print", "finish"} \cup Late /\ (pc = "print" \/ r.printed) /\ Breaks(p, r) => r.out # <<>>

CompileInv ==
    /\ LintInv
    /\ in \in Inputs
    /\ \A p \in Runners : /\ rpc[p] # "absent" => p \in DOMAIN in
                          /\ ErrorsFit(p, rpc[p], run[p])

\* The linters of a run always have typecheck to run.
LEMMA TypecheckRuns ==
    ASSUME NEW custom, custom \cap NamesOf(Catalog) = {}, NEW oldGo, NEW cfg, NEW formatters,
           NEW known, Catalog \subseteq known,
           \A lc \in known : lc \in Catalog \/ (lc.name \in custom /\ "go122" \notin lc.opts),
           NEW linters, linters = BuildLinters(known, cfg, formatters), KnownGroup(cfg.group)
    PROVE  \E g \in OptimizedLinters(linters, oldGo) :
              "typecheck" \in g /\ ~ \E lc \in linters : lc.name \in g /\ Noop(lc, oldGo)
<1>1. \A lc \in known : "go122" \in lc.opts <=> lc.name \in {"copyloopvar", "intrange"}
    BY NoopsOfTheCatalog
<1>2. linters \subseteq known /\ \E lc \in linters : lc.name = "typecheck"
    <2>1. GroupLinters(known, cfg.group) \subseteq known
        BY DEF GroupLinters, Selected, KnownGroup
    <2>2. PICK lc \in known : lc.name = "typecheck"
        BY NoopsOfTheCatalog
    <2>3. lc \in linters
        BY <2>2 DEF BuildLinters
    <2> QED
        BY <2>1, <2>2, <2>3 DEF BuildLinters
<1>3. PICK tc \in linters : tc.name = "typecheck"
    BY <1>2
<1> DEFINE combined == {lc \in linters : ~Noop(lc, oldGo)}
<1>4. tc \in combined
    BY <1>1, <1>2, <1>3 DEF Noop
<1>5. CASE Cardinality(combined) <= 1
    <2>1. {"typecheck"} \in OptimizedLinters(linters, oldGo)
        BY <1>3, <1>5 DEF OptimizedLinters
    <2>2. \A lc \in linters : lc.name = "typecheck" => ~Noop(lc, oldGo)
        BY <1>1, <1>2 DEF Noop
    <2> QED
        BY <2>1, <2>2
<1>6. CASE ~(Cardinality(combined) <= 1)
    <2>1. NamesOf(combined) \in OptimizedLinters(linters, oldGo)
        BY <1>6 DEF OptimizedLinters
    <2>2. "typecheck" \in NamesOf(combined)
        BY <1>3, <1>4 DEF NamesOf
    <2>3. ASSUME NEW lc \in linters, lc.name \in NamesOf(combined), Noop(lc, oldGo) PROVE FALSE
        <3>1. PICK other \in combined : other.name = lc.name
            BY <2>3 DEF NamesOf
        <3> QED
            BY <1>1, <1>2, <2>3, <3>1 DEF Noop
    <2> QED
        BY <2>1, <2>2, <2>3
<1> QED
    BY <1>5, <1>6

\* A step concerns one runner.
LEMMA CompileTo ==
    ASSUME CompileInv, LintInv', NEW p \in Runners, NEW pc \in Places, NEW r, To(p, pc, r), in' = in,
           pc # "absent" => p \in DOMAIN in, ErrorsFit(p, pc, r)
    PROVE  CompileInv'
<1>1. /\ rpc'[p] = pc /\ run'[p] = r
      /\ \A q \in Runners \ {p} : rpc'[q] = rpc[q] /\ run'[q] = run[q]
    BY DEF To, CompileInv, LintInv
<1>2. ASSUME NEW q \in Runners
      PROVE  (rpc'[q] # "absent" => q \in DOMAIN in) /\ ErrorsFit(q, rpc[q], run[q])'
    <2>1. CASE q = p
        BY <1>1, <2>1 DEF ErrorsFit, Awaited, Given, Breaks
    <2>2. CASE q # p
        BY <1>1, <2>2 DEF CompileInv, ErrorsFit, Awaited, Given, Breaks
    <2> QED
        BY <2>1, <2>2
<1> QED
    BY <1>2 DEF CompileInv

\* What the assumption says of the input of a runner.
LEMMA InputOf ==
    ASSUME CompileInv, NEW p \in Runners, rpc[p] # "absent"
    PROVE  /\ p \in DOMAIN in
           /\ Len(in[p].pkgs) \in Nat
           /\ Len(in[p].found) \in Nat
           /\ \A n \in 1..Len(in[p].found) : IsIssue(in[p].found[n]) /\ in[p].found[n].linter # "typecheck"
           /\ in[p].limits.same \in Nat /\ in[p].limits.linter \in Nat
           /\ in[p].cfg.custom \cap NamesOf(Catalog) = {}
<1>1. in \in Inputs /\ p \in DOMAIN in
    BY DEF CompileInv
<1> QED
    BY <1>1, LintAssumption DEF IsList, IsIssue

\* The steps up to the analysis.
LEMMA CompilePrepares ==
    ASSUME CompileInv, LintInv', NEW p \in Runners,
           RLoadConfig(p) \/ RPreRun(p) \/ ROpenLock(p) \/ RFlock(p) \/ RSelectLinters(p)
    PROVE  CompileInv'
<1> USE DEF Early, Late, Places, NewRun
<1>1. ErrorsFit(p, rpc[p], run[p]) /\ rpc[p] \in {"start", "prerun", "open", "flock", "select"}
    BY DEF CompileInv, RLoadConfig, RPreRun, ROpenLock, RFlock, RSelectLinters
<1>2. p \in DOMAIN in /\ in' = in
    BY <1>1, InputOf DEF RLoadConfig, RPreRun, ROpenLock, RFlock, RSelectLinters, NoLocks
<1>3. /\ \A pc \in {"prerun", "open", "flock", "select"} : ErrorsFit(p, pc, run[p])
      /\ ErrorsFit(p, "exited", [run[p] EXCEPT !.code = Failure])
      /\ ErrorsFit(p, "exited", [run[p] EXCEPT !.fd = 0, !.code = Failure])
      /\ ErrorsFit(p, "finish", [run[p] EXCEPT !.logged = TRUE, !.code = Failure])
      /\ \A fd : ErrorsFit(p, "flock", [run[p] EXCEPT !.fd = fd]) /\ ErrorsFit(p, "open", [run[p] EXCEPT !.fd = fd])
      /\ ErrorsFit(p, "open", [run[p] EXCEPT !.fd = 0, !.tries = @ + 1])
    BY <1>1 DEF ErrorsFit
<1>4. CASE RLoadConfig(p)
    BY <1>2, <1>3, <1>4, CompileTo DEF RLoadConfig
<1>5. CASE RPreRun(p)
    BY <1>2, <1>3, <1>5, CompileTo DEF RPreRun
<1>6. CASE ROpenLock(p)
    BY <1>2, <1>3, <1>6, CompileTo DEF ROpenLock
<1>7. CASE RFlock(p)
    BY <1>2, <1>3, <1>7, CompileTo DEF RFlock
<1>8. CASE RSelectLinters(p)
    <2> DEFINE cfg == Loaded(in[p].cfg, in[p].flags)
               linters == BuildLinters(Known(in[p]), cfg, cfg.formatters)
               r == [run[p] EXCEPT !.linters = linters, !.groups = OptimizedLinters(linters, in[p].oldGo)]
    <2>1. CASE KnownGroup(cfg.group)
        <3>1. To(p, "load", r)
            BY <1>8, <2>1 DEF RSelectLinters
        <3>2. \E g \in OptimizedLinters(linters, in[p].oldGo) :
                 "typecheck" \in g /\ ~ \E lc \in linters : lc.name \in g /\ Noop(lc, in[p].oldGo)
            <4>1. PICK c, formatters : c = cfg /\ formatters = c.formatters
                OBVIOUS
            <4>2. PICK known, custom, oldGo : known = Known(in[p]) /\ custom = in[p].cfg.custom /\ oldGo = in[p].oldGo
                OBVIOUS
            <4>3. PICK l : l = BuildLinters(known, c, formatters)
                OBVIOUS
            <4>4. custom \cap NamesOf(Catalog) = {} /\ KnownGroup(c.group)
                BY <1>1, <2>1, <4>1, <4>2, InputOf
            <4>5. /\ Catalog \subseteq known
                  /\ \A lc \in known : lc \in Catalog \/ (lc.name \in custom /\ "go122" \notin lc.opts)
                <5>1. \A n : PluginLinter(n, TRUE).name = n /\ "go122" \notin PluginLinter(n, TRUE).opts
                    BY DEF PluginLinter
                <5>2. known = Catalog \cup {PluginLinter(n, TRUE) : n \in custom}
                    BY <4>2 DEF Known
                <5>3. Catalog \subseteq known
                    BY <5>2
                <5>4. ASSUME NEW lc \in known, lc \notin Catalog PROVE lc.name \in custom /\ "go122" \notin lc.opts
                    <6>1. PICK n \in custom : lc = PluginLinter(n, TRUE)
                        BY <5>2, <5>4, Zenon
                    <6> QED
                        BY <5>1, <6>1, Zenon
                <5> QED
                    BY <5>3, <5>4
            <4>6. \E g \in OptimizedLinters(l, oldGo) :
                     "typecheck" \in g /\ ~ \E lc \in l : lc.name \in g /\ Noop(lc, oldGo)
                BY <4>3, <4>4, <4>5, TypecheckRuns
            <4> QED
                BY <4>1, <4>2, <4>3, <4>6
        <3> HIDE DEF linters
        <3>3. r.linters = linters /\ r.groups = OptimizedLinters(linters, in[p].oldGo)
            BY <1>1 DEF ErrorsFit
        <3>4. Awaited(p, r)
            BY <3>2, <3>3 DEF Awaited
        <3>5. DOMAIN r = DOMAIN NewRun /\ Sound(r.issues) /\ ~r.printed
            BY <1>1 DEF ErrorsFit
        <3> HIDE DEF r
        <3>6. ErrorsFit(p, "load", r)
            BY <3>4, <3>5 DEF ErrorsFit
        <3> QED
            BY <1>2, <3>1, <3>6, CompileTo
    <2>2. CASE ~KnownGroup(cfg.group)
        BY <1>2, <1>3, <1>8, <2>2, CompileTo DEF RSelectLinters, RunError
    <2> QED
        BY <2>1, <2>2
<1> QED
    BY <1>4, <1>5, <1>6, <1>7, <1>8

\* Loading keeps what does not compile among the packages.
LEMMA CompileLoads ==
    ASSUME CompileInv, LintInv', NEW p \in Runners, RLoadPackages(p) \/ RBuildRunner(p)
    PROVE  CompileInv'
<1> USE DEF Early, Late, Places, NewRun
<1>1. ErrorsFit(p, rpc[p], run[p]) /\ rpc[p] \in {"load", "build"} /\ Fits(p, rpc[p], run[p])
    BY DEF CompileInv, LintInv, RLoadPackages, RBuildRunner
<1>2. p \in DOMAIN in /\ in' = in
    BY <1>1, InputOf DEF RLoadPackages, RBuildRunner, NoLocks
<1>3. ~run[p].lintError
    BY <1>1 DEF Fits
<1>4. Awaited(p, run[p])
    BY <1>1, <1>3 DEF ErrorsFit
<1>5. \A code : ErrorsFit(p, "finish", [run[p] EXCEPT !.logged = TRUE, !.code = code])
    BY <1>1 DEF ErrorsFit
<1>6. CASE RLoadPackages(p)
    <2>1. PICK keep : keep = NarrowToChanges(in[p], NeedsTypes(run[p].linters), Given(p))
        OBVIOUS
    <2>2. PICK r : r = [run[p] EXCEPT !.kept = keep]
        OBVIOUS
    <2>3. \/ \E code : To(p, "finish", [run[p] EXCEPT !.logged = TRUE, !.code = code])
          \/ To(p, "build", r)
        BY <1>6, <2>1, <2>2 DEF RLoadPackages, RunError, Given
    <2>4. /\ DOMAIN r = DOMAIN NewRun /\ r.issues = run[p].issues /\ r.printed = run[p].printed
          /\ r.kept = keep /\ r.linters = run[p].linters /\ r.groups = run[p].groups
        BY <1>1, <2>2 DEF ErrorsFit
    <2>5. Awaited(p, r)
        BY <1>4, <2>4 DEF Awaited
    <2>6. ErrorsFit(p, "build", r)
        BY <1>1, <2>1, <2>4, <2>5 DEF ErrorsFit
    <2> QED
        BY <1>2, <1>5, <2>3, <2>6, CompileTo
<1>7. CASE RBuildRunner(p)
    <2>1. rpc[p] = "build"
        BY <1>7 DEF RBuildRunner
    <2>2. ErrorsFit(p, "lint", run[p])
        BY <1>1, <1>4, <2>1 DEF ErrorsFit
    <2> QED
        BY <1>2, <1>5, <1>7, <2>2, CompileTo DEF RBuildRunner, RunError
<1> QED
    BY <1>6, <1>7

\* The group that was awaited shows the errors, if there are any.
LEMMA GroupShows ==
    ASSUME CompileInv, NEW p \in Runners, rpc[p] = "lint", NEW g
    PROVE  /\ Sound(LinterIssues(in[p], g, run[p].kept))
           /\ "typecheck" \in g /\ Breaks(p, run[p]) => Shows(LinterIssues(in[p], g, run[p].kept))
<1>1. PICK inp : inp = in[p]
    OBVIOUS
<1>2. PICK all : all = Given(p)
    OBVIOUS
<1>3. PICK types : types = NeedsTypes(run[p].linters)
    OBVIOUS
<1>4. PICK keep : keep = NarrowToChanges(inp, types, all)
    OBVIOUS
<1>5. run[p].kept = keep
    BY <1>1, <1>2, <1>3, <1>4 DEF CompileInv, ErrorsFit
<1>6. Len(all) \in Nat
    BY <1>2, InputOf, LoadedList DEF Given
<1>7. Len(keep) \in Nat /\ (types /\ (\E k \in 1..Len(all) : HasErrors(inp, all[k])) =>
                                \E k \in 1..Len(keep) : HasErrors(inp, keep[k]))
    BY <1>4, <1>6, NarrowingShows
<1>8. /\ Len(inp.found) \in Nat
      /\ \A n \in 1..Len(inp.found) : IsIssue(inp.found[n]) /\ inp.found[n].linter # "typecheck"
    BY <1>1, InputOf
<1>9. /\ Sound(LinterIssues(inp, g, keep))
      /\ "typecheck" \in g /\ (\E k \in 1..Len(keep) : HasErrors(inp, keep[k])) => Shows(LinterIssues(inp, g, keep))
    BY <1>7, <1>8, LintersShow
<1>10. Breaks(p, run[p]) => types /\ \E k \in 1..Len(all) : HasErrors(inp, all[k])
    BY <1>1, <1>2, <1>3 DEF Breaks
<1> QED
    BY <1>1, <1>5, <1>7, <1>9, <1>10

\* One group of linters.
LEMMA CompileLints ==
    ASSUME CompileInv, LintInv', NEW p \in Runners, RLinter(p)
    PROVE  CompileInv'
<1> USE DEF Early, Late, Places, NewRun
<1>1. ErrorsFit(p, "lint", run[p]) /\ rpc[p] = "lint"
    BY DEF CompileInv, RLinter
<1>2. p \in DOMAIN in /\ in' = in
    BY <1>1, InputOf DEF RLinter, NoLocks
<1> DEFINE Old(g) == \E lc \in run[p].linters : lc.name \in g /\ Noop(lc, in[p].oldGo)
           Rest(g) == [run[p] EXCEPT !.groups = @ \ {g}]
<1>3. PICK g \in run[p].groups :
         \/ Old(g) /\ To(p, "lint", [Rest(g) EXCEPT !.warned = TRUE])
         \/ ~Old(g) /\ To(p, "lint", [Rest(g) EXCEPT !.issues = @ \o LinterIssues(in[p], g, run[p].kept)])
         \/ \E panic \in BOOLEAN :
              To(p, "lint", [Rest(g) EXCEPT !.lintError = TRUE, !.warned = TRUE, !.logged = @ \/ panic])
    BY DEF RLinter
<1>4. ASSUME NEW r, DOMAIN r = DOMAIN NewRun, r.linters = run[p].linters, r.groups = run[p].groups \ {g},
             r.kept = run[p].kept, r.printed = run[p].printed, Sound(r.issues),
             r.lintError \/ Awaited(p, r) \/ (Breaks(p, r) => Shows(r.issues))
      PROVE  ErrorsFit(p, "lint", r)
    BY <1>1, <1>4 DEF ErrorsFit
<1>5. ASSUME NEW r, r.linters = run[p].linters, r.groups = run[p].groups \ {g}, Awaited(p, run[p])
      PROVE  Awaited(p, r) \/ ("typecheck" \in g /\ ~Old(g))
    BY <1>5 DEF Awaited
<1>6. ASSUME NEW r, r.linters = run[p].linters PROVE Breaks(p, r) <=> Breaks(p, run[p])
    BY <1>6 DEF Breaks
<1>7. CASE Old(g) /\ To(p, "lint", [Rest(g) EXCEPT !.warned = TRUE])
    <2>1. PICK r : r = [Rest(g) EXCEPT !.warned = TRUE]
        OBVIOUS
    <2>2. /\ DOMAIN r = DOMAIN NewRun /\ r.linters = run[p].linters /\ r.groups = run[p].groups \ {g}
          /\ r.kept = run[p].kept /\ r.printed = run[p].printed /\ r.issues = run[p].issues
          /\ r.lintError = run[p].lintError
        BY <1>1, <2>1 DEF ErrorsFit
    <2>3. Sound(r.issues) /\ (r.lintError \/ Awaited(p, r) \/ (Breaks(p, r) => Shows(r.issues)))
        BY <1>1, <1>5, <1>6, <1>7, <2>2 DEF ErrorsFit
    <2>4. ErrorsFit(p, "lint", r)
        BY <1>4, <2>2, <2>3
    <2> QED
        BY <1>2, <1>7, <2>1, <2>4, CompileTo
<1>8. CASE ~Old(g) /\ To(p, "lint", [Rest(g) EXCEPT !.issues = @ \o LinterIssues(in[p], g, run[p].kept)])
    <2>1. PICK more : more = LinterIssues(in[p], g, run[p].kept)
        OBVIOUS
    <2>2. PICK r : r = [Rest(g) EXCEPT !.issues = @ \o more]
        OBVIOUS
    <2>3. /\ DOMAIN r = DOMAIN NewRun /\ r.linters = run[p].linters /\ r.groups = run[p].groups \ {g}
          /\ r.kept = run[p].kept /\ r.printed = run[p].printed /\ r.issues = run[p].issues \o more
          /\ r.lintError = run[p].lintError
        BY <1>1, <2>2 DEF ErrorsFit
    <2>4. Sound(more) /\ ("typecheck" \in g /\ Breaks(p, run[p]) => Shows(more))
        BY <1>1, <2>1, GroupShows
    <2>5. Sound(run[p].issues)
        BY <1>1 DEF ErrorsFit
    <2>6. /\ Sound(run[p].issues \o more)
          /\ Shows(run[p].issues) \/ Shows(more) => Shows(run[p].issues \o more)
        BY <2>4, <2>5, ConcatShows
    <2>7. r.lintError \/ Awaited(p, r) \/ (Breaks(p, r) => Shows(r.issues))
        <3>1. run[p].lintError \/ Awaited(p, run[p]) \/ (Breaks(p, run[p]) => Shows(run[p].issues))
            BY <1>1 DEF ErrorsFit
        <3> QED
            BY <1>5, <1>6, <2>3, <2>4, <2>6, <3>1
    <2>8. ErrorsFit(p, "lint", r)
        BY <1>4, <2>3, <2>6, <2>7
    <2> QED
        BY <1>2, <1>8, <2>1, <2>2, <2>8, CompileTo
<1>9. CASE \E panic \in BOOLEAN :
              To(p, "lint", [Rest(g) EXCEPT !.lintError = TRUE, !.warned = TRUE, !.logged = @ \/ panic])
    <2>1. PICK panic \in BOOLEAN :
              To(p, "lint", [Rest(g) EXCEPT !.lintError = TRUE, !.warned = TRUE, !.logged = @ \/ panic])
        BY <1>9
    <2>2. PICK r : r = [Rest(g) EXCEPT !.lintError = TRUE, !.warned = TRUE, !.logged = @ \/ panic]
        OBVIOUS
    <2>3. /\ DOMAIN r = DOMAIN NewRun /\ r.linters = run[p].linters /\ r.groups = run[p].groups \ {g}
          /\ r.kept = run[p].kept /\ r.printed = run[p].printed /\ r.issues = run[p].issues
          /\ r.lintError
        BY <1>1, <2>2 DEF ErrorsFit
    <2>4. Sound(r.issues)
        BY <1>1, <2>3 DEF ErrorsFit
    <2>5. ErrorsFit(p, "lint", r)
        BY <1>4, <2>3, <2>4
    <2> QED
        BY <1>2, <2>1, <2>2, <2>5, CompileTo
<1> QED
    BY <1>3, <1>7, <1>8, <1>9

\* processLintResults leaves a compile error to be shown.
LEMMA CompileProcesses ==
    ASSUME CompileInv, LintInv', NEW p \in Runners, RProcess(p)
    PROVE  CompileInv'
<1> USE DEF Early, Late, Places, NewRun
<1>1. ErrorsFit(p, "lint", run[p]) /\ rpc[p] = "lint" /\ run[p].groups = {}
    BY DEF CompileInv, RProcess
<1>2. p \in DOMAIN in /\ in' = in
    BY <1>1, InputOf DEF RProcess, NoLocks
<1>3. PICK after \in Processed(in[p], run[p]) :
          IF after.lintError THEN RunError(p, after, Failure) ELSE To(p, "print", after)
    BY DEF RProcess
<1>4. PICK before : before = BeforeFixer(in[p], run[p].linters, run[p].kept, run[p].issues)
    OBVIOUS
<1>5. PICK o \in FixerOutcomes(in[p].fix, in[p].files, in[p].names, before) : \E warned :
          after = [run[p] EXCEPT !.out = AfterFixer(in[p], o.issues), !.fixed = o.fixed, !.warned = warned]
    BY <1>3, <1>4 DEF Processed
<1>6. PICK out : out = AfterFixer(in[p], o.issues)
    OBVIOUS
<1>7. /\ DOMAIN after = DOMAIN NewRun /\ after.linters = run[p].linters /\ after.printed = run[p].printed
      /\ after.issues = run[p].issues /\ after.lintError = run[p].lintError /\ after.out = out
    BY <1>1, <1>5, <1>6 DEF ErrorsFit
<1>8. ~after.lintError /\ Breaks(p, after) => out # <<>>
    <2> SUFFICES ASSUME ~after.lintError, Breaks(p, after) PROVE out # <<>>
        OBVIOUS
    <2>1. Shows(run[p].issues)
        BY <1>1, <1>7 DEF ErrorsFit, Awaited, Breaks
    <2>2. OnlyErrors(before)
        BY <1>4, <2>1, BeforeFixerShows
    <2>3. OnlyErrors(o.issues)
        BY <1>5, <2>2, FixerShows
    <2>4. in[p].limits.same \in Nat /\ in[p].limits.linter \in Nat
        BY <1>1, InputOf
    <2> QED
        BY <1>6, <2>3, <2>4, AfterFixerShows
<1>9. CASE after.lintError
    <2>1. ErrorsFit(p, "finish", [after EXCEPT !.logged = TRUE, !.code = Failure])
        BY <1>1, <1>7 DEF ErrorsFit
    <2> QED
        BY <1>2, <1>3, <1>9, <2>1, CompileTo DEF RunError
<1>10. CASE ~after.lintError
    <2>1. ErrorsFit(p, "print", after)
        BY <1>1, <1>7, <1>8, <1>10 DEF ErrorsFit
    <2> QED
        BY <1>2, <1>3, <1>10, <2>1, CompileTo
<1> QED
    BY <1>9, <1>10

\* Printing, the exit code and the end.
LEMMA CompileEnds ==
    ASSUME CompileInv, LintInv', NEW p \in Runners,
           RPrint(p) \/ RFinish(p) \/ RUnlock(p) \/ RRemove(p) \/ RPostRun(p) \/ RExpire(p) \/ RKill(p)
    PROVE  CompileInv'
<1> USE DEF Early, Late, Places, NewRun
<1>1. ErrorsFit(p, rpc[p], run[p]) /\ rpc[p] \in Places /\ rpc[p] # "absent"
    BY DEF CompileInv, LintInv, RPrint, RFinish, RUnlock, RRemove, RPostRun, RExpire, RKill
<1>2. p \in DOMAIN in /\ in' = in
    BY <1>1, InputOf DEF RPrint, RFinish, RUnlock, RRemove, RPostRun, RExpire, RKill, NoLocks
<1>3. ASSUME NEW r, DOMAIN r = DOMAIN NewRun, r.linters = run[p].linters, r.groups = run[p].groups,
             r.kept = run[p].kept, r.issues = run[p].issues, r.lintError = run[p].lintError,
             r.printed = run[p].printed, r.out = run[p].out
      PROVE  /\ ErrorsFit(p, rpc[p], r)
             /\ rpc[p] = "print" => ErrorsFit(p, "finish", r)
             /\ rpc[p] \in {"finish"} \cup Late => \A pc \in Late : ErrorsFit(p, pc, r)
             /\ ErrorsFit(p, "killed", r)
    BY <1>1, <1>3 DEF ErrorsFit, Awaited, Breaks
<1>4. CASE RPrint(p)
    <2>1. PICK code : code = IF run[p].out # <<>> THEN in[p].issuesCode ELSE run[p].code
        OBVIOUS
    <2>2. PICK r : r = [run[p] EXCEPT !.printed = TRUE, !.code = code]
        OBVIOUS
    <2>3. /\ DOMAIN r = DOMAIN NewRun /\ r.linters = run[p].linters /\ r.out = run[p].out
        BY <1>1, <2>2 DEF ErrorsFit
    <2>4. ErrorsFit(p, "finish", r)
        BY <1>1, <1>4, <2>3 DEF ErrorsFit, Breaks, RPrint
    <2>5. ErrorsFit(p, "finish", [run[p] EXCEPT !.logged = TRUE, !.code = Failure])
        BY <1>1, <1>4 DEF ErrorsFit, Breaks, RPrint
    <2>6. To(p, "finish", r) \/ To(p, "finish", [run[p] EXCEPT !.logged = TRUE, !.code = Failure])
        BY <1>1, <1>4, <2>1, <2>2 DEF RPrint, RunError, ErrorsFit
    <2> QED
        BY <1>2, <2>4, <2>5, <2>6, CompileTo
<1>5. CASE RFinish(p)
    <2>1. PICK r : r = [run[p] EXCEPT !.code = ExitCode(p)]
        OBVIOUS
    <2>2. \A pc \in Late : ErrorsFit(p, pc, r)
        BY <1>1, <1>3, <1>5, <2>1 DEF ErrorsFit, RFinish
    <2> QED
        BY <1>2, <1>5, <2>1, <2>2, CompileTo DEF RFinish
<1>6. CASE RUnlock(p)
    <2>1. ErrorsFit(p, "remove", [run[p] EXCEPT !.fd = 0])
        BY <1>1, <1>3, <1>6 DEF ErrorsFit, RUnlock
    <2> QED
        BY <1>2, <1>6, <2>1, CompileTo DEF RUnlock
<1>7. CASE RRemove(p)
    <2>1. ErrorsFit(p, "post", run[p])
        BY <1>1, <1>3, <1>7 DEF ErrorsFit, RRemove
    <2> QED
        BY <1>2, <1>7, <2>1, CompileTo DEF RRemove
<1>8. CASE RPostRun(p)
    <2>1. ErrorsFit(p, "exited", run[p]) /\ ErrorsFit(p, "exited", [run[p] EXCEPT !.code = Failure])
        BY <1>1, <1>3, <1>8 DEF ErrorsFit, RPostRun
    <2> QED
        BY <1>2, <1>8, <2>1, CompileTo DEF RPostRun
<1>9. CASE RExpire(p)
    <2>1. ErrorsFit(p, rpc[p], [run[p] EXCEPT !.expired = TRUE])
        BY <1>1, <1>3, <1>9 DEF ErrorsFit, RExpire
    <2> QED
        BY <1>1, <1>2, <1>9, <2>1, CompileTo DEF RExpire
<1>10. CASE RKill(p)
    <2>1. ErrorsFit(p, "killed", run[p])
        BY <1>1, <1>3 DEF ErrorsFit
    <2> QED
        BY <1>2, <1>10, <2>1, CompileTo DEF RKill
<1> QED
    BY <1>4, <1>5, <1>6, <1>7, <1>8, <1>9, <1>10

\* For any number of runners, any configurations, packages, issues and faults:
\* the code 0 is not for what does not compile.
THEOREM CleanExitCompiles == LintSpec => []CleanExitMeansItCompiles
<1>1. LintInit => CompileInv
    <2> SUFFICES ASSUME LintInit PROVE CompileInv
        OBVIOUS
    <2>1. /\ rpc = [p \in Runners |-> IF p \in DOMAIN in THEN "start" ELSE "absent"]
          /\ \A p \in Runners : run[p] = NewRun
          /\ in \in Inputs
        BY DEF LintInit, Started
    <2>2. Sound(<<>>)
        <3>1. <<>> \in Seq({}) /\ Len(<<>>) = 0 /\ 1..0 = {}
            OBVIOUS
        <3> QED
            BY <3>1 DEF Sound, Listed
    <2>3. ASSUME NEW p \in Runners
          PROVE  (rpc[p] # "absent" => p \in DOMAIN in) /\ ErrorsFit(p, rpc[p], run[p])
        <3>1. rpc[p] \in {"start", "absent"} /\ (rpc[p] # "absent" => p \in DOMAIN in) /\ run[p] = NewRun
            BY <2>1
        <3> QED
            BY <2>2, <3>1 DEF ErrorsFit, NewRun, Early, Late
    <2>4. LintInv
        BY LintStarts
    <2> QED
        BY <2>1, <2>3, <2>4 DEF CompileInv
<1>2. CompileInv /\ [LintNext]_lintVars => CompileInv'
    <2> SUFFICES ASSUME CompileInv, [LintNext]_lintVars PROVE CompileInv'
        OBVIOUS
    <2>1. LintInv'
        BY LintStep DEF CompileInv
    <2>2. CASE UNCHANGED lintVars
        BY <2>1, <2>2 DEF CompileInv, ErrorsFit, Awaited, Given, Breaks, lintVars
    <2>3. CASE LintNext
        BY <2>1, <2>3, CompilePrepares, CompileLoads, CompileLints, CompileProcesses, CompileEnds DEF LintNext, RStep
    <2> QED
        BY <2>2, <2>3
<1>3. CompileInv => CleanExitMeansItCompiles
    <2> SUFFICES ASSUME CompileInv, NEW p \in Runners, rpc[p] = "exited", run[p].code = Success,
                        in[p].issuesCode # Success, NeedsTypes(run[p].linters),
                        NEW q \in ToSet(Given(p)), HasErrors(in[p], q)
                 PROVE  FALSE
        BY DEF CleanExitMeansItCompiles, Given
    <2>1. DOMAIN Given(p) = 1..Len(Given(p))
        BY InputOf, LoadedList DEF Given
    <2>2. Breaks(p, run[p])
        BY <2>1 DEF Breaks, ToSet
    <2>3. Fits(p, "exited", run[p]) /\ ErrorsFit(p, "exited", run[p])
        BY DEF CompileInv, LintInv
    <2>4. run[p].printed /\ run[p].out = <<>>
        BY <2>3 DEF Fits, Late
    <2> QED
        BY <2>2, <2>3, <2>4 DEF ErrorsFit, Late
<1> QED
    BY <1>1, <1>2, <1>3, PTL DEF LintSpec

-----------------------------------------------------------------------------
(***************************************************************************)
(* One execution of the benchmark harness.                                 *)
(***************************************************************************)
Preparing  == {"unused", "setup", "start", "spawn"}
Classified == {"exit_wait", "exit_code", "record", "done"}
Waiting    == {"cancelled_at", "terminated", "peak"}
MainPlaces == Preparing \cup {"wait"} \cup Waiting \cup Classified \cup {"failed"}

ExecFlags ==
    /\ finished \in [Procs -> BOOLEAN]
    /\ exceeded \in [Procs -> BOOLEAN]
    /\ stop \in [Procs -> BOOLEAN]

Reasons == {"none", "", "rss_limit", "cancel", "timeout"}

StatsType ==
    [Procs -> [reason : Reasons, code : Int, survivors : {0, 1}]]

ExecType ==
    /\ mode \in Modes
    /\ main \in [Procs -> MainPlaces]
    /\ ctx \in [Procs -> {"live", "canceled", "deadline"}]
    /\ root \in [Procs -> {"none", "running", "exited", "killed"}]
    /\ child \in [Procs -> {"none", "running", "exited", "killed", "orphan"}]
    /\ status \in [Procs -> Int]
    /\ killer \in [Procs -> {"none", "select", "kill", "reap", "sent"}]
    /\ orphaned \in [Procs -> {0, 1}]
    /\ canceller \in [Procs -> {"none", "select", "zero", "cancel", "sent"}]
    /\ memory \in [Procs -> {"none", "sample", "select", "cancel", "sent"}]
    /\ stats \in StatsType

\* Nothing is there before startCommand, and the root has ended once cmd.Wait
\* has returned.
PlaceInv(p) ==
    /\ main[p] \in Preparing => root[p] = "none" /\ killer[p] = "none"
    /\ root[p] = "none" => child[p] = "none" /\ killer[p] = "none" /\ ~finished[p] /\ status[p] # Killed
    /\ main[p] \in Waiting \cup Classified => finished[p]
    /\ finished[p] => root[p] \in {"exited", "killed"}
    /\ main[p] \in {"peak"} \cup Classified => killer[p] = "sent"

\* The killer sends SIGKILL for a reason, which is known to whoever cancelled;
\* it counts what it finds alive after the end of the root.
KillInv(p) ==
    /\ killer[p] = "kill" => ctx[p] # "live"
    /\ killer[p] = "reap" => finished[p]
    /\ killer[p] = "sent" => root[p] \in {"exited", "killed"} /\ child[p] \notin {"running", "orphan"}
    /\ status[p] = Killed => root[p] = "killed"
    /\ root[p] = "killed" => killer[p] = "sent" /\ ctx[p] # "live"
    /\ child[p] = "killed" => killer[p] = "sent" /\ (orphaned[p] = 1 \/ ctx[p] # "live")
    /\ memory[p] = "cancel" => exceeded[p]
    /\ ctx[p] = "canceled" => exceeded[p] \/ canceller[p] = "sent"

\* What the classification has seen does not change any more.
ReasonInv(p) ==
    /\ main[p] \in Classified =>
          /\ root[p] = "killed" => stats[p].reason # ""
          /\ child[p] = "killed" /\ stats[p].reason = "" => orphaned[p] = 1
    /\ main[p] \in Classified \ {"exit_wait"} => stats[p].survivors = orphaned[p]
    /\ main[p] = "done" /\ stats[p].reason # "" => mode = "compatibility-cancel"

ExecInv == ExecFlags /\ ExecType /\ \A p \in Procs : PlaceInv(p) /\ KillInv(p) /\ ReasonInv(p)

\* A step of execution p leaves the others alone.
Elsewhere(p) ==
    /\ mode' = mode
    /\ \A q \in Procs \ {p} :
          /\ main'[q] = main[q] /\ ctx'[q] = ctx[q] /\ root'[q] = root[q] /\ child'[q] = child[q]
          /\ status'[q] = status[q] /\ finished'[q] = finished[q] /\ killer'[q] = killer[q]
          /\ orphaned'[q] = orphaned[q] /\ canceller'[q] = canceller[q] /\ memory'[q] = memory[q]
          /\ exceeded'[q] = exceeded[q] /\ stats'[q] = stats[q]

\* So the invariant is a matter of p alone.
LEMMA ExecStep ==
    ASSUME ExecInv, NEW p \in Procs, ExecFlags', ExecType', Elsewhere(p),
           PlaceInv(p)', KillInv(p)', ReasonInv(p)'
    PROVE  ExecInv'
<1>1. ASSUME NEW q \in Procs, q # p PROVE PlaceInv(q)' /\ KillInv(q)' /\ ReasonInv(q)'
    <2>1. PlaceInv(q) /\ KillInv(q) /\ ReasonInv(q)
        BY DEF ExecInv
    <2>2. PlaceInv(q)'
        BY <1>1, <2>1 DEF Elsewhere, PlaceInv
    <2>3. KillInv(q)'
        BY <1>1, <2>1 DEF Elsewhere, KillInv
    <2>4. ReasonInv(q)'
        BY <1>1, <2>1 DEF Elsewhere, ReasonInv
    <2> QED
        BY <2>2, <2>3, <2>4
<1> QED
    BY <1>1 DEF ExecInv

\* executeControlled and runControlledCommand.
LEMMA MainExec ==
    ASSUME ExecInv, NEW p \in Procs, Setup(p) \/ SetupFails(p) \/ AwaitStart(p) \/ StartCommand(p) \/ StartFails(p) \/
           WaitReturns(p) \/ ReceiveCancelledAt(p) \/ ReceiveTermination(p) \/ Classify(p) \/
           CountSurvivors(p) \/ CommandExitCode(p) \/ RecordExecution(p)
    PROVE  ExecInv'
<1>0. ExecFlags /\ ExecType /\ PlaceInv(p) /\ KillInv(p) /\ ReasonInv(p)
    BY DEF ExecInv
<1> USE DEF MainPlaces, Preparing, Waiting, Classified, Killed, NoStatus
<1>1. CASE Setup(p)
    <2>1. ExecFlags'
        BY <1>0, <1>1 DEF ExecFlags, Setup, Goto, tree, threads, handshake
    <2>2. ExecType'
        BY <1>0, <1>1 DEF ExecType, Setup, Goto, tree, threads, handshake
    <2>3. Elsewhere(p)
        BY <1>0, <1>1 DEF ExecFlags, ExecType, Elsewhere, Setup, Goto, tree, threads, handshake
    <2>4. PlaceInv(p)'
        BY <1>0, <1>1 DEF ExecFlags, ExecType, PlaceInv, KillInv, Setup, Goto, tree, threads, handshake
    <2>5. KillInv(p)'
        BY <1>0, <1>1 DEF ExecFlags, ExecType, PlaceInv, KillInv, Setup, Goto, tree, threads, handshake
    <2>6. ReasonInv(p)'
        BY <1>0, <1>1 DEF ExecFlags, ExecType, PlaceInv, KillInv, ReasonInv, Setup, Goto, tree, threads, handshake
    <2> QED
        BY <2>1, <2>2, <2>3, <2>4, <2>5, <2>6, ExecStep
<1>2. CASE SetupFails(p)
    <2>1. ExecFlags'
        BY <1>0, <1>2 DEF ExecFlags, SetupFails, Goto, tree, threads, handshake
    <2>2. ExecType'
        BY <1>0, <1>2 DEF ExecType, SetupFails, Goto, tree, threads, handshake
    <2>3. Elsewhere(p)
        BY <1>0, <1>2 DEF ExecFlags, ExecType, Elsewhere, SetupFails, Goto, tree, threads, handshake
    <2>4. PlaceInv(p)'
        BY <1>0, <1>2 DEF ExecFlags, ExecType, PlaceInv, KillInv, SetupFails, Goto, tree, threads, handshake
    <2>5. KillInv(p)'
        BY <1>0, <1>2 DEF ExecFlags, ExecType, PlaceInv, KillInv, SetupFails, Goto, tree, threads, handshake
    <2>6. ReasonInv(p)'
        BY <1>0, <1>2 DEF ExecFlags, ExecType, PlaceInv, KillInv, ReasonInv, SetupFails, Goto, tree, threads, handshake
    <2> QED
        BY <2>1, <2>2, <2>3, <2>4, <2>5, <2>6, ExecStep
<1>3. CASE AwaitStart(p)
    <2>0. PICK t \in {"spawn", "failed"} :
             /\ main[p] = "start" /\ main' = [main EXCEPT ![p] = t]
             /\ UNCHANGED <<mode, ctx, root, child, status, finished, killer, orphaned, canceller, memory, exceeded, stop, stats>>
        BY <1>0, <1>3 DEF AwaitStart, Goto, tree, threads
    <2>1. ExecFlags'
        BY <1>0, <2>0 DEF ExecFlags
    <2>2. ExecType'
        BY <1>0, <2>0 DEF ExecType, StatsType
    <2>3. Elsewhere(p)
        BY <1>0, <2>0 DEF ExecFlags, ExecType, Elsewhere
    <2>4. PlaceInv(p)'
        BY <1>0, <2>0 DEF ExecFlags, ExecType, StatsType, PlaceInv, KillInv
    <2>5. KillInv(p)'
        BY <1>0, <2>0 DEF ExecFlags, ExecType, StatsType, PlaceInv, KillInv
    <2>6. ReasonInv(p)'
        BY <1>0, <2>0 DEF ExecFlags, ExecType, StatsType, PlaceInv, KillInv, ReasonInv
    <2> QED
        BY <2>1, <2>2, <2>3, <2>4, <2>5, <2>6, ExecStep
<1>4. CASE StartCommand(p)
    <2>1. ExecFlags'
        BY <1>0, <1>4 DEF ExecFlags, StartCommand, Goto, tree, threads, handshake
    <2>2. ExecType'
        BY <1>0, <1>4 DEF ExecType, StartCommand, Goto, tree, threads, handshake
    <2>3. Elsewhere(p)
        BY <1>0, <1>4 DEF ExecFlags, ExecType, Elsewhere, StartCommand, Goto, tree, threads, handshake
    <2>4. PlaceInv(p)'
        BY <1>0, <1>4 DEF ExecFlags, ExecType, PlaceInv, KillInv, StartCommand, Goto, tree, threads, handshake
    <2>5. KillInv(p)'
        BY <1>0, <1>4 DEF ExecFlags, ExecType, PlaceInv, KillInv, StartCommand, Goto, tree, threads, handshake
    <2>6. ReasonInv(p)'
        BY <1>0, <1>4 DEF ExecFlags, ExecType, PlaceInv, KillInv, ReasonInv, StartCommand, Goto, tree, threads, handshake
    <2> QED
        BY <2>1, <2>2, <2>3, <2>4, <2>5, <2>6, ExecStep
<1>5. CASE StartFails(p)
    <2>1. ExecFlags'
        BY <1>0, <1>5 DEF ExecFlags, StartFails, Goto, tree, threads, handshake
    <2>2. ExecType'
        BY <1>0, <1>5 DEF ExecType, StartFails, Goto, tree, threads, handshake
    <2>3. Elsewhere(p)
        BY <1>0, <1>5 DEF ExecFlags, ExecType, Elsewhere, StartFails, Goto, tree, threads, handshake
    <2>4. PlaceInv(p)'
        BY <1>0, <1>5 DEF ExecFlags, ExecType, PlaceInv, KillInv, StartFails, Goto, tree, threads, handshake
    <2>5. KillInv(p)'
        BY <1>0, <1>5 DEF ExecFlags, ExecType, PlaceInv, KillInv, StartFails, Goto, tree, threads, handshake
    <2>6. ReasonInv(p)'
        BY <1>0, <1>5 DEF ExecFlags, ExecType, PlaceInv, KillInv, ReasonInv, StartFails, Goto, tree, threads, handshake
    <2> QED
        BY <2>1, <2>2, <2>3, <2>4, <2>5, <2>6, ExecStep
<1>6. CASE WaitReturns(p)
    <2>1. ExecFlags'
        BY <1>0, <1>6 DEF ExecFlags, WaitReturns, Goto, tree, threads, handshake
    <2>2. ExecType'
        BY <1>0, <1>6 DEF ExecType, WaitReturns, Goto, tree, threads, handshake
    <2>3. Elsewhere(p)
        BY <1>0, <1>6 DEF ExecFlags, ExecType, Elsewhere, WaitReturns, Goto, tree, threads, handshake
    <2>4. PlaceInv(p)'
        BY <1>0, <1>6 DEF ExecFlags, ExecType, PlaceInv, KillInv, WaitReturns, Goto, tree, threads, handshake
    <2>5. KillInv(p)'
        BY <1>0, <1>6 DEF ExecFlags, ExecType, PlaceInv, KillInv, WaitReturns, Goto, tree, threads, handshake
    <2>6. ReasonInv(p)'
        BY <1>0, <1>6 DEF ExecFlags, ExecType, PlaceInv, KillInv, ReasonInv, WaitReturns, Goto, tree, threads, handshake
    <2> QED
        BY <2>1, <2>2, <2>3, <2>4, <2>5, <2>6, ExecStep
<1>7. CASE ReceiveCancelledAt(p)
    <2>1. ExecFlags'
        BY <1>0, <1>7 DEF ExecFlags, ReceiveCancelledAt, Goto, tree, threads, handshake
    <2>2. ExecType'
        BY <1>0, <1>7 DEF ExecType, ReceiveCancelledAt, Goto, tree, threads, handshake
    <2>3. Elsewhere(p)
        BY <1>0, <1>7 DEF ExecFlags, ExecType, Elsewhere, ReceiveCancelledAt, Goto, tree, threads, handshake
    <2>4. PlaceInv(p)'
        BY <1>0, <1>7 DEF ExecFlags, ExecType, PlaceInv, KillInv, ReceiveCancelledAt, Goto, tree, threads, handshake
    <2>5. KillInv(p)'
        BY <1>0, <1>7 DEF ExecFlags, ExecType, PlaceInv, KillInv, ReceiveCancelledAt, Goto, tree, threads, handshake
    <2>6. ReasonInv(p)'
        BY <1>0, <1>7 DEF ExecFlags, ExecType, PlaceInv, KillInv, ReasonInv, ReceiveCancelledAt, Goto, tree, threads, handshake
    <2> QED
        BY <2>1, <2>2, <2>3, <2>4, <2>5, <2>6, ExecStep
<1>8. CASE ReceiveTermination(p)
    <2>1. ExecFlags'
        BY <1>0, <1>8 DEF ExecFlags, ReceiveTermination, Goto, tree, threads, handshake
    <2>2. ExecType'
        BY <1>0, <1>8 DEF ExecType, ReceiveTermination, Goto, tree, threads, handshake
    <2>3. Elsewhere(p)
        BY <1>0, <1>8 DEF ExecFlags, ExecType, Elsewhere, ReceiveTermination, Goto, tree, threads, handshake
    <2>4. PlaceInv(p)'
        BY <1>0, <1>8 DEF ExecFlags, ExecType, PlaceInv, KillInv, ReceiveTermination, Goto, tree, threads, handshake
    <2>5. KillInv(p)'
        BY <1>0, <1>8 DEF ExecFlags, ExecType, PlaceInv, KillInv, ReceiveTermination, Goto, tree, threads, handshake
    <2>6. ReasonInv(p)'
        BY <1>0, <1>8 DEF ExecFlags, ExecType, PlaceInv, KillInv, ReasonInv, ReceiveTermination, Goto, tree, threads, handshake
    <2> QED
        BY <2>1, <2>2, <2>3, <2>4, <2>5, <2>6, ExecStep
<1>9. CASE Classify(p)
    <2>0. /\ main[p] = "peak" /\ main' = [main EXCEPT ![p] = "exit_wait"]
          /\ stats' \in StatsType /\ \A q \in Procs \ {p} : stats'[q] = stats[q]
          /\ stats'[p].reason = Reason(p)
          /\ UNCHANGED <<mode, ctx, root, child, status, finished, killer, orphaned, canceller, memory, exceeded, stop>>
        <3>1. Reason(p) \in Reasons
            BY DEF Reason, Reasons
        <3>2. main[p] = "peak" /\ main' = [main EXCEPT ![p] = "exit_wait"] /\ stats' = [stats EXCEPT ![p].reason = Reason(p)]
            BY <1>9 DEF Classify, Goto
        <3>3. stats \in StatsType
            BY <1>0 DEF ExecType
        <3>4. PICK st, y : st = stats /\ y = Reason(p)
            OBVIOUS
        <3>5. PICK new : new = [st EXCEPT ![p].reason = y]
            OBVIOUS
        <3>6. new \in StatsType /\ new[p].reason = y /\ \A q \in Procs \ {p} : new[q] = st[q]
            BY <3>1, <3>3, <3>4, <3>5 DEF StatsType
        <3> QED
            BY <1>9, <3>2, <3>4, <3>5, <3>6 DEF Classify, tree, threads
    <2>1. ExecFlags'
        BY <1>0, <2>0 DEF ExecFlags
    <2>2. ExecType'
        BY <1>0, <2>0 DEF ExecType, StatsType
    <2>3. Elsewhere(p)
        BY <1>0, <2>0 DEF ExecFlags, ExecType, Elsewhere
    <2>4. PlaceInv(p)'
        BY <1>0, <2>0 DEF ExecFlags, ExecType, StatsType, PlaceInv, KillInv
    <2>5. KillInv(p)'
        BY <1>0, <2>0 DEF ExecFlags, ExecType, StatsType, PlaceInv, KillInv, Reason
    <2>6. ReasonInv(p)'
        BY <1>0, <2>0 DEF ExecFlags, ExecType, StatsType, PlaceInv, KillInv, ReasonInv, Reason
    <2> QED
        BY <2>1, <2>2, <2>3, <2>4, <2>5, <2>6, ExecStep
<1>10. CASE CountSurvivors(p)
    <2>0. PICK t \in {"exit_code", "failed"} :
             /\ main[p] = "exit_wait" /\ main' = [main EXCEPT ![p] = t]
             /\ stats' \in StatsType /\ \A q \in Procs \ {p} : stats'[q] = stats[q]
             /\ stats'[p].reason = stats[p].reason
             /\ t = "exit_code" => stats'[p].survivors = orphaned[p]
             /\ UNCHANGED <<mode, ctx, root, child, status, finished, killer, orphaned, canceller, memory, exceeded, stop>>
        <3>1. orphaned[p] \in {0, 1} /\ stats \in StatsType
            BY <1>0 DEF ExecType
        <3>2. CASE Goto(p, "exit_wait", "exit_code") /\ stats' = [stats EXCEPT ![p].survivors = orphaned[p]]
            <4>1. PICK st, n : st = stats /\ n = orphaned[p]
                OBVIOUS
            <4>2. PICK new : new = [st EXCEPT ![p].survivors = n]
                OBVIOUS
            <4>3. /\ new \in StatsType /\ new[p].reason = st[p].reason /\ new[p].survivors = n
                  /\ \A q \in Procs \ {p} : new[q] = st[q]
                BY <3>1, <4>1, <4>2 DEF StatsType
            <4> QED
                BY <1>10, <3>2, <4>1, <4>2, <4>3 DEF CountSurvivors, Goto, tree, threads
        <3>3. CASE Goto(p, "exit_wait", "failed") /\ UNCHANGED stats
            BY <1>10, <3>1, <3>3 DEF CountSurvivors, Goto, tree, threads
        <3> QED
            BY <1>10, <3>2, <3>3 DEF CountSurvivors
    <2>1. ExecFlags'
        BY <1>0, <2>0 DEF ExecFlags
    <2>2. ExecType'
        BY <1>0, <2>0 DEF ExecType, StatsType
    <2>3. Elsewhere(p)
        BY <1>0, <2>0 DEF ExecFlags, ExecType, Elsewhere
    <2>4. PlaceInv(p)'
        BY <1>0, <2>0 DEF ExecFlags, ExecType, StatsType, PlaceInv, KillInv
    <2>5. KillInv(p)'
        BY <1>0, <2>0 DEF ExecFlags, ExecType, StatsType, PlaceInv, KillInv
    <2>6. ReasonInv(p)'
        BY <1>0, <2>0 DEF ExecFlags, ExecType, StatsType, PlaceInv, KillInv, ReasonInv
    <2> QED
        BY <2>1, <2>2, <2>3, <2>4, <2>5, <2>6, ExecStep
<1>11. CASE CommandExitCode(p)
    <2>0. PICK t \in {"record", "failed"} :
             /\ main[p] = "exit_code" /\ main' = [main EXCEPT ![p] = t]
             /\ stats' \in StatsType /\ \A q \in Procs \ {p} : stats'[q] = stats[q]
             /\ stats'[p].reason = stats[p].reason /\ stats'[p].survivors = stats[p].survivors
             /\ UNCHANGED <<mode, ctx, root, child, status, finished, killer, orphaned, canceller, memory, exceeded, stop>>
        <3>1. status[p] \in Int /\ stats \in StatsType
            BY <1>0 DEF ExecType
        <3>2. CASE Goto(p, "exit_code", "record") /\ stats' = [stats EXCEPT ![p].code = status[p]]
            <4>1. PICK st, c : st = stats /\ c = status[p]
                OBVIOUS
            <4>2. PICK new : new = [st EXCEPT ![p].code = c]
                OBVIOUS
            <4>3. /\ new \in StatsType /\ new[p].reason = st[p].reason /\ new[p].survivors = st[p].survivors
                  /\ \A q \in Procs \ {p} : new[q] = st[q]
                BY <3>1, <4>1, <4>2 DEF StatsType
            <4> QED
                BY <1>11, <3>2, <4>1, <4>2, <4>3 DEF CommandExitCode, Goto, tree, threads
        <3>3. CASE Goto(p, "exit_code", "failed") /\ UNCHANGED stats
            BY <1>11, <3>1, <3>3 DEF CommandExitCode, Goto, tree, threads
        <3> QED
            BY <1>11, <3>2, <3>3 DEF CommandExitCode
    <2>1. ExecFlags'
        BY <1>0, <2>0 DEF ExecFlags
    <2>2. ExecType'
        BY <1>0, <2>0 DEF ExecType, StatsType
    <2>3. Elsewhere(p)
        BY <1>0, <2>0 DEF ExecFlags, ExecType, Elsewhere
    <2>4. PlaceInv(p)'
        BY <1>0, <2>0 DEF ExecFlags, ExecType, StatsType, PlaceInv, KillInv
    <2>5. KillInv(p)'
        BY <1>0, <2>0 DEF ExecFlags, ExecType, StatsType, PlaceInv, KillInv
    <2>6. ReasonInv(p)'
        BY <1>0, <2>0 DEF ExecFlags, ExecType, StatsType, PlaceInv, KillInv, ReasonInv
    <2> QED
        BY <2>1, <2>2, <2>3, <2>4, <2>5, <2>6, ExecStep
<1>12. CASE RecordExecution(p)
    <2>0. PICK t \in {"failed", "done"} :
             /\ main[p] = "record" /\ main' = [main EXCEPT ![p] = t]
             /\ t = "done" => stats[p].reason = "" \/ mode = "compatibility-cancel"
             /\ UNCHANGED <<mode, ctx, root, child, status, finished, killer, orphaned, canceller, memory, exceeded, stop, stats>>
        BY <1>0, <1>12 DEF RecordExecution, Goto, Rejected, tree, threads
    <2>1. ExecFlags'
        BY <1>0, <2>0 DEF ExecFlags
    <2>2. ExecType'
        BY <1>0, <2>0 DEF ExecType, StatsType
    <2>3. Elsewhere(p)
        BY <1>0, <2>0 DEF ExecFlags, ExecType, Elsewhere
    <2>4. PlaceInv(p)'
        BY <1>0, <2>0 DEF ExecFlags, ExecType, StatsType, PlaceInv, KillInv
    <2>5. KillInv(p)'
        BY <1>0, <2>0 DEF ExecFlags, ExecType, StatsType, PlaceInv, KillInv
    <2>6. ReasonInv(p)'
        BY <1>0, <2>0 DEF ExecFlags, ExecType, StatsType, PlaceInv, KillInv, ReasonInv
    <2> QED
        BY <2>1, <2>2, <2>3, <2>4, <2>5, <2>6, ExecStep
<1> QED
    BY <1>1, <1>2, <1>3, <1>4, <1>5, <1>6, <1>7, <1>8, <1>9, <1>10, <1>11, <1>12

\* The three goroutines of an execution.
LEMMA ThreadExec ==
    ASSUME ExecInv, NEW p \in Procs, KillerSelect(p) \/ KillerKills(p) \/ CancellerSelect(p) \/ CancellerCancels(p) \/
           MemorySample(p) \/ MemoryCancels(p) \/ MemorySelect(p)
    PROVE  ExecInv'
<1>0. ExecFlags /\ ExecType /\ PlaceInv(p) /\ KillInv(p) /\ ReasonInv(p)
    BY DEF ExecInv
<1> USE DEF MainPlaces, Preparing, Waiting, Classified, Killed, NoStatus
<1>1. CASE KillerSelect(p)
    <2>0. PICK k \in {"kill", "reap"} :
             /\ killer[p] = "select" /\ killer' = [killer EXCEPT ![p] = k]
             /\ k = "kill" => ctx[p] # "live"
             /\ k = "reap" => finished[p]
             /\ UNCHANGED <<mode, main, ctx, root, child, status, finished, orphaned, canceller, memory, exceeded, stop, stats>>
        BY <1>0, <1>1 DEF KillerSelect, tree, threads
    <2>1. ExecFlags'
        BY <1>0, <2>0 DEF ExecFlags
    <2>2. ExecType'
        BY <1>0, <2>0 DEF ExecType, StatsType
    <2>3. Elsewhere(p)
        BY <1>0, <2>0 DEF ExecFlags, ExecType, Elsewhere
    <2>4. PlaceInv(p)'
        BY <1>0, <2>0 DEF ExecFlags, ExecType, StatsType, PlaceInv, KillInv
    <2>5. KillInv(p)'
        BY <1>0, <2>0 DEF ExecFlags, ExecType, StatsType, PlaceInv, KillInv
    <2>6. ReasonInv(p)'
        BY <1>0, <2>0 DEF ExecFlags, ExecType, StatsType, PlaceInv, KillInv, ReasonInv
    <2> QED
        BY <2>1, <2>2, <2>3, <2>4, <2>5, <2>6, ExecStep
<1>2. CASE KillerKills(p)
    <2>0. PICK r, c, st, o :
             /\ killer[p] \in {"kill", "reap"} /\ killer' = [killer EXCEPT ![p] = "sent"]
             /\ root' = [root EXCEPT ![p] = r] /\ r = IF root[p] = "running" THEN "killed" ELSE root[p]
             /\ child' = [child EXCEPT ![p] = c] /\ c = IF child[p] \in {"running", "orphan"} THEN "killed" ELSE child[p]
             /\ status' = [status EXCEPT ![p] = st] /\ st = IF root[p] = "running" THEN Killed ELSE status[p]
             /\ orphaned' = [orphaned EXCEPT ![p] = o] /\ o \in {0, 1} /\ (killer[p] = "reap" /\ GroupAlive(p) => o = 1)
             /\ UNCHANGED <<mode, main, ctx, finished, canceller, memory, exceeded, stop, stats>>
        BY <1>0, <1>2 DEF KillerKills, KillGroup, ExecType, tree, threads
    <2>1. ExecFlags'
        BY <1>0, <2>0 DEF ExecFlags
    <2>2. ExecType'
        BY <1>0, <2>0 DEF ExecType, StatsType
    <2>3. Elsewhere(p)
        BY <1>0, <2>0 DEF ExecFlags, ExecType, Elsewhere
    <2>4. PlaceInv(p)'
        BY <1>0, <2>0 DEF ExecFlags, ExecType, StatsType, PlaceInv, KillInv
    <2>5. KillInv(p)'
        <3>1. /\ killer'[p] = "sent" /\ root'[p] = r /\ child'[p] = c /\ status'[p] = st /\ orphaned'[p] = o
              /\ ctx'[p] = ctx[p] /\ memory'[p] = memory[p] /\ exceeded'[p] = exceeded[p] /\ canceller'[p] = canceller[p]
            BY <1>0, <2>0 DEF ExecType, ExecFlags
        <3>2. r \in {"exited", "killed"} /\ c \notin {"running", "orphan"}
            BY <1>0, <2>0 DEF ExecType, PlaceInv, KillInv
        <3>3. st = Killed => r = "killed"
            BY <1>0, <2>0 DEF KillInv
        <3>4. r = "killed" => ctx[p] # "live"
            BY <1>0, <2>0 DEF PlaceInv, KillInv
        <3>5. c = "killed" => o = 1 \/ ctx[p] # "live"
            BY <1>0, <2>0 DEF KillInv, GroupAlive
        <3>6. /\ memory[p] = "cancel" => exceeded[p]
              /\ ctx[p] = "canceled" => exceeded[p] \/ canceller[p] = "sent"
            BY <1>0 DEF KillInv
        <3> QED
            BY <3>1, <3>2, <3>3, <3>4, <3>5, <3>6 DEF KillInv
    <2>6. ReasonInv(p)'
        BY <1>0, <2>0 DEF ExecFlags, ExecType, StatsType, PlaceInv, KillInv, ReasonInv
    <2> QED
        BY <2>1, <2>2, <2>3, <2>4, <2>5, <2>6, ExecStep
<1>3. CASE CancellerSelect(p)
    <2>0. PICK k \in {"cancel", "zero"} :
             /\ canceller[p] = "select" /\ canceller' = [canceller EXCEPT ![p] = k]
             /\ UNCHANGED <<mode, main, ctx, root, child, status, finished, killer, orphaned, memory, exceeded, stop, stats>>
        BY <1>0, <1>3 DEF CancellerSelect, tree, threads
    <2>1. ExecFlags'
        BY <1>0, <2>0 DEF ExecFlags
    <2>2. ExecType'
        BY <1>0, <2>0 DEF ExecType, StatsType
    <2>3. Elsewhere(p)
        BY <1>0, <2>0 DEF ExecFlags, ExecType, Elsewhere
    <2>4. PlaceInv(p)'
        BY <1>0, <2>0 DEF ExecFlags, ExecType, StatsType, PlaceInv, KillInv
    <2>5. KillInv(p)'
        BY <1>0, <2>0 DEF ExecFlags, ExecType, StatsType, PlaceInv, KillInv
    <2>6. ReasonInv(p)'
        BY <1>0, <2>0 DEF ExecFlags, ExecType, StatsType, PlaceInv, KillInv, ReasonInv
    <2> QED
        BY <2>1, <2>2, <2>3, <2>4, <2>5, <2>6, ExecStep
<1>4. CASE CancellerCancels(p)
    <2>1. ExecFlags'
        BY <1>0, <1>4 DEF ExecFlags, CancellerCancels, Cancel, tree, threads, handshake
    <2>2. ExecType'
        BY <1>0, <1>4 DEF ExecType, CancellerCancels, Cancel, tree, threads, handshake
    <2>3. Elsewhere(p)
        BY <1>0, <1>4 DEF ExecFlags, ExecType, Elsewhere, CancellerCancels, Cancel, tree, threads, handshake
    <2>4. PlaceInv(p)'
        BY <1>0, <1>4 DEF ExecFlags, ExecType, PlaceInv, KillInv, CancellerCancels, Cancel, tree, threads, handshake
    <2>5. KillInv(p)'
        BY <1>0, <1>4 DEF ExecFlags, ExecType, PlaceInv, KillInv, CancellerCancels, Cancel, tree, threads, handshake
    <2>6. ReasonInv(p)'
        BY <1>0, <1>4 DEF ExecFlags, ExecType, PlaceInv, KillInv, ReasonInv, CancellerCancels, Cancel, tree, threads, handshake
    <2> QED
        BY <2>1, <2>2, <2>3, <2>4, <2>5, <2>6, ExecStep
<1>5. CASE MemorySample(p)
    <2>0. PICK k \in {"select", "cancel"} :
             /\ memory' = [memory EXCEPT ![p] = k]
             /\ exceeded' \in [Procs -> BOOLEAN] /\ \A q \in Procs \ {p} : exceeded'[q] = exceeded[q]
             /\ exceeded[p] \/ k = "cancel" => exceeded'[p]
             /\ UNCHANGED <<mode, main, ctx, root, child, status, finished, killer, orphaned, canceller, stop, stats>>
        BY <1>0, <1>5 DEF MemorySample, ExecFlags, tree, threads
    <2>1. ExecFlags'
        BY <1>0, <2>0 DEF ExecFlags
    <2>2. ExecType'
        BY <1>0, <2>0 DEF ExecType, StatsType
    <2>3. Elsewhere(p)
        BY <1>0, <2>0 DEF ExecFlags, ExecType, Elsewhere
    <2>4. PlaceInv(p)'
        BY <1>0, <2>0 DEF ExecFlags, ExecType, StatsType, PlaceInv, KillInv
    <2>5. KillInv(p)'
        BY <1>0, <2>0 DEF ExecFlags, ExecType, StatsType, PlaceInv, KillInv
    <2>6. ReasonInv(p)'
        BY <1>0, <2>0 DEF ExecFlags, ExecType, StatsType, PlaceInv, KillInv, ReasonInv
    <2> QED
        BY <2>1, <2>2, <2>3, <2>4, <2>5, <2>6, ExecStep
<1>6. CASE MemoryCancels(p)
    <2>1. ExecFlags'
        BY <1>0, <1>6 DEF ExecFlags, MemoryCancels, Cancel, tree, threads, handshake
    <2>2. ExecType'
        BY <1>0, <1>6 DEF ExecType, MemoryCancels, Cancel, tree, threads, handshake
    <2>3. Elsewhere(p)
        BY <1>0, <1>6 DEF ExecFlags, ExecType, Elsewhere, MemoryCancels, Cancel, tree, threads, handshake
    <2>4. PlaceInv(p)'
        BY <1>0, <1>6 DEF ExecFlags, ExecType, PlaceInv, KillInv, MemoryCancels, Cancel, tree, threads, handshake
    <2>5. KillInv(p)'
        BY <1>0, <1>6 DEF ExecFlags, ExecType, PlaceInv, KillInv, MemoryCancels, Cancel, tree, threads, handshake
    <2>6. ReasonInv(p)'
        BY <1>0, <1>6 DEF ExecFlags, ExecType, PlaceInv, KillInv, ReasonInv, MemoryCancels, Cancel, tree, threads, handshake
    <2> QED
        BY <2>1, <2>2, <2>3, <2>4, <2>5, <2>6, ExecStep
<1>7. CASE MemorySelect(p)
    <2>0. PICK k \in {"sample", "sent"} :
             /\ memory' = [memory EXCEPT ![p] = k]
             /\ UNCHANGED <<mode, main, ctx, root, child, status, finished, killer, orphaned, canceller, exceeded, stop, stats>>
        BY <1>0, <1>7 DEF MemorySelect, tree, threads
    <2>1. ExecFlags'
        BY <1>0, <2>0 DEF ExecFlags
    <2>2. ExecType'
        BY <1>0, <2>0 DEF ExecType, StatsType
    <2>3. Elsewhere(p)
        BY <1>0, <2>0 DEF ExecFlags, ExecType, Elsewhere
    <2>4. PlaceInv(p)'
        BY <1>0, <2>0 DEF ExecFlags, ExecType, StatsType, PlaceInv, KillInv
    <2>5. KillInv(p)'
        BY <1>0, <2>0 DEF ExecFlags, ExecType, StatsType, PlaceInv, KillInv
    <2>6. ReasonInv(p)'
        BY <1>0, <2>0 DEF ExecFlags, ExecType, StatsType, PlaceInv, KillInv, ReasonInv
    <2> QED
        BY <2>1, <2>2, <2>3, <2>4, <2>5, <2>6, ExecStep
<1> QED
    BY <1>1, <1>2, <1>3, <1>4, <1>5, <1>6, <1>7

\* The processes and the clock.
LEMMA WorldExec ==
    ASSUME ExecInv, NEW p \in Procs, (\E c \in Codes : RootExits(p, c)) \/ ChildStarts(p) \/ ChildExits(p) \/ Deadline(p)
    PROVE  ExecInv'
<1>0. ExecFlags /\ ExecType /\ PlaceInv(p) /\ KillInv(p) /\ ReasonInv(p)
    BY DEF ExecInv
<1> USE DEF MainPlaces, Preparing, Waiting, Classified, Killed, NoStatus
<1>1. CASE \E c \in Codes : RootExits(p, c)
    <2>0. PICK c \in Codes :
             /\ c \in Int /\ c # Killed
             /\ root[p] = "running" /\ root' = [root EXCEPT ![p] = "exited"]
             /\ status' = [status EXCEPT ![p] = c]
             /\ UNCHANGED <<mode, main, ctx, child, finished, killer, orphaned, canceller, memory, exceeded, stop, stats>>
        <3>1. PICK c \in Codes : RootExits(p, c)
            BY <1>1
        <3>2. c \in Int /\ c # Killed
            BY BenchAssumption
        <3> QED
            BY <3>1, <3>2 DEF RootExits, threads
    <2>1. ExecFlags'
        BY <1>0, <2>0 DEF ExecFlags
    <2>2. ExecType'
        BY <1>0, <2>0 DEF ExecType, StatsType
    <2>3. Elsewhere(p)
        BY <1>0, <2>0 DEF ExecFlags, ExecType, Elsewhere
    <2>4. PlaceInv(p)'
        BY <1>0, <2>0 DEF ExecFlags, ExecType, StatsType, PlaceInv, KillInv
    <2>5. KillInv(p)'
        BY <1>0, <2>0 DEF ExecFlags, ExecType, StatsType, PlaceInv, KillInv
    <2>6. ReasonInv(p)'
        BY <1>0, <2>0 DEF ExecFlags, ExecType, StatsType, PlaceInv, KillInv, ReasonInv
    <2> QED
        BY <2>1, <2>2, <2>3, <2>4, <2>5, <2>6, ExecStep
<1>2. CASE ChildStarts(p)
    <2>1. ExecFlags'
        BY <1>0, <1>2 DEF ExecFlags, ChildStarts, tree, threads, handshake
    <2>2. ExecType'
        BY <1>0, <1>2 DEF ExecType, ChildStarts, tree, threads, handshake
    <2>3. Elsewhere(p)
        BY <1>0, <1>2 DEF ExecFlags, ExecType, Elsewhere, ChildStarts, tree, threads, handshake
    <2>4. PlaceInv(p)'
        BY <1>0, <1>2 DEF ExecFlags, ExecType, PlaceInv, KillInv, ChildStarts, tree, threads, handshake
    <2>5. KillInv(p)'
        BY <1>0, <1>2 DEF ExecFlags, ExecType, PlaceInv, KillInv, ChildStarts, tree, threads, handshake
    <2>6. ReasonInv(p)'
        BY <1>0, <1>2 DEF ExecFlags, ExecType, PlaceInv, KillInv, ReasonInv, ChildStarts, tree, threads, handshake
    <2> QED
        BY <2>1, <2>2, <2>3, <2>4, <2>5, <2>6, ExecStep
<1>3. CASE ChildExits(p)
    <2>1. ExecFlags'
        BY <1>0, <1>3 DEF ExecFlags, ChildExits, tree, threads, handshake
    <2>2. ExecType'
        BY <1>0, <1>3 DEF ExecType, ChildExits, tree, threads, handshake
    <2>3. Elsewhere(p)
        BY <1>0, <1>3 DEF ExecFlags, ExecType, Elsewhere, ChildExits, tree, threads, handshake
    <2>4. PlaceInv(p)'
        BY <1>0, <1>3 DEF ExecFlags, ExecType, PlaceInv, KillInv, ChildExits, tree, threads, handshake
    <2>5. KillInv(p)'
        BY <1>0, <1>3 DEF ExecFlags, ExecType, PlaceInv, KillInv, ChildExits, tree, threads, handshake
    <2>6. ReasonInv(p)'
        BY <1>0, <1>3 DEF ExecFlags, ExecType, PlaceInv, KillInv, ReasonInv, ChildExits, tree, threads, handshake
    <2> QED
        BY <2>1, <2>2, <2>3, <2>4, <2>5, <2>6, ExecStep
<1>4. CASE Deadline(p)
    <2>1. ExecFlags'
        BY <1>0, <1>4 DEF ExecFlags, Deadline, Returned, tree, threads, handshake
    <2>2. ExecType'
        BY <1>0, <1>4 DEF ExecType, Deadline, Returned, tree, threads, handshake
    <2>3. Elsewhere(p)
        BY <1>0, <1>4 DEF ExecFlags, ExecType, Elsewhere, Deadline, Returned, tree, threads, handshake
    <2>4. PlaceInv(p)'
        BY <1>0, <1>4 DEF ExecFlags, ExecType, PlaceInv, KillInv, Deadline, Returned, tree, threads, handshake
    <2>5. KillInv(p)'
        BY <1>0, <1>4 DEF ExecFlags, ExecType, PlaceInv, KillInv, Deadline, Returned, tree, threads, handshake
    <2>6. ReasonInv(p)'
        BY <1>0, <1>4 DEF ExecFlags, ExecType, PlaceInv, KillInv, ReasonInv, Deadline, Returned, tree, threads, handshake
    <2> QED
        BY <2>1, <2>2, <2>3, <2>4, <2>5, <2>6, ExecStep
<1> QED
    BY <1>1, <1>2, <1>3, <1>4

\* The invariant of the executions, for any number of them.
LEMMA ExecInvariant == ExecSpec => []ExecInv
<1>1. ExecInit => ExecInv
    <2> SUFFICES ASSUME NEW m \in Modes, ExecStart(m) PROVE ExecInv
        BY DEF ExecInit
    <2>1. ExecFlags /\ ExecType
        BY DEF ExecStart, ExecFlags, ExecType, StatsType, Reasons, MainPlaces, Preparing, NoStats, NoStatus
    <2>2. ASSUME NEW p \in Procs PROVE PlaceInv(p) /\ KillInv(p) /\ ReasonInv(p)
        BY DEF ExecStart, PlaceInv, KillInv, ReasonInv, Waiting, Classified, Killed, NoStatus
    <2> QED
        BY <2>1, <2>2 DEF ExecInv
<1>2. ExecInv /\ [ExecNext]_execVars => ExecInv'
    <2> SUFFICES ASSUME ExecInv, [ExecNext]_execVars PROVE ExecInv'
        OBVIOUS
    <2>1. CASE Collector \/ UNCHANGED execVars
        <3>1. UNCHANGED <<mode, main, ctx, root, child, status, finished, killer, orphaned, canceller, memory,
                          exceeded, stop, stats>>
            BY <2>1 DEF Collector, CollectReady, CloseStart, CollectResults, execVars, tree, threads
        <3>2. ExecFlags' /\ ExecType'
            BY <3>1 DEF ExecInv, ExecFlags, ExecType
        <3>3. ASSUME NEW p \in Procs PROVE PlaceInv(p)' /\ KillInv(p)' /\ ReasonInv(p)'
            BY <3>1 DEF ExecInv, PlaceInv, KillInv, ReasonInv
        <3> QED
            BY <3>2, <3>3 DEF ExecInv
    <2>2. ASSUME NEW p \in Procs, MainStep(p) \/ KillerStep(p) \/ CancellerStep(p) \/ MemoryStep(p) \/ World(p)
          PROVE  ExecInv'
        BY <2>2, MainExec, ThreadExec, WorldExec DEF MainStep, KillerStep, CancellerStep, MemoryStep, World
    <2> QED
        BY <2>1, <2>2 DEF ExecNext, Active, Terminated
<1> QED
    BY <1>1, <1>2, PTL DEF ExecSpec

\* For any processes, exit codes and faults, and however the deadline, the
\* cancellation, the memory limit and the exit of the process race: a process
\* that was killed has a reason in its record.
THEOREM KilledReported == ExecSpec => []KilledIsReported
<1>1. ExecInv => KilledIsReported
    BY DEF ExecInv, KillInv, ReasonInv, Classified, KilledIsReported
<1> QED
    BY <1>1, ExecInvariant, PTL

\* For the same: nothing of a process group runs on after the execution, and
\* what outlived a root that ended by itself is counted.
THEOREM OrphansCounted == ExecSpec => []OrphansAreCounted
<1>1. ExecInv => OrphansAreCounted
    <2> SUFFICES ASSUME ExecInv, NEW p \in Procs, main[p] \in {"exit_code", "record", "done"}
                 PROVE  /\ child[p] \notin {"running", "orphan"}
                        /\ child[p] = "killed" /\ stats[p].reason = "" => stats[p].survivors > 0
        BY DEF OrphansAreCounted
    <2>1. PlaceInv(p) /\ KillInv(p) /\ ReasonInv(p)
        BY DEF ExecInv
    <2> QED
        <3>1. child[p] \notin {"running", "orphan"}
            BY <2>1 DEF PlaceInv, KillInv, Classified
        <3>2. stats[p].survivors = orphaned[p] /\ (child[p] = "killed" /\ stats[p].reason = "" => orphaned[p] = 1)
            BY <2>1 DEF ReasonInv, Classified
        <3>3. child[p] = "killed" /\ stats[p].reason = "" => stats[p].survivors = 1
            BY <3>2
        <3>4. ASSUME child[p] = "killed", stats[p].reason = "" PROVE stats[p].survivors > 0
            <4>1. stats[p].survivors = 1
                BY <3>3, <3>4
            <4> QED
                BY <4>1
        <3> QED
            BY <3>1, <3>4
<1> QED
    BY <1>1, ExecInvariant, PTL

(* --------------- BenchPlan: the steps undo what they do -------------- *)

\* Step k of the list s is op, an operation on the edited file of w.
At(s, k, op, w) == k \in 1..Len(s) /\ s[k].op = op /\ s[k].workload.name = w

\* Step k of the list s is op.
Has(s, k, op) == k \in 1..Len(s) /\ s[k].op = op

\* No restore of w from step i to step k.
Unrestored(s, i, k, w) == \A r \in i..k : ~At(s, r, "restore", w)

\* Every edit of the list is followed by its restore, and the restore is
\* deferred before the edit, in the step after it, or already (W).
Edits(s, W) ==
    \A k, w : At(s, k, "apply", w) =>
        /\ \E r \in Nat : r > k /\ At(s, r, "restore", w)
        /\ \/ At(s, k + 1, "defer", w)
           \/ \E d \in Nat : d < k /\ At(s, d, "defer", w) /\ Unrestored(s, d, k, w)
           \/ w \in W /\ Unrestored(s, 1, k, w)

\* Every worktree of the list is removed later.
Removes(s) ==
    \A k : Has(s, k, "worktree") => \E r \in Nat : r > k /\ Has(s, r, "remove")

\* Every execution of the list is of a scenario in S.
Runs(s, S) == \A k : Has(s, k, "execute") => s[k].scenario \in S

\* A list that undoes whatever it does and runs only scenarios in S.
Tidy(s, S) == Listed(s) /\ Edits(s, {}) /\ Removes(s) /\ Runs(s, S)

\* The steps of a concatenation are those of its parts.
LEMMA StepsOfConcat ==
    ASSUME NEW X, NEW s \in Seq(X), NEW t \in Seq(X), NEW k \in Nat
    PROVE  /\ s \o t \in Seq(X) /\ Len(s \o t) = Len(s) + Len(t)
           /\ \A op, w : k <= Len(s) => (At(s \o t, k, op, w) <=> At(s, k, op, w))
           /\ \A op, w : k > Len(s) => (At(s \o t, k, op, w) <=> At(t, k - Len(s), op, w))
           /\ \A op : k <= Len(s) => (Has(s \o t, k, op) <=> Has(s, k, op))
           /\ \A op : k > Len(s) => (Has(s \o t, k, op) <=> Has(t, k - Len(s), op))
<1>1. s \o t \in Seq(X) /\ Len(s \o t) = Len(s) + Len(t) /\ Len(s) \in Nat /\ Len(t) \in Nat
    BY ConcatProperties, LenProperties
<1>2. ASSUME k <= Len(s), k # 0 PROVE (s \o t)[k] = s[k]
    BY <1>1, <1>2, ConcatProperties
<1>3. ASSUME k > Len(s), k <= Len(s) + Len(t) PROVE (s \o t)[k] = t[k - Len(s)]
    BY <1>1, <1>3, ConcatProperties
<1>4. CASE k <= Len(s)
    BY <1>1, <1>2, <1>4 DEF At, Has
<1>5. CASE k > Len(s)
    BY <1>1, <1>3, <1>5 DEF At, Has
<1> QED
    BY <1>1, <1>4, <1>5

\* Two tidy lists make a tidy list.
LEMMA TidyConcat ==
    ASSUME NEW S, NEW s, NEW t, Tidy(s, S), Tidy(t, S)
    PROVE  Tidy(s \o t, S)
<1>1. PICK X : s \in Seq(X) /\ t \in Seq(X)
    <2>1. PICK Y : s \in Seq(Y)
        BY DEF Tidy, Listed
    <2>2. PICK Z : t \in Seq(Z)
        BY DEF Tidy, Listed
    <2>3. s \in Seq(Y \cup Z) /\ t \in Seq(Y \cup Z)
        BY <2>1, <2>2
    <2> QED
        BY <2>3
<1>2. PICK n \in Nat : n = Len(s)
    BY <1>1, LenProperties
<1>3. PICK u : u = s \o t
    OBVIOUS
<1>4. \A k \in Nat : \A op, w : k <= n => (At(u, k, op, w) <=> At(s, k, op, w))
    BY <1>1, <1>2, <1>3, StepsOfConcat
<1>5. \A k \in Nat : \A op, w : k > n => (At(u, k, op, w) <=> At(t, k - n, op, w))
    BY <1>1, <1>2, <1>3, StepsOfConcat
<1>6. \A k \in Nat : \A op : k <= n => (Has(u, k, op) <=> Has(s, k, op))
    BY <1>1, <1>2, <1>3, StepsOfConcat
<1>7. \A k \in Nat : \A op : k > n => (Has(u, k, op) <=> Has(t, k - n, op))
    BY <1>1, <1>2, <1>3, StepsOfConcat
<1>8. /\ \A k, op, w : At(s, k, op, w) => k \in Nat /\ k <= n
      /\ \A k, op, w : At(t, k, op, w) => k \in Nat /\ k > 0
      /\ \A k, op : Has(s, k, op) => k \in Nat /\ k <= n
      /\ \A k, op : Has(t, k, op) => k \in Nat /\ k > 0
      /\ \A k, op, w : At(u, k, op, w) => k \in Nat
      /\ \A k, op : Has(u, k, op) => k \in Nat
    BY <1>2 DEF At, Has
<1>9. Edits(u, {})
    <2> SUFFICES ASSUME NEW k, NEW w, At(u, k, "apply", w)
                 PROVE  /\ \E r \in Nat : r > k /\ At(u, r, "restore", w)
                        /\ \/ At(u, k + 1, "defer", w)
                           \/ \E d \in Nat : d < k /\ At(u, d, "defer", w) /\ Unrestored(u, d, k, w)
        BY DEF Edits
    <2>1. k \in Nat
        BY <1>8
    <2>2. CASE k <= n
        <3>1. At(s, k, "apply", w)
            BY <1>4, <2>1, <2>2
        <3>2. PICK r \in Nat : r > k /\ At(s, r, "restore", w)
            BY <3>1 DEF Tidy, Edits
        <3>3. At(u, r, "restore", w)
            BY <1>4, <1>8, <3>2
        <3>4. CASE At(s, k + 1, "defer", w)
            <4>1. At(u, k + 1, "defer", w)
                BY <1>4, <1>8, <3>4
            <4> QED
                BY <3>2, <3>3, <4>1
        <3>5. CASE \E d \in Nat : d < k /\ At(s, d, "defer", w) /\ Unrestored(s, d, k, w)
            <4>1. PICK d \in Nat : d < k /\ At(s, d, "defer", w) /\ Unrestored(s, d, k, w)
                BY <3>5
            <4>2. At(u, d, "defer", w)
                BY <1>4, <1>8, <4>1
            <4>3. Unrestored(u, d, k, w)
                BY <1>4, <2>1, <2>2, <4>1 DEF Unrestored
            <4> QED
                BY <3>2, <3>3, <4>1, <4>2, <4>3
        <3> QED
            BY <3>1, <3>4, <3>5 DEF Tidy, Edits
    <2>3. CASE k > n
        <3>1. PICK j \in Nat : j = k - n
            BY <2>1, <2>3
        <3>2. At(t, j, "apply", w)
            BY <1>5, <2>1, <2>3, <3>1
        <3>3. PICK r \in Nat : r > j /\ At(t, r, "restore", w)
            BY <3>2 DEF Tidy, Edits
        <3>4. r + n \in Nat /\ r + n > k /\ (r + n) - n = r /\ r + n > n
            BY <2>1, <2>3, <3>1, <3>3
        <3>5. At(u, r + n, "restore", w)
            BY <1>5, <3>3, <3>4
        <3>6. CASE At(t, j + 1, "defer", w)
            <4>1. k + 1 \in Nat /\ k + 1 > n /\ (k + 1) - n = j + 1
                BY <2>1, <2>3, <3>1
            <4>2. At(u, k + 1, "defer", w)
                BY <1>5, <3>6, <4>1
            <4> QED
                BY <3>4, <3>5, <4>2
        <3>7. CASE \E d \in Nat : d < j /\ At(t, d, "defer", w) /\ Unrestored(t, d, j, w)
            <4>1. PICK d \in Nat : d < j /\ At(t, d, "defer", w) /\ Unrestored(t, d, j, w)
                BY <3>7
            <4>2. d > 0
                BY <1>8, <4>1
            <4>3. d + n \in Nat /\ d + n > n /\ (d + n) - n = d /\ d + n < k
                BY <2>1, <3>1, <4>1, <4>2
            <4>4. At(u, d + n, "defer", w)
                BY <1>5, <4>1, <4>3
            <4>5. Unrestored(u, d + n, k, w)
                <5> SUFFICES ASSUME NEW q \in (d + n)..k PROVE ~At(u, q, "restore", w)
                    BY DEF Unrestored
                <5>1. q \in Nat /\ q > n /\ q - n \in d..j
                    BY <2>1, <3>1, <4>2, <4>3
                <5> QED
                    BY <1>5, <4>1, <5>1 DEF Unrestored
            <4> QED
                BY <3>4, <3>5, <4>3, <4>4, <4>5
        <3> QED
            BY <3>2, <3>6, <3>7 DEF Tidy, Edits
    <2> QED
        BY <1>2, <2>1, <2>2, <2>3
<1>10. Removes(u)
    <2> SUFFICES ASSUME NEW k, Has(u, k, "worktree")
                 PROVE  \E r \in Nat : r > k /\ Has(u, r, "remove")
        BY DEF Removes
    <2>1. k \in Nat
        BY <1>8
    <2>2. CASE k <= n
        <3>1. PICK r \in Nat : r > k /\ Has(s, r, "remove")
            BY <1>6, <2>1, <2>2 DEF Tidy, Removes
        <3> QED
            BY <1>6, <1>8, <3>1
    <2>3. CASE k > n
        <3>1. k - n \in Nat /\ Has(t, k - n, "worktree")
            BY <1>7, <2>1, <2>3
        <3>2. PICK r \in Nat : r > k - n /\ Has(t, r, "remove")
            BY <3>1 DEF Tidy, Removes
        <3>3. r + n \in Nat /\ r + n > k /\ (r + n) - n = r /\ r + n > n
            BY <2>1, <2>3, <3>2
        <3> QED
            BY <1>7, <3>2, <3>3
    <2> QED
        BY <1>2, <2>1, <2>2, <2>3
<1>11. Listed(u)
    BY <1>1, <1>3, ConcatProperties DEF Listed
<1>12. Runs(u, S)
    <2> SUFFICES ASSUME NEW k, Has(u, k, "execute") PROVE u[k].scenario \in S
        BY DEF Runs
    <2>1. k \in Nat
        BY <1>8
    <2>2. CASE k <= n
        <3>1. Has(s, k, "execute")
            BY <1>6, <2>1, <2>2
        <3>2. u[k] = s[k]
            BY <1>1, <1>2, <1>3, <2>2, <3>1, ConcatProperties DEF Has
        <3> QED
            BY <3>1, <3>2 DEF Tidy, Runs
    <2>3. CASE k > n
        <3>1. Has(t, k - n, "execute")
            BY <1>7, <2>1, <2>3
        <3>2. u[k] = t[k - n]
            <4>1. k <= n + Len(t) /\ Len(t) \in Nat
                BY <1>1, <2>1, <3>1 DEF Has
            <4> QED
                BY <1>1, <1>2, <1>3, <2>1, <2>3, <4>1, ConcatProperties
        <3> QED
            BY <3>1, <3>2 DEF Tidy, Runs
    <2> QED
        BY <1>2, <2>1, <2>2, <2>3
<1> QED
    BY <1>3, <1>9, <1>10, <1>11, <1>12 DEF Tidy

\* Doing nothing is tidy.
LEMMA TidyNothing == \A S : Tidy(<<>>, S)
<1>1. <<>> \in Seq({}) /\ Len(<<>>) = 0
    OBVIOUS
<1> QED
    BY <1>1 DEF Tidy, Listed, Edits, Removes, Runs, At, Has

\* A loop is tidy when its rounds are.
LEMMA TidyLoop ==
    ASSUME NEW S, NEW n \in Nat, NEW rounds, DOMAIN rounds = 1..n, rounds = [i \in 1..n |-> rounds[i]],
           \A i \in 1..n : Tidy(rounds[i], S)
    PROVE  Tidy(Joined(rounds), S)
<1>1. PICK R : R = {rounds[i] : i \in 1..n}
    OBVIOUS
<1>2. rounds \in [1..n -> R]
    BY <1>1
<1>3. Len(rounds) = n
    BY <1>2, ListOf
<1>4. PICK X : X = UNION {Range(rounds[i]) : i \in 1..n}
    OBVIOUS
<1>5. ASSUME NEW i \in 1..n PROVE rounds[i] \in Seq(X)
    <2>1. rounds[i] \in Seq(Range(rounds[i]))
        BY ListRange DEF Tidy
    <2>2. Range(rounds[i]) \subseteq X
        BY <1>4
    <2> QED
        BY <2>1, <2>2
<1>6. PICK C : C = {s \in Seq(X) : Tidy(s, S)}
    OBVIOUS
<1>8. C \in SUBSET Seq(X) /\ <<>> \in C
    BY <1>6, TidyNothing
<1>9. \A s, t \in C : s \o t \in C
    BY <1>6, TidyConcat, ConcatProperties
<1>10. \A i \in 1..Len(rounds) : rounds[i] \in C
    BY <1>3, <1>5, <1>6
<1>11. Joined(rounds) \in C
    BY <1>3, <1>8, <1>9, <1>10, JoinedIn
<1> QED
    BY <1>6, <1>11

\* Steps that neither edit nor add a worktree are tidy.
LEMMA TidyQuiet ==
    ASSUME NEW S, NEW X, NEW s \in Seq(X), \A i \in 1..Len(s) : s[i].op \notin {"apply", "worktree"},
           \A i \in 1..Len(s) : s[i].op = "execute" => s[i].scenario \in S
    PROVE  Tidy(s, S)
<1>1. Listed(s)
    BY DEF Listed
<1>2. Edits(s, {}) /\ Removes(s) /\ Runs(s, S)
    BY DEF Edits, Removes, Runs, At, Has
<1> QED
    BY <1>1, <1>2 DEF Tidy

\* Names of the operations of the steps.
LEMMA StepOps ==
    /\ \A bin, w, t, s, j, iter, kind, purpose, key :
            /\ Execute(bin, w, t, s, j, iter, kind, purpose, key).op = "execute"
            /\ Execute(bin, w, t, s, j, iter, kind, purpose, key).scenario = s
    /\ \A op, w, n : Edit(op, w, n).op = op /\ Edit(op, w, n).workload = w
    /\ \A case, one : CompareCase(case, one).op = "compare"
BY DEF Execute, Edit, CompareCase

\* A place up to one in the middle of a list that begins with three elements.
LEMMA AfterTheHead ==
    \A n \in Nat : \A k \in 4..(n + 3) : \A q \in 2..k : q = 2 \/ q = 3 \/ q \in 4..(n + 3)
OBVIOUS

\* Edits between the deferral of the restore and the restore are tidy.
LEMMA TidyEdits ==
    ASSUME NEW S, NEW X, NEW mid \in Seq(X), NEW open, NEW defer, NEW seed, NEW restore, NEW name,
           open.op = "open", defer.op = "defer", seed.op = "execute", restore.op = "restore",
           defer.workload.name = name, restore.workload.name = name, seed.scenario \in S,
           \A i \in 1..Len(mid) : \/ mid[i].op = "execute" /\ mid[i].scenario \in S
                                  \/ mid[i].op = "apply" /\ mid[i].workload.name = name
    PROVE  Tidy(<<open, defer, seed>> \o mid \o <<restore>>, S)
<1>1. PICK Y : Y = X \cup {open, defer, seed, restore}
    OBVIOUS
<1>2. PICK n \in Nat : n = Len(mid)
    BY LenProperties
<1>3. PICK head \in Seq(Y) : head = <<open, defer, seed>>
    <2>1. open \in Y /\ defer \in Y /\ seed \in Y
        BY <1>1
    <2>2. <<open, defer, seed>> \in Seq(Y)
        BY <2>1
    <2> QED
        BY <2>2, Zenon
<1>4. Len(head) = 3 /\ head[1] = open /\ head[2] = defer /\ head[3] = seed
    BY <1>3
<1>5. mid \in Seq(Y)
    BY <1>1
<1>6. PICK last \in Seq(Y) : last = <<restore>>
    <2>1. <<restore>> \in Seq(Y)
        BY <1>1
    <2> QED
        BY <2>1, Zenon
<1>7. Len(last) = 1 /\ last[1] = restore
    BY <1>6
<1>8. PICK v \in Seq(Y) : v = head \o mid
    BY <1>3, <1>5, ConcatProperties
<1>9. /\ Len(v) = n + 3 /\ v[1] = open /\ v[2] = defer /\ v[3] = seed
      /\ \A k \in 4..(n + 3) : v[k] = mid[k - 3]
    BY <1>2, <1>3, <1>4, <1>5, <1>8, ConcatProperties
<1>10. PICK u \in Seq(Y) : u = v \o last
    BY <1>6, <1>8, ConcatProperties
<1>11. /\ Len(u) = n + 4 /\ u[1] = open /\ u[2] = defer /\ u[3] = seed
       /\ \A k \in 4..(n + 3) : u[k] = mid[k - 3]
       /\ u[n + 4] = restore
    BY <1>2, <1>6, <1>7, <1>8, <1>9, <1>10, ConcatProperties
<1>12. \A k \in 4..(n + 3) : (u[k].op = "execute" /\ u[k].scenario \in S) \/ (u[k].op = "apply" /\ u[k].workload.name = name)
    <2> TAKE k \in 4..(n + 3)
    <2>1. k - 3 \in 1..Len(mid)
        BY <1>2
    <2> QED
        BY <1>11, <2>1
<1>13. \A k \in 1..(n + 4) : k = 1 \/ k = 2 \/ k = 3 \/ k \in 4..(n + 3) \/ k = n + 4
    OBVIOUS
<1>14. Edits(u, {})
    <2> SUFFICES ASSUME NEW k, NEW w, At(u, k, "apply", w)
                 PROVE  /\ \E r \in Nat : r > k /\ At(u, r, "restore", w)
                        /\ \E d \in Nat : d < k /\ At(u, d, "defer", w) /\ Unrestored(u, d, k, w)
        BY DEF Edits
    <2>1. k \in 1..(n + 4) /\ u[k].op = "apply" /\ u[k].workload.name = w
        BY <1>11 DEF At
    <2>2. k \in 4..(n + 3)
        BY <1>11, <1>13, <2>1
    <2>3. w = name
        BY <1>12, <2>1, <2>2
    <2>4. At(u, n + 4, "restore", w) /\ n + 4 \in Nat /\ n + 4 > k
        BY <1>11, <2>2, <2>3 DEF At
    <2>5. At(u, 2, "defer", w) /\ 2 \in Nat /\ 2 < k
        BY <1>11, <2>2, <2>3 DEF At
    <2>6. Unrestored(u, 2, k, w)
        <3> SUFFICES ASSUME NEW q \in 2..k PROVE u[q].op # "restore"
            BY DEF Unrestored, At
        <3>1. q = 2 \/ q = 3 \/ q \in 4..(n + 3)
            BY <2>2, AfterTheHead, Zenon
        <3> QED
            BY <1>11, <1>12, <3>1
    <2> QED
        BY <2>4, <2>5, <2>6
<1>15. Removes(u)
    <2>1. \A k \in 1..(n + 4) : u[k].op # "worktree"
        BY <1>11, <1>12, <1>13
    <2> QED
        BY <1>11, <2>1 DEF Removes, Has
<1>16. Runs(u, S)
    <2>1. \A k \in 1..(n + 4) : u[k].op = "execute" => u[k].scenario \in S
        BY <1>11, <1>12, <1>13
    <2> QED
        BY <1>11, <2>1 DEF Runs, Has
<1>17. Tidy(u, S)
    BY <1>14, <1>15, <1>16 DEF Tidy, Listed
<1> QED
    BY <1>3, <1>6, <1>8, <1>10, <1>17

\* runEditTimings restores what it edits.
LEMMA TidyEditTimings ==
    ASSUME NEW S, NEW bin, NEW w, NEW t, NEW s \in S, NEW j, NEW n \in Nat
    PROVE  Tidy(runEditTimings(bin, w, t, s, j, n), S)
<1>1. CASE w.edit = None
    BY <1>1, TidyNothing DEF runEditTimings
<1>2. CASE w.edit # None
    <2> DEFINE body(i) == <<Edit("apply", w, i), Execute(bin, w, t, s, j, i, "edit", "timing", "edit")>>
               rounds  == [i \in 1..Len(Upto(n)) |-> body(Upto(n)[i])]
               Y       == UNION {{Edit("apply", w, i), Execute(bin, w, t, s, j, i, "edit", "timing", "edit")} : i \in 1..n}
               mid     == Joined(rounds)
               block   == <<Edit("open", w, 0), Edit("defer", w, 0),
                            Execute(bin, w, t, s, j, 0, "edit", "warm-seed", "edit")>> \o mid
                          \o <<Edit("restore", w, 0)>>
    <2>1. Len(Upto(n)) = n /\ \A i \in 1..n : Upto(n)[i] = i
        <3>1. Upto(n) \in [1..n -> 1..n]
            BY DEF Upto
        <3> QED
            BY <3>1, ListOf DEF Upto
    <2>2. runEditTimings(bin, w, t, s, j, n) = block
        BY <1>2 DEF runEditTimings, Each
    <2>3. \A i \in 1..n : body(i) \in Seq(Y)
        OBVIOUS
    <2>4. \A x \in Y : (x.op = "execute" /\ x.scenario \in S) \/ (x.op = "apply" /\ x.workload.name = w.name)
        BY StepOps
    <2> HIDE DEF body, Y
    <2>5. rounds \in [1..n -> Seq(Y)]
        BY <2>1, <2>3
    <2>6. Len(rounds) = n /\ \A i \in 1..n : rounds[i] \in Seq(Y)
        BY <2>5, ListOf
    <2> HIDE DEF rounds
    <2>7. mid \in Seq(Y)
        BY <2>6, JoinedSeq
    <2> HIDE DEF mid
    <2>8. \A i \in 1..Len(mid) : mid[i] \in Y
        BY <2>7
    <2>9. Tidy(block, S)
        BY <2>4, <2>7, <2>8, StepOps, TidyEdits
    <2> QED
        BY <2>2, <2>9
<1> QED
    BY <1>1, <1>2

\* The lists that the loops go through have a length.
Shaped(p) ==
    /\ Len(p.workloads) \in Nat /\ Len(p.scenarios) \in Nat /\ Len(p.concurrency) \in Nat
    /\ Len(p.binaries) \in Nat /\ Len(p.modes) \in Nat /\ p.runs \in Nat
    /\ \A i \in 1..Len(p.workloads) : Len(p.workloads[i].targets) \in Nat

\* The scenarios that the loops go through.
Offers(p, S) == \A i \in 1..Len(p.scenarios) : p.scenarios[i] \in S

\* One execution is tidy.
LEMMA TidyExecute ==
    ASSUME NEW S, NEW bin, NEW w, NEW t, NEW s \in S, NEW j, NEW iter, NEW kind, NEW purpose, NEW key
    PROVE  Tidy(<<Execute(bin, w, t, s, j, iter, kind, purpose, key)>>, S)
<1>1. PICK x : x = Execute(bin, w, t, s, j, iter, kind, purpose, key)
    OBVIOUS
<1>2. x.op = "execute" /\ x.scenario \in S
    BY <1>1, StepOps
<1>3. PICK y : y = <<x>>
    OBVIOUS
<1>4. y \in Seq({x}) /\ \A i \in 1..Len(y) : y[i].op = "execute" /\ y[i].scenario \in S
    BY <1>2, <1>3
<1>5. Tidy(y, S)
    BY <1>4, TidyQuiet
<1> QED
    BY <1>1, <1>3, <1>5

\* The list 1, ..., n.
LEMMA UptoList ==
    ASSUME NEW n \in Nat
    PROVE  Len(Upto(n)) = n /\ \A i \in 1..n : Upto(n)[i] = i
<1>1. Upto(n) \in [1..n -> 1..n]
    BY DEF Upto
<1> QED
    BY <1>1, ListOf DEF Upto

\* runModeTimings restores what it edits.
LEMMA TidyModeTimings ==
    ASSUME NEW S, NEW bin, NEW w, NEW t, NEW s \in S, NEW j, NEW n \in Nat, NEW kind
    PROVE  Tidy(runModeTimings(bin, w, t, s, j, n, kind), S)
<1> DEFINE seed  == IF kind = "warm" THEN <<Execute(bin, w, t, s, j, 0, kind, "warm-seed", "warm")>> ELSE <<>>
           Run(i) == <<Execute(bin, w, t, s, j, i, kind, "timing",
                               IF kind = "cold" THEN "cold-" \o ToString(i) ELSE kind)>>
           r     == [i \in 1..Len(Upto(n)) |-> Run(Upto(n)[i])]
<1>1. CASE kind = "edit"
    BY <1>1, TidyEditTimings DEF runModeTimings
<1>2. CASE kind # "edit"
    <2>1. runModeTimings(bin, w, t, s, j, n, kind) = seed \o Joined(r)
        BY <1>2 DEF runModeTimings, Each
    <2>2. Tidy(seed, S)
        BY TidyExecute, TidyNothing
    <2>3. \A i : Tidy(Run(i), S)
        BY TidyExecute
    <2> HIDE DEF Run, seed
    <2>4. r = [i \in 1..n |-> r[i]] /\ DOMAIN r = 1..n /\ \A i \in 1..n : Tidy(r[i], S)
        BY <2>3, UptoList
    <2> HIDE DEF r
    <2>5. Tidy(Joined(r), S)
        BY <2>4, TidyLoop
    <2>6. Tidy(seed \o Joined(r), S)
        BY <2>2, <2>5, TidyConcat
    <2> QED
        BY <2>1, <2>6
<1> QED
    BY <1>1, <1>2

\* The timing matrix restores every edit.
LEMMA TidyTimings ==
    ASSUME NEW S, NEW p, Shaped(p), Offers(p, S)
    PROVE  Tidy(runTimingMatrix(p), S)
<1> DEFINE B6(bin, w, t, s, j) ==
               Joined([i \in 1..Len(p.modes) |-> runModeTimings(bin, w, t, s, j, p.runs, p.modes[i])])
           B5(bin, w, t, s, j) ==
               (IF p.prepare THEN <<Execute(bin, w, t, s, j, 0, "prepare", "prepare", "prepare")>> ELSE <<>>)
               \o B6(bin, w, t, s, j)
           B4(w, t, s, j) == Joined([i \in 1..Len(p.binaries) |-> B5(p.binaries[i], w, t, s, j)])
           B3(w, t, s) == Joined([i \in 1..Len(p.concurrency) |-> B4(w, t, s, p.concurrency[i])])
           B2(w, t) == Joined([i \in 1..Len(p.scenarios) |-> B3(w, t, p.scenarios[i])])
           B1(w) == Joined([i \in 1..Len(w.targets) |-> B2(w, w.targets[i])])
           B0 == Joined([i \in 1..Len(p.workloads) |-> B1(p.workloads[i])])
<1>1. runTimingMatrix(p) = B0
    BY DEF runTimingMatrix, Each
<1> HIDE DEF B0, B1, B2, B3, B4, B5, B6
<1>2. ASSUME NEW bin, NEW w, NEW t, NEW s \in S, NEW j PROVE Tidy(B6(bin, w, t, s, j), S)
    <2> DEFINE r == [i \in 1..Len(p.modes) |-> runModeTimings(bin, w, t, s, j, p.runs, p.modes[i])]
    <2>1. r = [i \in 1..Len(p.modes) |-> r[i]] /\ DOMAIN r = 1..Len(p.modes)
        OBVIOUS
    <2>2. \A i \in 1..Len(p.modes) : Tidy(r[i], S)
        BY TidyModeTimings DEF Shaped
    <2>3. B6(bin, w, t, s, j) = Joined(r)
        BY DEF B6
    <2> HIDE DEF r
    <2>4. Tidy(Joined(r), S)
        BY <2>1, <2>2, TidyLoop DEF Shaped
    <2> QED
        BY <2>3, <2>4
<1>3. ASSUME NEW bin, NEW w, NEW t, NEW s \in S, NEW j PROVE Tidy(B5(bin, w, t, s, j), S)
    <2>1. Tidy(IF p.prepare THEN <<Execute(bin, w, t, s, j, 0, "prepare", "prepare", "prepare")>> ELSE <<>>, S)
        BY TidyExecute, TidyNothing
    <2> QED
        BY <1>2, <2>1, TidyConcat DEF B5
<1>4. ASSUME NEW w, NEW t, NEW s \in S, NEW j PROVE Tidy(B4(w, t, s, j), S)
    <2> DEFINE r == [i \in 1..Len(p.binaries) |-> B5(p.binaries[i], w, t, s, j)]
    <2>1. r = [i \in 1..Len(p.binaries) |-> r[i]] /\ DOMAIN r = 1..Len(p.binaries)
        OBVIOUS
    <2>2. \A i \in 1..Len(p.binaries) : Tidy(r[i], S)
        BY <1>3
    <2>3. B4(w, t, s, j) = Joined(r)
        BY DEF B4
    <2> HIDE DEF r
    <2>4. Tidy(Joined(r), S)
        BY <2>1, <2>2, TidyLoop DEF Shaped
    <2> QED
        BY <2>3, <2>4
<1>5. ASSUME NEW w, NEW t, NEW s \in S PROVE Tidy(B3(w, t, s), S)
    <2> DEFINE r == [i \in 1..Len(p.concurrency) |-> B4(w, t, s, p.concurrency[i])]
    <2>1. r = [i \in 1..Len(p.concurrency) |-> r[i]] /\ DOMAIN r = 1..Len(p.concurrency)
        OBVIOUS
    <2>2. \A i \in 1..Len(p.concurrency) : Tidy(r[i], S)
        BY <1>4
    <2>3. B3(w, t, s) = Joined(r)
        BY DEF B3
    <2> HIDE DEF r
    <2>4. Tidy(Joined(r), S)
        BY <2>1, <2>2, TidyLoop DEF Shaped
    <2> QED
        BY <2>3, <2>4
<1>6. ASSUME NEW w, NEW t PROVE Tidy(B2(w, t), S)
    <2> DEFINE r == [i \in 1..Len(p.scenarios) |-> B3(w, t, p.scenarios[i])]
    <2>1. r = [i \in 1..Len(p.scenarios) |-> r[i]] /\ DOMAIN r = 1..Len(p.scenarios)
        OBVIOUS
    <2>2. \A i \in 1..Len(p.scenarios) : Tidy(r[i], S)
        BY <1>5 DEF Offers
    <2>3. B2(w, t) = Joined(r)
        BY DEF B2
    <2> HIDE DEF r
    <2>4. Tidy(Joined(r), S)
        BY <2>1, <2>2, TidyLoop DEF Shaped
    <2> QED
        BY <2>3, <2>4
<1>7. ASSUME NEW w, Len(w.targets) \in Nat PROVE Tidy(B1(w), S)
    <2> DEFINE r == [i \in 1..Len(w.targets) |-> B2(w, w.targets[i])]
    <2>1. r = [i \in 1..Len(w.targets) |-> r[i]] /\ DOMAIN r = 1..Len(w.targets)
        OBVIOUS
    <2>2. \A i \in 1..Len(w.targets) : Tidy(r[i], S)
        BY <1>6
    <2>3. B1(w) = Joined(r)
        BY DEF B1
    <2> HIDE DEF r
    <2>4. Tidy(Joined(r), S)
        BY <1>7, <2>1, <2>2, TidyLoop DEF Shaped
    <2> QED
        BY <2>3, <2>4
<1>8. Tidy(B0, S)
    <2> DEFINE r == [i \in 1..Len(p.workloads) |-> B1(p.workloads[i])]
    <2>1. r = [i \in 1..Len(p.workloads) |-> r[i]] /\ DOMAIN r = 1..Len(p.workloads)
        OBVIOUS
    <2>2. \A i \in 1..Len(p.workloads) : Tidy(r[i], S)
        BY <1>7 DEF Shaped
    <2>3. B0 = Joined(r)
        BY DEF B0
    <2> HIDE DEF r
    <2>4. Tidy(Joined(r), S)
        BY <2>1, <2>2, TidyLoop DEF Shaped
    <2> QED
        BY <2>3, <2>4
<1> QED
    BY <1>1, <1>8

\* A step that neither edits nor runs nor adds a worktree is tidy.
LEMMA TidyStep ==
    ASSUME NEW S, NEW x, x.op \notin {"apply", "worktree", "execute"}
    PROVE  Tidy(<<x>>, S)
<1>1. PICK y : y = <<x>>
    OBVIOUS
<1>2. y \in Seq({x}) /\ \A i \in 1..Len(y) : y[i].op \notin {"apply", "worktree", "execute"}
    BY <1>1
<1>3. Tidy(y, S)
    BY <1>2, TidyQuiet
<1> QED
    BY <1>1, <1>3

\* So are two of them.
LEMMA TidyPair ==
    ASSUME NEW S, NEW x, NEW y, x.op \notin {"apply", "worktree", "execute"},
           y.op \notin {"apply", "worktree", "execute"}
    PROVE  Tidy(<<x, y>>, S)
<1>1. PICK u : u = <<x, y>>
    OBVIOUS
<1>2. u \in Seq({x, y}) /\ \A i \in 1..Len(u) : u[i].op \notin {"apply", "worktree", "execute"}
    BY <1>1
<1>3. Tidy(u, S)
    BY <1>2, TidyQuiet
<1> QED
    BY <1>1, <1>3

\* runProfile restores its edit.
LEMMA TidyProfile ==
    ASSUME NEW S, NEW bin, NEW w, NEW t, NEW s \in S, NEW j, NEW kind, NEW purpose, NEW key
    PROVE  Tidy(runProfile(bin, w, t, s, j, kind, purpose, key), S)
<1>1. CASE kind # "edit"
    BY <1>1, TidyExecute DEF runProfile
<1>2. CASE kind = "edit"
    <2>1. PICK o, a, d, x, r : /\ o = Edit("open", w, 0) /\ a = Edit("apply", w, 1)
                               /\ d = Edit("defer", w, 0) /\ r = Edit("restore", w, 0)
                               /\ x = Execute(bin, w, t, s, j, 1, kind, purpose, key)
        OBVIOUS
    <2>2. PICK u : u = <<o, a, d, x, r>>
        OBVIOUS
    <2>3. runProfile(bin, w, t, s, j, kind, purpose, key) = u
        BY <1>2, <2>1, <2>2 DEF runProfile
    <2>4. u \in Seq({o, a, d, x, r}) /\ Len(u) = 5 /\ u[1] = o /\ u[2] = a /\ u[3] = d /\ u[4] = x /\ u[5] = r
        BY <2>2
    <2>5. /\ o.op = "open" /\ a.op = "apply" /\ d.op = "defer" /\ x.op = "execute" /\ r.op = "restore"
          /\ a.workload = w /\ d.workload = w /\ r.workload = w /\ x.scenario = s
        BY <2>1, StepOps
    <2>6. \A k \in 1..5 : k = 1 \/ k = 2 \/ k = 3 \/ k = 4 \/ k = 5
        OBVIOUS
    <2>7. Edits(u, {})
        <3> SUFFICES ASSUME NEW k, NEW n, At(u, k, "apply", n)
                     PROVE  /\ \E q \in Nat : q > k /\ At(u, q, "restore", n)
                            /\ At(u, k + 1, "defer", n)
            BY DEF Edits
        <3>1. k = 2 /\ n = w.name
            BY <2>4, <2>5, <2>6 DEF At
        <3>2. At(u, 5, "restore", n) /\ 5 \in Nat /\ 5 > k /\ At(u, k + 1, "defer", n)
            BY <2>4, <2>5, <3>1 DEF At
        <3> QED
            BY <3>2
    <2>8. Removes(u) /\ Runs(u, S)
        BY <2>4, <2>5, <2>6 DEF Removes, Runs, Has
    <2> QED
        BY <2>3, <2>4, <2>7, <2>8 DEF Tidy, Listed
<1> QED
    BY <1>1, <1>2

\* The profiles restore every edit.
LEMMA TidyProfiles ==
    ASSUME NEW S, NEW p, Shaped(p), Offers(p, S)
    PROVE  Tidy(runProfiles(p), S)
<1> DEFINE Purposes == <<"cpu-profile", "heap-profile", "trace">>
           B6(bin, w, t, s, kind, purpose) ==
               (IF profileCache(purpose, kind)[2]
                THEN <<Execute(bin, w, t, s, p.profileConcurrency, 0, kind,
                               purpose \o "-seed", profileCache(purpose, kind)[1])>> ELSE <<>>)
               \o runProfile(bin, w, t, s, p.profileConcurrency, kind, purpose, profileCache(purpose, kind)[1])
           B5(bin, w, t, s, kind) ==
               Joined([i \in 1..Len(Purposes) |-> B6(bin, w, t, s, kind, Purposes[i])])
           B4(bin, w, t, s, kind) == IF kind = "edit" /\ w.edit = None THEN <<>> ELSE B5(bin, w, t, s, kind)
           B3(bin, w, t, s) == Joined([i \in 1..Len(p.modes) |-> B4(bin, w, t, s, p.modes[i])])
           B2(w, t, s) == Joined([i \in 1..Len(p.binaries) |-> B3(p.binaries[i], w, t, s)])
           B1(w, t) == Joined([i \in 1..Len(p.scenarios) |-> B2(w, t, p.scenarios[i])])
           Module(w) == IF w.profileModule = None THEN w.targets[1] ELSE w.profileModule
           B0(w) == IF ~Contains(w.targets, Module(w)) THEN <<[op |-> "fail"]>> ELSE B1(w, Module(w))
           B == Joined([i \in 1..Len(p.workloads) |-> B0(p.workloads[i])])
<1>1. runProfiles(p) = B
    BY DEF runProfiles, Each
<1>2. Len(Purposes) = 3
    OBVIOUS
<1> HIDE DEF B, B0, B1, B2, B3, B4, B5, B6, Purposes, Module
<1>3. ASSUME NEW bin, NEW w, NEW t, NEW s \in S, NEW kind, NEW purpose PROVE Tidy(B6(bin, w, t, s, kind, purpose), S)
    <2> DEFINE seed == IF profileCache(purpose, kind)[2]
                       THEN <<Execute(bin, w, t, s, p.profileConcurrency, 0, kind,
                                      purpose \o "-seed", profileCache(purpose, kind)[1])>> ELSE <<>>
               one  == runProfile(bin, w, t, s, p.profileConcurrency, kind, purpose, profileCache(purpose, kind)[1])
    <2>1. B6(bin, w, t, s, kind, purpose) = seed \o one
        BY DEF B6
    <2>2. Tidy(seed, S)
        BY TidyExecute, TidyNothing
    <2>3. Tidy(one, S)
        BY TidyProfile
    <2> HIDE DEF seed, one
    <2>4. Tidy(seed \o one, S)
        BY <2>2, <2>3, TidyConcat
    <2> QED
        BY <2>1, <2>4
<1>4. ASSUME NEW bin, NEW w, NEW t, NEW s \in S, NEW kind PROVE Tidy(B5(bin, w, t, s, kind), S)
    <2> DEFINE r == [i \in 1..Len(Purposes) |-> B6(bin, w, t, s, kind, Purposes[i])]
    <2>1. r = [i \in 1..Len(Purposes) |-> r[i]] /\ DOMAIN r = 1..Len(Purposes)
        OBVIOUS
    <2>2. \A i \in 1..Len(Purposes) : Tidy(r[i], S)
        BY <1>3
    <2>3. B5(bin, w, t, s, kind) = Joined(r)
        BY DEF B5
    <2> HIDE DEF r
    <2>4. Tidy(Joined(r), S)
        BY <1>2, <2>1, <2>2, TidyLoop DEF Shaped
    <2> QED
        BY <2>3, <2>4
<1>5. ASSUME NEW bin, NEW w, NEW t, NEW s \in S, NEW kind PROVE Tidy(B4(bin, w, t, s, kind), S)
    BY <1>4, TidyNothing DEF B4
<1>6. ASSUME NEW bin, NEW w, NEW t, NEW s \in S PROVE Tidy(B3(bin, w, t, s), S)
    <2> DEFINE r == [i \in 1..Len(p.modes) |-> B4(bin, w, t, s, p.modes[i])]
    <2>1. r = [i \in 1..Len(p.modes) |-> r[i]] /\ DOMAIN r = 1..Len(p.modes)
        OBVIOUS
    <2>2. \A i \in 1..Len(p.modes) : Tidy(r[i], S)
        BY <1>5
    <2>3. B3(bin, w, t, s) = Joined(r)
        BY DEF B3
    <2> HIDE DEF r
    <2>4. Tidy(Joined(r), S)
        BY <2>1, <2>2, TidyLoop DEF Shaped
    <2> QED
        BY <2>3, <2>4
<1>7. ASSUME NEW w, NEW t, NEW s \in S PROVE Tidy(B2(w, t, s), S)
    <2> DEFINE r == [i \in 1..Len(p.binaries) |-> B3(p.binaries[i], w, t, s)]
    <2>1. r = [i \in 1..Len(p.binaries) |-> r[i]] /\ DOMAIN r = 1..Len(p.binaries)
        OBVIOUS
    <2>2. \A i \in 1..Len(p.binaries) : Tidy(r[i], S)
        BY <1>6
    <2>3. B2(w, t, s) = Joined(r)
        BY DEF B2
    <2> HIDE DEF r
    <2>4. Tidy(Joined(r), S)
        BY <2>1, <2>2, TidyLoop DEF Shaped
    <2> QED
        BY <2>3, <2>4
<1>8. ASSUME NEW w, NEW t PROVE Tidy(B1(w, t), S)
    <2> DEFINE r == [i \in 1..Len(p.scenarios) |-> B2(w, t, p.scenarios[i])]
    <2>1. r = [i \in 1..Len(p.scenarios) |-> r[i]] /\ DOMAIN r = 1..Len(p.scenarios)
        OBVIOUS
    <2>2. \A i \in 1..Len(p.scenarios) : Tidy(r[i], S)
        BY <1>7 DEF Offers
    <2>3. B1(w, t) = Joined(r)
        BY DEF B1
    <2> HIDE DEF r
    <2>4. Tidy(Joined(r), S)
        BY <2>1, <2>2, TidyLoop DEF Shaped
    <2> QED
        BY <2>3, <2>4
<1>9. ASSUME NEW w PROVE Tidy(B0(w), S)
    <2>1. Tidy(<<[op |-> "fail"]>>, S)
        <3>1. PICK x : x = [op |-> "fail"]
            OBVIOUS
        <3>2. x.op \notin {"apply", "worktree", "execute"}
            BY <3>1
        <3> QED
            BY <3>1, <3>2, TidyStep
    <2> QED
        BY <1>8, <2>1 DEF B0
<1>10. Tidy(B, S)
    <2> DEFINE r == [i \in 1..Len(p.workloads) |-> B0(p.workloads[i])]
    <2>1. r = [i \in 1..Len(p.workloads) |-> r[i]] /\ DOMAIN r = 1..Len(p.workloads)
        OBVIOUS
    <2>2. \A i \in 1..Len(p.workloads) : Tidy(r[i], S)
        BY <1>9
    <2>3. B = Joined(r)
        BY DEF B
    <2> HIDE DEF r
    <2>4. Tidy(Joined(r), S)
        BY <2>1, <2>2, TidyLoop DEF Shaped
    <2> QED
        BY <2>3, <2>4
<1> QED
    BY <1>1, <1>10

\* There are two labels.
LEMMA LabelList == Len(Labels) = 2
BY DEF Labels

\* Comparing is tidy.
LEMMA TidyCompare ==
    ASSUME NEW S, NEW case, NEW n
    PROVE  Tidy(<<CompareCase(case, n)>>, S)
BY StepOps, TidyStep

\* A plain comparison of the two binaries.
Compared(w, t, s, j, case, purpose) ==
    Each(Labels, LAMBDA l : <<Execute(l, w, t, s, j, 1, "cold", purpose, purpose)>>)
    \o <<CompareCase(case, 0)>>

\* It is tidy.
LEMMA TidyPlain ==
    ASSUME NEW S, NEW w, NEW t, NEW s \in S, NEW j, NEW case, NEW purpose
    PROVE  Tidy(Compared(w, t, s, j, case, purpose), S)
<1> DEFINE executions == Joined([i \in 1..Len(Labels) |-> <<Execute(Labels[i], w, t, s, j, 1, "cold", purpose, purpose)>>])
<1>1. Tidy(executions, S)
    <2> DEFINE r == [i \in 1..Len(Labels) |-> <<Execute(Labels[i], w, t, s, j, 1, "cold", purpose, purpose)>>]
    <2>1. r = [i \in 1..2 |-> r[i]] /\ DOMAIN r = 1..2
        BY LabelList
    <2>2. \A i \in 1..2 : Tidy(r[i], S)
        BY LabelList, TidyExecute
    <2>3. executions = Joined(r)
        OBVIOUS
    <2> HIDE DEF r
    <2>4. Tidy(Joined(r), S)
        BY <2>1, <2>2, TidyLoop
    <2> QED
        BY <2>3, <2>4
<1>2. Compared(w, t, s, j, case, purpose) = executions \o <<CompareCase(case, 0)>>
    BY DEF Compared, Each
<1> HIDE DEF executions
<1>3. Tidy(executions \o <<CompareCase(case, 0)>>, S)
    BY <1>1, TidyCompare, TidyConcat
<1> QED
    BY <1>2, <1>3

\* The comparison of two concurrent runs is tidy.
LEMMA TidyParallel ==
    ASSUME NEW S, NEW w, NEW t, NEW s \in S, NEW j, NEW case
    PROVE  Tidy(runParallelCompatibility(w, t, s, j, case), S)
<1> DEFINE step(l) == [op |-> "parallel", bin |-> l,
                       runs |-> [i \in 1..2 |-> Execute(l, w, t, s, j, 1, "cold",
                                    "compatibility-parallel-" \o ToString(i), "compatibility-parallel")]]
           executions == Joined([i \in 1..Len(Labels) |-> <<step(Labels[i])>>])
           comparisons == <<CompareCase(case, 1), CompareCase(case, 2)>>
<1>1. runParallelCompatibility(w, t, s, j, case) = executions \o comparisons
    BY DEF runParallelCompatibility, Each
<1>2. \A l : step(l).op = "parallel"
    OBVIOUS
<1> HIDE DEF step
<1>3. \A l : Tidy(<<step(l)>>, S)
    BY <1>2, TidyStep
<1>4. Tidy(executions, S)
    <2> DEFINE r == [i \in 1..Len(Labels) |-> <<step(Labels[i])>>]
    <2>1. r = [i \in 1..2 |-> r[i]] /\ DOMAIN r = 1..2
        BY LabelList
    <2>2. \A i \in 1..2 : Tidy(r[i], S)
        BY LabelList, <1>3
    <2>3. executions = Joined(r)
        OBVIOUS
    <2> HIDE DEF r
    <2>4. Tidy(Joined(r), S)
        BY <2>1, <2>2, TidyLoop
    <2> QED
        BY <2>3, <2>4
<1>5. Tidy(comparisons, S)
    BY StepOps, TidyPair
<1> HIDE DEF executions, comparisons
<1>6. Tidy(executions \o comparisons, S)
    BY <1>4, <1>5, TidyConcat
<1> QED
    BY <1>1, <1>6

\* The comparison of two runs on a corrupted cache is tidy.
LEMMA TidyCorrupted ==
    ASSUME NEW S, NEW w, NEW t, NEW s \in S, NEW j, NEW case
    PROVE  Tidy(runCorruptedCacheCompatibility(w, t, s, j, case), S)
<1> DEFINE key == "compatibility-corrupted-cache"
           first(l) == Execute(l, w, t, s, j, 1, "cold", key \o "-seed", key)
           second(l) == [op |-> "corrupt", cache |-> cacheDir(l, w.name, t, s.name, j, key)]
           third(l) == Execute(l, w, t, s, j, 1, "warm", key, key)
           executions == Joined([i \in 1..Len(Labels) |->
                            <<first(Labels[i]), second(Labels[i]), third(Labels[i])>>])
<1>1. runCorruptedCacheCompatibility(w, t, s, j, case) = executions \o <<CompareCase(case, 0)>>
    BY DEF runCorruptedCacheCompatibility, Each
<1>2. \A l : /\ first(l).op = "execute" /\ third(l).op = "execute"
            /\ first(l).scenario = s /\ third(l).scenario = s
    BY StepOps
<1>3. \A l : second(l).op = "corrupt"
    OBVIOUS
<1> HIDE DEF first, second, third
<1>4. ASSUME NEW l PROVE Tidy(<<first(l), second(l), third(l)>>, S)
    <2>1. PICK u : u = <<first(l), second(l), third(l)>>
        OBVIOUS
    <2>2. /\ u \in Seq({first(l), second(l), third(l)})
          /\ \A i \in 1..Len(u) : u[i].op \notin {"apply", "worktree"} /\ (u[i].op = "execute" => u[i].scenario \in S)
        BY <1>2, <1>3, <2>1
    <2>3. Tidy(u, S)
        BY <2>2, TidyQuiet
    <2> QED
        BY <2>1, <2>3
<1>5. Tidy(executions, S)
    <2> DEFINE r == [i \in 1..Len(Labels) |-> <<first(Labels[i]), second(Labels[i]), third(Labels[i])>>]
    <2>1. r = [i \in 1..2 |-> r[i]] /\ DOMAIN r = 1..2
        BY LabelList
    <2>2. \A i \in 1..2 : Tidy(r[i], S)
        BY LabelList, <1>4
    <2>3. executions = Joined(r)
        OBVIOUS
    <2> HIDE DEF r
    <2>4. Tidy(Joined(r), S)
        BY <2>1, <2>2, TidyLoop
    <2> QED
        BY <2>3, <2>4
<1> HIDE DEF executions
<1>6. Tidy(executions \o <<CompareCase(case, 0)>>, S)
    BY <1>5, TidyCompare, TidyConcat
<1> QED
    BY <1>1, <1>6

\* Whatever worktrees the steps before the removal add, the list is tidy.
LEMMA TidyRemoval ==
    ASSUME NEW S, NEW X, NEW s \in Seq(X), \A i \in 1..Len(s) : s[i].op # "apply",
           \A i \in 1..Len(s) : s[i].op = "execute" => s[i].scenario \in S,
           NEW c, NEW r, c.op = "compare", r.op = "remove"
    PROVE  Tidy(s \o <<c, r>>, S)
<1>1. PICK Y : Y = X \cup {c, r}
    OBVIOUS
<1>2. PICK n \in Nat : n = Len(s)
    BY LenProperties
<1>3. s \in Seq(Y)
    BY <1>1
<1>4. PICK last \in Seq(Y) : last = <<c, r>>
    <2>1. <<c, r>> \in Seq(Y)
        BY <1>1
    <2> QED
        BY <2>1, Zenon
<1>5. Len(last) = 2 /\ last[1] = c /\ last[2] = r
    BY <1>4
<1>6. PICK u \in Seq(Y) : u = s \o last
    BY <1>3, <1>4, ConcatProperties
<1>7. /\ u \in Seq(Y) /\ Len(u) = n + 2 /\ u[n + 1] = c /\ u[n + 2] = r
      /\ \A k \in 1..n : u[k] = s[k]
    <2>1. u \in Seq(Y) /\ Len(u) = n + 2
        BY <1>2, <1>3, <1>4, <1>5, <1>6, ConcatProperties
    <2>2. \A k \in 1..(n + 2) : u[k] = IF k <= n THEN s[k] ELSE last[k - n]
        BY <1>2, <1>3, <1>4, <1>5, <1>6, ConcatProperties
    <2>3. /\ n + 1 \in 1..(n + 2) /\ ~(n + 1 <= n) /\ (n + 1) - n = 1
          /\ n + 2 \in 1..(n + 2) /\ ~(n + 2 <= n) /\ (n + 2) - n = 2
        OBVIOUS
    <2>4. u[n + 1] = last[1] /\ u[n + 2] = last[2]
        BY <2>2, <2>3
    <2> QED
        BY <1>5, <2>1, <2>2, <2>3, <2>4
<1>8. \A k \in 1..(n + 2) : k \in 1..n \/ k = n + 1 \/ k = n + 2
    OBVIOUS
<1>9. Edits(u, {})
    BY <1>2, <1>7, <1>8 DEF Edits, At
<1>10. Removes(u)
    <2> SUFFICES ASSUME NEW k, Has(u, k, "worktree")
                 PROVE  \E q \in Nat : q > k /\ Has(u, q, "remove")
        BY DEF Removes
    <2>1. k \in 1..n
        BY <1>7, <1>8 DEF Has
    <2>2. Has(u, n + 2, "remove") /\ n + 2 \in Nat /\ n + 2 > k
        BY <1>7, <2>1 DEF Has
    <2> QED
        BY <2>2
<1>11. Runs(u, S)
    BY <1>2, <1>7, <1>8 DEF Runs, Has
<1> QED
    BY <1>4, <1>6, <1>7, <1>9, <1>10, <1>11 DEF Tidy, Listed

\* The steps of a loop over the labels.
LEMMA LabelLoop ==
    ASSUME NEW X, NEW rounds \in [1..2 -> Seq(X)]
    PROVE  Joined(rounds) \in Seq(X)
BY ListOf, JoinedSeq

\* runMutationCompatibility removes the worktrees that it adds.
LEMMA TidyMutation ==
    ASSUME NEW S, NEW w, NEW t, NEW s \in S, NEW j, NEW case
    PROVE  Tidy(runMutationCompatibility(w, t, s, j, case), S)
<1> DEFINE add(l) == [op |-> "worktree", case |-> case, label |-> l]
           one(l) == Execute(l, w, t, s, j, 1, "cold", "compatibility", "compatibility")
           load   == [op |-> "expected"]
           remove == [op |-> "remove", case |-> case]
           adds   == [i \in 1..Len(Labels) |-> <<add(Labels[i])>>]
           exes   == [i \in 1..Len(Labels) |-> <<one(Labels[i])>>]
           X      == {add(Labels[1]), add(Labels[2]), one(Labels[1]), one(Labels[2]), load}
           before == Joined(adds) \o <<load>> \o Joined(exes)
<1>1. runMutationCompatibility(w, t, s, j, case) = before \o <<CompareCase(case, 0), remove>>
    BY DEF runMutationCompatibility, Each
<1>2. /\ \A l : add(l).op = "worktree" /\ one(l).op = "execute" /\ one(l).scenario = s
      /\ load.op = "expected" /\ remove.op = "remove" /\ CompareCase(case, 0).op = "compare"
    BY StepOps
<1> HIDE DEF add, one, load, remove
<1>3. \A x \in X : x.op # "apply" /\ (x.op = "execute" => x.scenario \in S)
    BY <1>2
<1>4. \A i \in 1..2 : add(Labels[i]) \in X /\ one(Labels[i]) \in X
    OBVIOUS
<1>5. load \in X
    OBVIOUS
<1> HIDE DEF X
<1>6. adds \in [1..2 -> Seq(X)] /\ exes \in [1..2 -> Seq(X)]
    BY <1>4, LabelList
<1> HIDE DEF adds, exes
<1>7. Joined(adds) \in Seq(X) /\ Joined(exes) \in Seq(X)
    BY <1>6, LabelLoop
<1>8. before \in Seq(X)
    <2>1. <<load>> \in Seq(X)
        BY <1>5
    <2>2. Joined(adds) \o <<load>> \in Seq(X)
        BY <1>7, <2>1, ConcatProperties
    <2> QED
        BY <1>7, <2>2, ConcatProperties
<1> HIDE DEF before
<1>9. \A i \in 1..Len(before) :
        before[i].op # "apply" /\ (before[i].op = "execute" => before[i].scenario \in S)
    <2>1. \A i \in 1..Len(before) : before[i] \in X
        BY <1>8
    <2> QED
        BY <1>3, <2>1
<1>10. Tidy(before \o <<CompareCase(case, 0), remove>>, S)
    BY <1>2, <1>8, <1>9, TidyRemoval
<1> QED
    BY <1>1, <1>10

\* The special comparisons are tidy.
LEMMA TidySpecial ==
    ASSUME NEW S, NEW w, NEW t, NEW s \in S, NEW j, NEW case, s.mode \in SpecialModes
    PROVE  Tidy(runSpecialCompatibility(w, t, s, j, case), S)
<1>1. CASE s.mode \in {"timeout", "cancel"}
    <2>1. runSpecialCompatibility(w, t, s, j, case) = runInterruptedCompatibility(w, t, s, j, case)
        BY <1>1 DEF runSpecialCompatibility
    <2>2. PICK purpose : purpose = "compatibility-" \o s.mode
        OBVIOUS
    <2>3. runInterruptedCompatibility(w, t, s, j, case) = Compared(w, t, s, j, case, purpose)
        BY <2>2 DEF runInterruptedCompatibility, Compared, Each
    <2> QED
        BY <2>1, <2>3, TidyPlain
<1>2. CASE s.mode = "parallel"
    <2>1. runSpecialCompatibility(w, t, s, j, case) = runParallelCompatibility(w, t, s, j, case)
        BY <1>2 DEF runSpecialCompatibility
    <2> QED
        BY <2>1, TidyParallel
<1>3. CASE s.mode = "corrupted-cache"
    <2>1. runSpecialCompatibility(w, t, s, j, case) = runCorruptedCacheCompatibility(w, t, s, j, case)
        BY <1>3 DEF runSpecialCompatibility
    <2> QED
        BY <2>1, TidyCorrupted
<1> QED
    BY <1>1, <1>2, <1>3 DEF SpecialModes

\* The modes of the scenarios are the ones that validateScenarioExecution lets pass.
Moded(p) == \A i \in 1..Len(p.scenarios) : p.scenarios[i].mode \in SpecialModes \cup {""}

\* The comparisons remove every worktree.
LEMMA TidyCompatibility ==
    ASSUME NEW S, NEW p, Shaped(p), Moded(p), Offers(p, S)
    PROVE  Tidy(runCompatibility(p), S)
<1> DEFINE case(w, t, s, j) == compatibilityCaseBase(w.name, t, s.name, j)
           plain(w, t, s, j) == Compared(w, t, s, j, case(w, t, s, j), "compatibility")
           B4(w, t, s, j) ==
               CASE s.mode # "" -> runSpecialCompatibility(w, t, s, j, case(w, t, s, j))
                 [] s.mode = "" /\ s.mutates -> runMutationCompatibility(w, t, s, j, case(w, t, s, j))
                 [] OTHER -> plain(w, t, s, j)
           B3(w, t, s) == Joined([i \in 1..Len(p.concurrency) |-> B4(w, t, s, p.concurrency[i])])
           B2(w, t) == Joined([i \in 1..Len(p.scenarios) |-> B3(w, t, p.scenarios[i])])
           B1(w) == Joined([i \in 1..Len(w.targets) |-> B2(w, w.targets[i])])
           B0 == Joined([i \in 1..Len(p.workloads) |-> B1(p.workloads[i])])
<1>1. runCompatibility(p) = B0
    BY DEF runCompatibility, Each, Compared
<1>2. ASSUME NEW w, NEW t, NEW s \in S, NEW j PROVE Tidy(plain(w, t, s, j), S)
    BY TidyPlain
<1> HIDE DEF B0, B1, B2, B3, B4, plain, case
<1>3. ASSUME NEW w, NEW t, NEW s \in S, NEW j, s.mode \in SpecialModes \cup {""} PROVE Tidy(B4(w, t, s, j), S)
    <2>1. CASE s.mode # ""
        <3>1. B4(w, t, s, j) = runSpecialCompatibility(w, t, s, j, case(w, t, s, j))
            BY <2>1 DEF B4
        <3>2. s.mode \in SpecialModes
            BY <1>3, <2>1
        <3> QED
            BY <3>1, <3>2, TidySpecial
    <2>2. CASE s.mode = "" /\ s.mutates
        <3>1. B4(w, t, s, j) = runMutationCompatibility(w, t, s, j, case(w, t, s, j))
            BY <2>2 DEF B4
        <3> QED
            BY <3>1, TidyMutation
    <2>3. CASE s.mode = "" /\ ~s.mutates
        <3>1. B4(w, t, s, j) = plain(w, t, s, j)
            BY <2>3 DEF B4
        <3> QED
            BY <1>2, <3>1
    <2> QED
        BY <2>1, <2>2, <2>3
<1>4. ASSUME NEW w, NEW t, NEW s \in S, s.mode \in SpecialModes \cup {""} PROVE Tidy(B3(w, t, s), S)
    <2> DEFINE r == [i \in 1..Len(p.concurrency) |-> B4(w, t, s, p.concurrency[i])]
    <2>1. r = [i \in 1..Len(p.concurrency) |-> r[i]] /\ DOMAIN r = 1..Len(p.concurrency)
        OBVIOUS
    <2>2. \A i \in 1..Len(p.concurrency) : Tidy(r[i], S)
        BY <1>3, <1>4
    <2>3. B3(w, t, s) = Joined(r)
        BY DEF B3
    <2> HIDE DEF r
    <2>4. Tidy(Joined(r), S)
        BY <2>1, <2>2, TidyLoop DEF Shaped
    <2> QED
        BY <2>3, <2>4
<1>5. ASSUME NEW w, NEW t PROVE Tidy(B2(w, t), S)
    <2> DEFINE r == [i \in 1..Len(p.scenarios) |-> B3(w, t, p.scenarios[i])]
    <2>1. r = [i \in 1..Len(p.scenarios) |-> r[i]] /\ DOMAIN r = 1..Len(p.scenarios)
        OBVIOUS
    <2>2. \A i \in 1..Len(p.scenarios) : Tidy(r[i], S)
        BY <1>4 DEF Moded, Offers
    <2>3. B2(w, t) = Joined(r)
        BY DEF B2
    <2> HIDE DEF r
    <2>4. Tidy(Joined(r), S)
        BY <2>1, <2>2, TidyLoop DEF Shaped
    <2> QED
        BY <2>3, <2>4
<1>6. ASSUME NEW w, Len(w.targets) \in Nat PROVE Tidy(B1(w), S)
    <2> DEFINE r == [i \in 1..Len(w.targets) |-> B2(w, w.targets[i])]
    <2>1. r = [i \in 1..Len(w.targets) |-> r[i]] /\ DOMAIN r = 1..Len(w.targets)
        OBVIOUS
    <2>2. \A i \in 1..Len(w.targets) : Tidy(r[i], S)
        BY <1>5
    <2>3. B1(w) = Joined(r)
        BY DEF B1
    <2> HIDE DEF r
    <2>4. Tidy(Joined(r), S)
        BY <1>6, <2>1, <2>2, TidyLoop DEF Shaped
    <2> QED
        BY <2>3, <2>4
<1>7. Tidy(B0, S)
    <2> DEFINE r == [i \in 1..Len(p.workloads) |-> B1(p.workloads[i])]
    <2>1. r = [i \in 1..Len(p.workloads) |-> r[i]] /\ DOMAIN r = 1..Len(p.workloads)
        OBVIOUS
    <2>2. \A i \in 1..Len(p.workloads) : Tidy(r[i], S)
        BY <1>6 DEF Shaped
    <2>3. B0 = Joined(r)
        BY DEF B0
    <2> HIDE DEF r
    <2>4. Tidy(Joined(r), S)
        BY <2>1, <2>2, TidyLoop DEF Shaped
    <2> QED
        BY <2>3, <2>4
<1> QED
    BY <1>1, <1>7

\* Dropping repetitions from a list leaves a list.
LEMMA CompactList ==
    ASSUME NEW seq, Len(seq) \in Nat
    PROVE  Len(Compact(seq)) \in Nat
BY PickedList DEF Compact

\* filterTargets and resolveTargets leave a list of targets.
LEMMA TargetList ==
    ASSUME NEW w, {"targets", "profileModule"} \subseteq DOMAIN w, Len(w.targets) \in Nat, NEW module
    PROVE  Len(filterTargets(resolveTargets(w), module).targets) \in Nat
<1>1. PICK v : v = resolveTargets(w)
    OBVIOUS
<1>2. "targets" \in DOMAIN v /\ Len(v.targets) \in Nat
    <2>1. CASE w.targets = <<>>
        <3>1. v = [w EXCEPT !.targets = <<".">>]
            BY <1>1, <2>1 DEF resolveTargets
        <3>2. "targets" \in DOMAIN v /\ v.targets = <<".">>
            BY <3>1
        <3>3. Len(<<".">>) = 1
            OBVIOUS
        <3> QED
            BY <3>2, <3>3
    <2>2. CASE w.targets # <<>>
        BY <1>1, <2>2 DEF resolveTargets
    <2> QED
        BY <2>1, <2>2
<1>3. CASE module = None
    BY <1>1, <1>2, <1>3 DEF filterTargets
<1>4. CASE module # None
    <2>1. PICK found : found = Filter(v.targets, LAMBDA t : t = module)
        OBVIOUS
    <2>2. PICK m : m = IF found = <<>> \/ Contains(found, v.profileModule) THEN v.profileModule ELSE found[1]
        OBVIOUS
    <2>3. filterTargets(v, module) = [v EXCEPT !.targets = IF found = <<>> THEN <<>> ELSE <<found[1]>>,
                                               !.profileModule = m]
        BY <1>4, <2>1, <2>2 DEF filterTargets
    <2>4. filterTargets(v, module).targets = IF found = <<>> THEN <<>> ELSE <<found[1]>>
        BY <1>2, <2>3
    <2>5. Len(<<>>) = 0 /\ Len(<<found[1]>>) = 1
        OBVIOUS
    <2> QED
        BY <1>1, <2>4, <2>5
<1> QED
    BY <1>3, <1>4

\* prepareWorkloads leaves a list of workloads with lists of targets.
LEMMA WorkloadList ==
    ASSUME NEW ws, IsList(ws), NEW o,
           \A i \in DOMAIN ws : {"targets", "profileModule"} \subseteq DOMAIN ws[i] /\ IsList(ws[i].targets)
    PROVE  /\ Len(prepareWorkloads(ws, o)) \in Nat
           /\ \A i \in 1..Len(prepareWorkloads(ws, o)) : Len(prepareWorkloads(ws, o)[i].targets) \in Nat
<1> DEFINE first  == {i \in 1..Len(ws) : o.workload \in {None, ws[i].name}}
           chosen == Picked(ws, first)
           all    == [i \in DOMAIN chosen |-> filterTargets(resolveTargets(chosen[i]), o.module)]
           second == {i \in 1..Len(all) : all[i].targets # <<>>}
           W      == {ws[i] : i \in 1..Len(ws)}
           V      == {filterTargets(resolveTargets(w), o.module) : w \in W}
<1>1. prepareWorkloads(ws, o) = Picked(all, second)
    BY DEF prepareWorkloads, Filter
<1>2. Len(ws) \in Nat /\ DOMAIN ws = 1..Len(ws)
    BY DEF IsList
<1>3. \A w \in W : Len(filterTargets(resolveTargets(w), o.module).targets) \in Nat
    BY <1>2, TargetList DEF IsList
<1>4. \A v \in V : Len(v.targets) \in Nat
    BY <1>3
<1> HIDE DEF first
<1>5. chosen \in Seq(W)
    BY <1>2, PickedList
<1> HIDE DEF W, chosen
<1>6. PICK n \in Nat : n = Len(chosen) /\ DOMAIN chosen = 1..n /\ \A i \in 1..n : chosen[i] \in W
    BY <1>5, LenProperties
<1>7. all \in [1..n -> V]
    BY <1>6
<1> HIDE DEF all, V, second
<1>8. Len(all) = n /\ \A i \in 1..n : all[i] \in V
    BY <1>7, ListOf
<1>9. PICK d : d = Picked(all, second)
    OBVIOUS
<1>10. PickedUpto(d, all, second, n) /\ Len(d) \in Nat
    BY <1>8, <1>9, PickedAll, PickedList
<1>11. \A k \in 1..Len(d) : d[k] \in V
    BY <1>8, <1>10 DEF PickedUpto
<1> QED
    BY <1>1, <1>4, <1>9, <1>10, <1>11

\* filterScenarios leaves a list of scenarios of the manifest.
LEMMA ScenarioList ==
    ASSUME NEW ss, IsList(ss), NEW o
    PROVE  /\ Len(filterScenarios(ss, o)) \in Nat
           /\ \A i \in 1..Len(filterScenarios(ss, o)) :
                \E k \in DOMAIN ss : filterScenarios(ss, o)[i] = ss[k]
<1> DEFINE places == {i \in 1..Len(ss) : o.scenario \in {None, ss[i].name}}
<1>1. filterScenarios(ss, o) = Picked(ss, places)
    BY DEF filterScenarios, Filter
<1>2. Len(ss) \in Nat /\ DOMAIN ss = 1..Len(ss)
    BY DEF IsList
<1> HIDE DEF places
<1>3. PICK d : d = Picked(ss, places)
    OBVIOUS
<1>4. PickedUpto(d, ss, places, Len(ss)) /\ Len(d) \in Nat
    BY <1>2, <1>3, PickedAll, PickedList
<1> QED
    BY <1>1, <1>2, <1>3, <1>4 DEF PickedUpto

\* configuredBinaries yields a list.
LEMMA BinaryList ==
    ASSUME NEW o
    PROVE  Len(configuredBinaries(o)) \in Nat
<1>1. PICK bs : bs = IF o.order = "upstream-first" THEN <<"upstream", "fork">> ELSE <<"fork", "upstream">>
    OBVIOUS
<1>2. PICK places : places = {i \in 1..Len(bs) : IF bs[i] = "fork" THEN o.fork ELSE o.upstream}
    OBVIOUS
<1>3. configuredBinaries(o) = Picked(bs, places)
    BY <1>1, <1>2 DEF configuredBinaries, Filter
<1>4. Len(bs) \in Nat
    BY <1>1
<1> QED
    BY <1>3, <1>4, PickedList

\* The manifest with the overrides of the command line.
LEMMA Overrides ==
    ASSUME NEW o \in Options, NEW m \in Manifests
    PROVE  /\ applyManifestOverrides(m, o).workloads = m.workloads
           /\ applyManifestOverrides(m, o).scenarios = m.scenarios
           /\ applyManifestOverrides(m, o).runs \in Int
           /\ Len(applyManifestOverrides(m, o).concurrency) \in Nat
<1>1. o.runs \in Int /\ Len(o.concurrency) \in Nat
    BY MatrixAssumption DEF IsList
<1>2. {"runs", "concurrency", "workloads", "scenarios"} \subseteq DOMAIN m /\ m.runs \in Int /\ Len(m.concurrency) \in Nat
    BY MatrixAssumption DEF IsList
<1>3. PICK n \in Int : n = IF o.runs > 0 THEN o.runs ELSE m.runs
    BY <1>1, <1>2
<1>4. PICK c : c = IF o.concurrency = <<>> THEN m.concurrency ELSE parsePositiveInts(o.concurrency)
    OBVIOUS
<1>5. Len(c) \in Nat
    BY <1>1, <1>2, <1>4, CompactList DEF parsePositiveInts
<1>6. applyManifestOverrides(m, o) = [m EXCEPT !.runs = n, !.concurrency = c]
    BY <1>3, <1>4 DEF applyManifestOverrides
<1> QED
    BY <1>2, <1>5, <1>6

\* The steps of every validated run are tidy.
LEMMA PlanIsTidy ==
    ASSUME NEW o \in Options, NEW m0 \in Manifests, NEW m, m = applyManifestOverrides(m0, o),
           validateManifest(m)
    PROVE  Tidy(runAll(o, m), Range(filterScenarios(m.scenarios, o)))
<1>1. PICK p : p = [workloads |-> prepareWorkloads(m.workloads, o),
              scenarios |-> filterScenarios(m.scenarios, o),
              concurrency |-> m.concurrency, runs |-> m.runs,
              binaries |-> configuredBinaries(o), modes |-> parseCacheModes(o.modes),
              prepare |-> o.prepare, profileConcurrency |-> o.profileConcurrency]
    OBVIOUS
<1>2. /\ p.workloads = prepareWorkloads(m0.workloads, o)
      /\ p.scenarios = filterScenarios(m0.scenarios, o)
      /\ p.concurrency = m.concurrency /\ p.runs = m.runs
      /\ p.binaries = configuredBinaries(o) /\ p.modes = Compact(o.modes)
    BY <1>1, Overrides DEF parseCacheModes
<1>3. /\ IsList(m0.workloads) /\ IsList(m0.scenarios) /\ IsList(o.modes)
      /\ \A i \in DOMAIN m0.workloads :
            {"targets", "profileModule"} \subseteq DOMAIN m0.workloads[i] /\ IsList(m0.workloads[i].targets)
    BY MatrixAssumption
<1>4. m.runs \in Nat
    <2>1. m.runs \in Int /\ m.runs >= 1
        BY Overrides DEF validateManifest
    <2> QED
        BY <2>1
<1>5. Len(p.workloads) \in Nat /\ \A i \in 1..Len(p.workloads) : Len(p.workloads[i].targets) \in Nat
    BY <1>2, <1>3, WorkloadList
<1>6. Len(p.scenarios) \in Nat /\ \A i \in 1..Len(p.scenarios) : \E k \in DOMAIN m0.scenarios : p.scenarios[i] = m0.scenarios[k]
    BY <1>2, <1>3, ScenarioList
<1>7. Len(p.binaries) \in Nat
    BY <1>2, BinaryList
<1>8. Len(p.modes) \in Nat
    BY <1>2, <1>3, CompactList DEF IsList
<1>9. Shaped(p)
    BY <1>2, <1>4, <1>5, <1>6, <1>7, <1>8, Overrides DEF Shaped
<1>10. Moded(p)
    <2>1. \A k \in DOMAIN m0.scenarios : m0.scenarios[k].mode \in SpecialModes \cup {""}
        BY Overrides DEF validateManifest, validateScenarios, validateScenario, validateScenarioExecution
    <2> QED
        BY <1>6, <2>1 DEF Moded
<1> DEFINE S == Range(filterScenarios(m.scenarios, o))
<1>11. Offers(p, S)
    BY <1>1, <1>6 DEF Offers, Range
<1> HIDE DEF S
<1>12. runAll(o, m) = IF o.compatibility THEN runCompatibility(p)
                      ELSE runTimingMatrix(p) \o (IF o.profiles THEN runProfiles(p) ELSE <<>>)
    BY <1>1 DEF runAll
<1>13. Tidy(runCompatibility(p), S) /\ Tidy(runTimingMatrix(p), S) /\ Tidy(runProfiles(p), S)
    BY <1>9, <1>10, <1>11, TidyCompatibility, TidyTimings, TidyProfiles
<1>14. Tidy(runTimingMatrix(p) \o (IF o.profiles THEN runProfiles(p) ELSE <<>>), S)
    <2>1. Tidy(IF o.profiles THEN runProfiles(p) ELSE <<>>, S)
        BY <1>13, TidyNothing
    <2> QED
        BY <1>13, <2>1, TidyConcat
<1> QED
    BY <1>12, <1>13, <1>14 DEF S

\* The steps of what is left of a list.
LEMMA StepsOfTail ==
    ASSUME NEW X, NEW s \in Seq(X), s # <<>>
    PROVE  /\ Tail(s) \in Seq(X)
           /\ \A k, op, w : At(Tail(s), k, op, w) <=> k \in Nat /\ k > 0 /\ At(s, k + 1, op, w)
           /\ \A k, op : Has(Tail(s), k, op) <=> k \in Nat /\ k > 0 /\ Has(s, k + 1, op)
           /\ \A op, w : At(s, 1, op, w) <=> Head(s).op = op /\ Head(s).workload.name = w
           /\ \A op : Has(s, 1, op) <=> Head(s).op = op
<1>1. PICK n \in Nat : n = Len(s) /\ n > 0
    BY LenProperties, EmptySeq
<1>2. Tail(s) \in Seq(X) /\ Len(Tail(s)) = n - 1 /\ \A k \in 1..(n - 1) : Tail(s)[k] = s[k + 1]
    BY <1>1, HeadTailProperties
<1>3. Head(s) = s[1]
    OBVIOUS
<1>4. PICK v : v = Tail(s)
    OBVIOUS
<1>5. \A k : k \in 1..Len(v) <=> k \in Nat /\ k > 0 /\ k + 1 \in 1..n
    BY <1>2, <1>4
<1>6. \A k \in 1..Len(v) : v[k] = s[k + 1]
    BY <1>2, <1>4
<1>7. /\ \A k, op, w : At(v, k, op, w) <=> k \in Nat /\ k > 0 /\ At(s, k + 1, op, w)
      /\ \A k, op : Has(v, k, op) <=> k \in Nat /\ k > 0 /\ Has(s, k + 1, op)
    BY <1>1, <1>5, <1>6 DEF At, Has
<1>8. /\ \A op, w : At(s, 1, op, w) <=> Head(s).op = op /\ Head(s).workload.name = w
      /\ \A op : Has(s, 1, op) <=> Head(s).op = op
    BY <1>1, <1>3 DEF At, Has
<1> QED
    BY <1>2, <1>4, <1>7, <1>8

\* The restore of w is among the steps.
Awaits(s, w) == \E r \in Nat : At(s, r, "restore", w)

\* Every changed file is restored by a step, and its restore is deferred
\* already or in the next step.
Dirty(s, W, c) ==
    \A w \in DOMAIN c : c[w] # 0 => Awaits(s, w) /\ (w \in W \/ At(s, 1, "defer", w))

\* What is left of the edits after a step.
LEMMA EditsOfTail ==
    ASSUME NEW s, Listed(s), s # <<>>, NEW W, NEW V, Edits(s, W),
           \A w \in W : ~At(s, 1, "restore", w) => w \in V,
           \A w : At(s, 1, "defer", w) => w \in V
    PROVE  Edits(Tail(s), V)
<1>1. PICK t : t = Tail(s)
    OBVIOUS
<1>2. \A k, op, w : At(t, k, op, w) <=> k \in Nat /\ k > 0 /\ At(s, k + 1, op, w)
    <2>1. PICK X : s \in Seq(X)
        BY DEF Listed
    <2> QED
        BY <1>1, <2>1, StepsOfTail
<1>3. \A k, op, w : At(s, k, op, w) => k \in Nat /\ k > 0
    BY DEF At
<1> SUFFICES ASSUME NEW k, NEW w, At(t, k, "apply", w)
             PROVE  /\ \E r \in Nat : r > k /\ At(t, r, "restore", w)
                    /\ \/ At(t, k + 1, "defer", w)
                       \/ \E d \in Nat : d < k /\ At(t, d, "defer", w) /\ Unrestored(t, d, k, w)
                       \/ w \in V /\ Unrestored(t, 1, k, w)
    BY <1>1 DEF Edits
<1>4. k \in Nat /\ k > 0 /\ At(s, k + 1, "apply", w)
    BY <1>2
<1>5. PICK r \in Nat : r > k + 1 /\ At(s, r, "restore", w)
    BY <1>4 DEF Edits
<1>6. r - 1 \in Nat /\ r - 1 > k /\ (r - 1) + 1 = r
    BY <1>4, <1>5
<1>7. At(t, r - 1, "restore", w)
    BY <1>2, <1>4, <1>5, <1>6
<1>8. CASE At(s, (k + 1) + 1, "defer", w)
    <2>1. At(t, k + 1, "defer", w)
        BY <1>2, <1>4, <1>8
    <2> QED
        BY <1>6, <1>7, <2>1
<1>9. CASE \E d \in Nat : d < k + 1 /\ At(s, d, "defer", w) /\ Unrestored(s, d, k + 1, w)
    <2>1. PICK d \in Nat : d < k + 1 /\ At(s, d, "defer", w) /\ Unrestored(s, d, k + 1, w)
        BY <1>9
    <2>2. CASE d = 1
        <3>1. w \in V
            BY <2>1, <2>2
        <3>2. Unrestored(t, 1, k, w)
            <4> SUFFICES ASSUME NEW q \in 1..k PROVE ~At(t, q, "restore", w)
                BY DEF Unrestored
            <4>1. q + 1 \in d..(k + 1)
                BY <1>4, <2>2
            <4> QED
                BY <1>2, <2>1, <4>1 DEF Unrestored
        <3> QED
            BY <1>6, <1>7, <3>1, <3>2
    <2>3. CASE d # 1
        <3>1. d - 1 \in Nat /\ d - 1 > 0 /\ (d - 1) + 1 = d /\ d - 1 < k
            BY <1>3, <1>4, <2>1, <2>3
        <3>2. At(t, d - 1, "defer", w)
            BY <1>2, <2>1, <3>1
        <3>3. Unrestored(t, d - 1, k, w)
            <4> SUFFICES ASSUME NEW q \in (d - 1)..k PROVE ~At(t, q, "restore", w)
                BY DEF Unrestored
            <4>1. q + 1 \in d..(k + 1)
                BY <1>4, <3>1
            <4> QED
                BY <1>2, <2>1, <4>1 DEF Unrestored
        <3> QED
            BY <1>6, <1>7, <3>1, <3>2, <3>3
    <2> QED
        BY <2>2, <2>3
<1>10. CASE w \in W /\ Unrestored(s, 1, k + 1, w)
    <2>1. ~At(s, 1, "restore", w)
        BY <1>4, <1>10 DEF Unrestored
    <2>2. w \in V
        BY <1>10, <2>1
    <2>3. Unrestored(t, 1, k, w)
        <3> SUFFICES ASSUME NEW q \in 1..k PROVE ~At(t, q, "restore", w)
            BY DEF Unrestored
        <3>1. q + 1 \in 1..(k + 1)
            BY <1>4
        <3> QED
            BY <1>2, <1>10, <3>1 DEF Unrestored
    <2> QED
        BY <1>6, <1>7, <2>2, <2>3
<1> QED
    BY <1>4, <1>8, <1>9, <1>10 DEF Edits

\* A restore that is not the first step is left after it.
LEMMA AwaitsTail ==
    ASSUME NEW s, Listed(s), s # <<>>, NEW w, Awaits(s, w), ~At(s, 1, "restore", w)
    PROVE  Awaits(Tail(s), w)
<1>1. PICK t : t = Tail(s)
    OBVIOUS
<1>2. \A k, op : At(t, k, op, w) <=> k \in Nat /\ k > 0 /\ At(s, k + 1, op, w)
    <2>1. PICK X : s \in Seq(X)
        BY DEF Listed
    <2> QED
        BY <1>1, <2>1, StepsOfTail
<1>3. PICK r \in Nat : At(s, r, "restore", w)
    BY DEF Awaits
<1>4. r # 1 /\ r > 0
    BY <1>3 DEF At
<1>5. r - 1 \in Nat /\ r - 1 > 0 /\ (r - 1) + 1 = r
    BY <1>4
<1>6. At(t, r - 1, "restore", w)
    BY <1>2, <1>3, <1>5
<1> QED
    BY <1>1, <1>5, <1>6 DEF Awaits

\* What is left to remove after a step.
LEMMA RemovesOfTail ==
    ASSUME NEW s, Listed(s), s # <<>>, Removes(s)
    PROVE  /\ Removes(Tail(s))
           /\ Has(s, 1, "worktree") => \E r \in Nat : Has(Tail(s), r, "remove")
           /\ ~Has(s, 1, "remove") /\ (\E r \in Nat : Has(s, r, "remove"))
                => \E r \in Nat : Has(Tail(s), r, "remove")
<1>1. PICK t : t = Tail(s)
    OBVIOUS
<1>2. \A k, op : Has(t, k, op) <=> k \in Nat /\ k > 0 /\ Has(s, k + 1, op)
    <2>1. PICK X : s \in Seq(X)
        BY DEF Listed
    <2> QED
        BY <1>1, <2>1, StepsOfTail
<1>3. ASSUME NEW r \in Nat, r # 1, Has(s, r, "remove") PROVE r - 1 \in Nat /\ Has(t, r - 1, "remove")
    <2>1. r - 1 \in Nat /\ r - 1 > 0 /\ (r - 1) + 1 = r
        BY <1>3 DEF Has
    <2> QED
        BY <1>2, <1>3, <2>1
<1>4. Removes(t)
    <2> SUFFICES ASSUME NEW k, Has(t, k, "worktree") PROVE \E r \in Nat : r > k /\ Has(t, r, "remove")
        BY DEF Removes
    <2>1. k \in Nat /\ k > 0 /\ Has(s, k + 1, "worktree")
        BY <1>2
    <2>2. PICK r \in Nat : r > k + 1 /\ Has(s, r, "remove")
        BY <2>1 DEF Removes
    <2>3. r # 1 /\ r - 1 > k
        BY <2>1, <2>2
    <2> QED
        BY <1>3, <2>2, <2>3
<1>5. ASSUME Has(s, 1, "worktree") PROVE \E r \in Nat : Has(t, r, "remove")
    <2>1. PICK r \in Nat : r > 1 /\ Has(s, r, "remove")
        BY <1>5 DEF Removes
    <2> QED
        BY <1>3, <2>1
<1>6. ASSUME ~Has(s, 1, "remove"), NEW r \in Nat, Has(s, r, "remove") PROVE \E q \in Nat : Has(t, q, "remove")
    BY <1>3, <1>6
<1> QED
    BY <1>1, <1>4, <1>5, <1>6

(* -------------- BenchMatrix: restored files and worktrees ------------ *)

\* The stages before the first step, and those after validateManifest.
Upfront == {"build", "parseOptions", "loadManifest", "validateManifest", "prepareBinaries",
          "resolveGoToolchain", "prepareOutputDir", "prepareWorkloads", "filterScenarios",
          "collectMetadata", "openResults"}

Validated == {"prepareBinaries", "resolveGoToolchain", "prepareOutputDir", "prepareWorkloads",
              "filterScenarios", "collectMetadata", "openResults", "plan"}

\* Where the run is: an error ends it, and the steps come from a valid manifest.
StageInv ==
    /\ opts \in Options /\ manifest \in Manifests
    /\ stage \in Upfront \cup {"plan", "unwind", "exit"}
    /\ stage \in Validated => validateManifest(M)
    /\ stage \in Upfront \cup {"plan"} => ~failed
    /\ stage = "unwind" => failed
    /\ Listed(plan)

Clean == \A w \in DOMAIN content : content[w] = 0

EditsRestored == stage = "exit" => \A w \in DOMAIN content : content[w] = 0 \/ (writeFailed /\ failed)

\* The edited files: clean before the steps, restored by them or on the way out.
EditInv ==
    /\ stage \in Upfront => Clean /\ pending = {}
    /\ stage = "plan" => Edits(plan, pending) /\ Dirty(plan, pending, content)
    /\ stage = "unwind" => \A w \in DOMAIN content : content[w] = 0 \/ w \in pending \/ writeFailed
    /\ EditsRestored

Retained == UNION {s.named : s \in summaries}

\* The worktrees: of the current case, named by a summary, or not removable.
TreeInv ==
    /\ Listed(created)
    /\ trees = Range(created) \cup Retained \cup kept
    /\ Range(created) \cap (Retained \cup kept) = {}
    /\ stage \in Upfront => created = <<>>
    /\ stage \in Upfront \cup {"plan"} => Retained = {} /\ kept = {}
    /\ stage = "plan" => Removes(plan) /\ (created # <<>> => \E r \in Nat : Has(plan, r, "remove"))
    /\ WorktreesAccountedFor

MatrixInv == StageInv /\ EditInv /\ TreeInv

\* A step of the plan ends: the run goes on or returns the error.
Advances ==
    \/ stage' = "plan" /\ ~failed' /\ plan' = Tail(plan)
    \/ stage' = "unwind" /\ failed' /\ plan' = <<>>

Takes(op) ==
    /\ stage = "plan" /\ plan # <<>> /\ Head(plan).op = op
    /\ opts' = opts /\ manifest' = manifest
    /\ Advances

SameFiles == content' = content /\ pending' = pending /\ writeFailed' = writeFailed
SameTrees == trees' = trees /\ created' = created /\ kept' = kept /\ summaries' = summaries

\* The two ends of a step.
LEMMA StepEnds ==
    ASSUME stage = "plan", ~failed
    PROVE  (Succeeds => Advances) /\ (Fails => Advances) /\ \A ok : Ends(ok) => Advances
<1>1. Succeeds => Advances
    BY DEF Succeeds, Advances
<1>2. Fails => Advances
    BY DEF Fails, Advances
<1> QED
    BY <1>1, <1>2 DEF Ends

\* The steps that touch neither an edited file nor a worktree.
LEMMA QuietSteps ==
    ASSUME StageInv
    PROVE  /\ Execution => Takes("execute") /\ SameFiles /\ SameTrees
           /\ Parallel => Takes("parallel") /\ SameFiles /\ SameTrees
           /\ CorruptCache => Takes("corrupt") /\ SameFiles /\ SameTrees
           /\ OpenEditor => Takes("open") /\ SameFiles /\ SameTrees
           /\ LoadExpected => Takes("expected") /\ SameFiles /\ SameTrees
           /\ RefuseProfile => Takes("fail") /\ SameFiles /\ SameTrees
<1>0. stage = "plan" => ~failed
    BY DEF StageInv
<1> USE <1>0, StepEnds DEF Running, Step, Takes, SameFiles, SameTrees, input, work, compat
<1>1. Execution => Takes("execute") /\ SameFiles /\ SameTrees
    BY DEF Execution
<1>2. ASSUME Parallel PROVE Takes("parallel") /\ SameFiles /\ SameTrees
    <2>1. Fails \/ \E ok : Ends(ok)
        BY <1>2 DEF Parallel
    <2>2. Running("parallel") /\ UNCHANGED <<input, work, trees, created, kept, summaries>>
        BY <1>2 DEF Parallel
    <2> QED
        BY <2>1, <2>2
<1>3. CorruptCache => Takes("corrupt") /\ SameFiles /\ SameTrees
    BY DEF CorruptCache
<1>4. OpenEditor => Takes("open") /\ SameFiles /\ SameTrees
    BY DEF OpenEditor
<1>5. LoadExpected => Takes("expected") /\ SameFiles /\ SameTrees
    BY DEF LoadExpected
<1>6. RefuseProfile => Takes("fail") /\ SameFiles /\ SameTrees
    BY DEF RefuseProfile
<1> QED
    BY <1>1, <1>2, <1>3, <1>4, <1>5, <1>6

\* The steps that edit a file leave the worktrees alone.
LEMMA EditSteps ==
    ASSUME StageInv
    PROVE  /\ DeferRestore => Takes("defer") /\ SameTrees
           /\ ApplyEdit => Takes("apply") /\ SameTrees
           /\ RestoreEdit => Takes("restore") /\ SameTrees
<1>0. stage = "plan" => ~failed
    BY DEF StageInv
<1> USE <1>0, StepEnds DEF Running, Step, Takes, SameTrees, input, compat
<1>1. DeferRestore => Takes("defer") /\ SameTrees
    BY DEF DeferRestore
<1>2. ApplyEdit => Takes("apply") /\ SameTrees
    BY DEF ApplyEdit
<1>3. RestoreEdit => Takes("restore") /\ SameTrees
    BY DEF RestoreEdit
<1> QED
    BY <1>1, <1>2, <1>3

\* The steps of a mutation case leave the edited files alone.
LEMMA TreeSteps ==
    ASSUME StageInv
    PROVE  /\ AddWorktree => Takes("worktree") /\ SameFiles
           /\ CompareFiles => Takes("compare") /\ SameFiles
           /\ RemoveWorktrees => Takes("remove") /\ SameFiles
<1>0. stage = "plan" => ~failed
    BY DEF StageInv
<1> USE <1>0, StepEnds DEF Running, Step, Takes, SameFiles, input, work
<1>1. AddWorktree => Takes("worktree") /\ SameFiles
    BY DEF AddWorktree, WorktreeFails
<1>2. CompareFiles => Takes("compare") /\ SameFiles
    BY DEF CompareFiles
<1>3. RemoveWorktrees => Takes("remove") /\ SameFiles
    BY DEF RemoveWorktrees, Advances
<1> QED
    BY <1>1, <1>2, <1>3

\* A step leaves the stage invariant.
LEMMA TakesStage ==
    ASSUME StageInv, NEW op, Takes(op)
    PROVE  StageInv'
<1>1. opts' \in Options /\ manifest' \in Manifests /\ M' = M
    BY DEF StageInv, Takes, M
<1>2. CASE stage' = "plan" /\ ~failed' /\ plan' = Tail(plan)
    <2>1. PICK X : plan \in Seq(X)
        BY DEF StageInv, Listed
    <2>2. Listed(plan')
        BY <1>2, <2>1, StepsOfTail DEF Takes, Listed
    <2>3. validateManifest(M)
        BY DEF StageInv, Takes, Validated
    <2> QED
        BY <1>1, <1>2, <2>2, <2>3 DEF StageInv, Upfront
<1>3. CASE stage' = "unwind" /\ failed' /\ plan' = <<>>
    <2>1. Listed(<<>>)
        BY TidyNothing DEF Tidy
    <2> QED
        BY <1>1, <1>3, <2>1 DEF StageInv, Upfront, Validated
<1> QED
    BY <1>2, <1>3 DEF Takes, Advances

\* The steps that do not touch the edited files keep EditInv.
LEMMA EditsKept ==
    ASSUME StageInv, EditInv, NEW op, op \notin {"apply", "defer", "restore"}, Takes(op), SameFiles
    PROVE  EditInv'
<1>1. stage = "plan" /\ plan # <<>> /\ Listed(plan) /\ Edits(plan, pending) /\ Dirty(plan, pending, content)
    BY DEF Takes, StageInv, EditInv
<1>2. \A w : ~At(plan, 1, "defer", w) /\ ~At(plan, 1, "restore", w)
    <2>1. PICK X : plan \in Seq(X)
        BY <1>1 DEF Listed
    <2>2. \A o, w : At(plan, 1, o, w) => Head(plan).op = o
        BY <1>1, <2>1, StepsOfTail
    <2> QED
        BY <2>2 DEF Takes
<1>3. CASE stage' = "plan" /\ ~failed' /\ plan' = Tail(plan)
    <2>1. Edits(Tail(plan), pending)
        BY <1>1, <1>2, EditsOfTail
    <2>2. Dirty(Tail(plan), pending, content)
        BY <1>1, <1>2, AwaitsTail DEF Dirty
    <2> QED
        BY <1>3, <2>1, <2>2 DEF EditInv, SameFiles, EditsRestored, Upfront
<1>4. CASE stage' = "unwind" /\ failed' /\ plan' = <<>>
    <2>1. \A w \in DOMAIN content : content[w] = 0 \/ w \in pending
        BY <1>1, <1>2 DEF Dirty
    <2> QED
        BY <1>4, <2>1 DEF EditInv, SameFiles, EditsRestored, Upfront
<1> QED
    BY <1>3, <1>4 DEF Takes, Advances

\* DeferRestore keeps EditInv.
LEMMA EditsDefer ==
    ASSUME StageInv, EditInv, DeferRestore
    PROVE  EditInv'
<1>1. /\ stage = "plan" /\ plan # <<>> /\ Listed(plan) /\ Edits(plan, pending) /\ Dirty(plan, pending, content)
      /\ Head(plan).op = "defer"
    BY EditSteps DEF Takes, StageInv, EditInv
<1>2. PICK n : n = Head(plan).workload.name
    OBVIOUS
<1>3. /\ stage' = "plan" /\ plan' = Tail(plan) /\ pending' = pending \cup {n}
      /\ content' = content /\ writeFailed' = writeFailed
    BY <1>1, <1>2 DEF DeferRestore, Running, Step, Succeeds
<1>4. \A w : ~At(plan, 1, "restore", w) /\ (At(plan, 1, "defer", w) => w = n)
    <2>1. PICK X : plan \in Seq(X)
        BY <1>1 DEF Listed
    <2>2. \A o, w : At(plan, 1, o, w) => Head(plan).op = o /\ w = n
        BY <1>1, <1>2, <2>1, StepsOfTail
    <2> QED
        BY <1>1, <2>2
<1>5. PICK V : V = pending \cup {n}
    OBVIOUS
<1>6. Edits(Tail(plan), V)
    <2>1. (\A w \in pending : w \in V) /\ \A w : At(plan, 1, "defer", w) => w \in V
        BY <1>4, <1>5
    <2> QED
        BY <1>1, <2>1, EditsOfTail
<1>7. Dirty(Tail(plan), V, content)
    BY <1>1, <1>4, <1>5, AwaitsTail DEF Dirty
<1> QED
    BY <1>3, <1>5, <1>6, <1>7 DEF EditInv, EditsRestored, Upfront

\* ApplyEdit keeps EditInv.
LEMMA EditsApply ==
    ASSUME StageInv, EditInv, ApplyEdit
    PROVE  EditInv'
<1>1. /\ stage = "plan" /\ plan # <<>> /\ Listed(plan) /\ Edits(plan, pending) /\ Dirty(plan, pending, content)
      /\ Head(plan).op = "apply"
    BY EditSteps DEF Takes, StageInv, EditInv
<1>2. PICK n : n = Head(plan).workload.name
    OBVIOUS
<1>3. PICK ok \in BOOLEAN : /\ content' = [content EXCEPT ![n] = IF ok THEN Step.iter ELSE Torn]
                            /\ writeFailed' = (writeFailed \/ ~ok)
                            /\ Ends(ok)
    BY <1>2 DEF ApplyEdit, Step
<1>4. pending' = pending
    BY DEF ApplyEdit
<1>5. DOMAIN content' = DOMAIN content /\ \A w \in DOMAIN content : w # n => content'[w] = content[w]
    BY <1>3
<1>6. PICK X : plan \in Seq(X)
    BY <1>1 DEF Listed
<1>7. At(plan, 1, "apply", n) /\ \A o, w : At(plan, 1, o, w) => Head(plan).op = o
    BY <1>1, <1>2, <1>6, StepsOfTail
<1>8. \A w : ~At(plan, 1, "defer", w) /\ ~At(plan, 1, "restore", w)
    BY <1>1, <1>7
<1>9. \A w \in DOMAIN content : content[w] # 0 => w \in pending /\ Awaits(plan, w)
    BY <1>1, <1>8 DEF Dirty
<1>10. CASE ok
    <2>1. stage' = "plan" /\ plan' = Tail(plan)
        BY <1>1, <1>3, <1>10 DEF Ends, Succeeds
    <2>2. Edits(Tail(plan), pending)
        BY <1>1, <1>8, EditsOfTail
    <2>3. Awaits(plan, n)
        BY <1>1, <1>7 DEF Edits, Awaits
    <2>4. n \in pending \/ At(Tail(plan), 1, "defer", n)
        <3>1. \/ At(plan, 1 + 1, "defer", n)
              \/ \E d \in Nat : d < 1 /\ At(plan, d, "defer", n)
              \/ n \in pending
            BY <1>1, <1>7 DEF Edits
        <3>2. ~\E d \in Nat : d < 1 /\ At(plan, d, "defer", n)
            BY DEF At
        <3>3. At(plan, 1 + 1, "defer", n) => At(Tail(plan), 1, "defer", n)
            BY <1>1, <1>6, StepsOfTail
        <3> QED
            BY <3>1, <3>2, <3>3
    <2>5. Dirty(Tail(plan), pending, content')
        <3> SUFFICES ASSUME NEW w \in DOMAIN content, content'[w] # 0
                     PROVE  Awaits(Tail(plan), w) /\ (w \in pending \/ At(Tail(plan), 1, "defer", w))
            BY <1>5 DEF Dirty
        <3>1. Awaits(plan, w) /\ (w \in pending \/ At(Tail(plan), 1, "defer", w))
            BY <1>5, <1>9, <2>3, <2>4
        <3> QED
            BY <1>1, <1>8, <3>1, AwaitsTail
    <2> QED
        BY <1>4, <2>1, <2>2, <2>5 DEF EditInv, EditsRestored, Upfront
<1>11. CASE ~ok
    <2>1. stage' = "unwind" /\ writeFailed'
        BY <1>3, <1>11 DEF Ends, Fails
    <2> QED
        BY <2>1 DEF EditInv, EditsRestored, Upfront
<1> QED
    BY <1>10, <1>11

\* RestoreEdit keeps EditInv.
LEMMA EditsRestore ==
    ASSUME StageInv, EditInv, RestoreEdit
    PROVE  EditInv'
<1>1. /\ stage = "plan" /\ plan # <<>> /\ Listed(plan) /\ Edits(plan, pending) /\ Dirty(plan, pending, content)
      /\ Head(plan).op = "restore"
    BY EditSteps DEF Takes, StageInv, EditInv
<1>2. PICK n : n = Head(plan).workload.name
    OBVIOUS
<1>3. PICK ok \in BOOLEAN : /\ content' = [content EXCEPT ![n] = IF ok THEN 0 ELSE Torn]
                            /\ writeFailed' = (writeFailed \/ ~ok)
                            /\ Ends(ok)
    BY <1>2 DEF RestoreEdit, Step
<1>4. pending' = pending \ {n}
    BY <1>2 DEF RestoreEdit, Step
<1>5. /\ DOMAIN content' = DOMAIN content
      /\ \A w \in DOMAIN content : IF w = n THEN ok => content'[w] = 0 ELSE content'[w] = content[w]
    BY <1>3
<1>6. PICK X : plan \in Seq(X)
    BY <1>1 DEF Listed
<1>7. At(plan, 1, "restore", n) /\ \A o, w : At(plan, 1, o, w) => Head(plan).op = o /\ w = n
    BY <1>1, <1>2, <1>6, StepsOfTail
<1>8. \A w : ~At(plan, 1, "defer", w) /\ (At(plan, 1, "restore", w) <=> w = n)
    BY <1>1, <1>7
<1>9. CASE ok
    <2>1. stage' = "plan" /\ plan' = Tail(plan)
        BY <1>1, <1>3, <1>9 DEF Ends, Succeeds
    <2>2. PICK V : V = pending \ {n}
        OBVIOUS
    <2>3. Edits(Tail(plan), V)
        <3>1. \A w \in pending : ~At(plan, 1, "restore", w) => w \in V
            BY <1>8, <2>2
        <3> QED
            BY <1>1, <1>8, <3>1, EditsOfTail
    <2>4. Dirty(Tail(plan), V, content')
        <3> SUFFICES ASSUME NEW w \in DOMAIN content, content'[w] # 0
                     PROVE  Awaits(Tail(plan), w) /\ w \in V
            BY <1>5 DEF Dirty
        <3>1. w # n /\ content[w] # 0
            BY <1>5, <1>9
        <3>2. Awaits(plan, w) /\ w \in pending
            BY <1>1, <1>8, <3>1 DEF Dirty
        <3> QED
            BY <1>1, <1>8, <2>2, <3>1, <3>2, AwaitsTail
    <2> QED
        BY <1>4, <2>1, <2>2, <2>3, <2>4 DEF EditInv, EditsRestored, Upfront
<1>10. CASE ~ok
    <2>1. stage' = "unwind" /\ writeFailed'
        BY <1>3, <1>10 DEF Ends, Fails
    <2> QED
        BY <2>1 DEF EditInv, EditsRestored, Upfront
<1> QED
    BY <1>9, <1>10

\* A step that touches no worktree keeps TreeInv.
LEMMA TreesKept ==
    ASSUME StageInv, TreeInv, NEW op, op # "remove", Takes(op), SameTrees
    PROVE  TreeInv'
<1>1. /\ stage = "plan" /\ plan # <<>> /\ Listed(plan) /\ Removes(plan) /\ Retained = {} /\ kept = {}
      /\ created # <<>> => \E r \in Nat : Has(plan, r, "remove")
    BY DEF Takes, StageInv, TreeInv
<1>2. ~Has(plan, 1, "remove")
    <2>1. PICK X : plan \in Seq(X)
        BY <1>1 DEF Listed
    <2> QED
        BY <1>1, <2>1, StepsOfTail DEF Takes
<1>3. Retained' = Retained
    BY DEF SameTrees, Retained
<1>4. CASE stage' = "plan" /\ plan' = Tail(plan)
    <2>1. Removes(Tail(plan)) /\ (created # <<>> => \E r \in Nat : Has(Tail(plan), r, "remove"))
        BY <1>1, <1>2, RemovesOfTail
    <2> QED
        BY <1>1, <1>3, <1>4, <2>1 DEF TreeInv, SameTrees, WorktreesAccountedFor, Upfront
<1>5. CASE stage' = "unwind"
    BY <1>3, <1>5 DEF TreeInv, SameTrees, WorktreesAccountedFor, Upfront
<1> QED
    BY <1>4, <1>5 DEF Takes, Advances

\* The range of a list with one more element.
LEMMA RangeAppend ==
    ASSUME NEW s, Listed(s), NEW e
    PROVE  Listed(Append(s, e)) /\ Range(Append(s, e)) = Range(s) \cup {e}
<1>1. PICK X : s \in Seq(X)
    BY DEF Listed
<1>2. s \in Seq(X \cup {e}) /\ e \in X \cup {e}
    BY <1>1
<1>3. PICK n \in Nat : n = Len(s) /\ DOMAIN s = 1..n
    BY <1>1, LenProperties
<1>4. PICK t : t = Append(s, e)
    OBVIOUS
<1>5. /\ t \in Seq(X \cup {e}) /\ Len(t) = n + 1 /\ t[n + 1] = e
      /\ \A i \in 1..n : t[i] = s[i]
    BY <1>2, <1>3, <1>4, AppendProperties
<1>6. DOMAIN t = 1..(n + 1)
    BY <1>5, LenProperties
<1>7. \A i \in 1..(n + 1) : i \in 1..n \/ i = n + 1
    OBVIOUS
<1>8. Range(t) = Range(s) \cup {e}
    <2>1. ASSUME NEW x \in Range(t) PROVE x \in Range(s) \cup {e}
        <3>1. PICK i \in 1..(n + 1) : x = t[i]
            BY <1>6 DEF Range
        <3> QED
            BY <1>3, <1>5, <1>7, <3>1 DEF Range
    <2>2. ASSUME NEW x \in Range(s) PROVE x \in Range(t)
        <3>1. PICK i \in 1..n : x = s[i]
            BY <1>3 DEF Range
        <3>2. i \in 1..(n + 1) /\ t[i] = x
            BY <1>5, <3>1
        <3> QED
            BY <1>6, <3>2 DEF Range
    <2>3. e \in Range(t)
        <3>1. n + 1 \in 1..(n + 1)
            OBVIOUS
        <3> QED
            BY <1>5, <1>6, <3>1 DEF Range
    <2> QED
        BY <2>1, <2>2, <2>3
<1> QED
    BY <1>4, <1>5, <1>8 DEF Listed

\* AddWorktree keeps TreeInv.
LEMMA TreesAdd ==
    ASSUME StageInv, TreeInv, AddWorktree
    PROVE  TreeInv'
<1>1. /\ stage = "plan" /\ plan # <<>> /\ Listed(plan) /\ Removes(plan) /\ Retained = {} /\ kept = {}
      /\ Head(plan).op = "worktree" /\ ~failed
      /\ trees = Range(created) /\ Listed(created)
    BY TreeSteps DEF Takes, StageInv, TreeInv
<1>2. PICK new : new = <<Step.case, Step.label>>
    OBVIOUS
<1>3. summaries' = summaries /\ Retained' = {}
    BY <1>1 DEF AddWorktree, Retained
<1>4. \/ WorktreeFails(new)
      \/ /\ new \notin trees /\ trees' = trees \cup {new} /\ created' = Append(created, new) /\ kept' = kept
         /\ \E identical \in BOOLEAN : Ends(identical)
    BY <1>2 DEF AddWorktree
<1>5. CASE WorktreeFails(new)
    <2>1. stage' = "unwind" /\ created' = created
        BY <1>5 DEF WorktreeFails, Fails
    <2>2. CASE trees' = trees /\ kept' = kept
        BY <1>1, <1>3, <2>1, <2>2 DEF TreeInv, WorktreesAccountedFor, Upfront
    <2>3. CASE new \notin trees /\ trees' = trees \cup {new} /\ kept' = kept \cup {new}
        BY <1>1, <1>3, <2>1, <2>3 DEF TreeInv, WorktreesAccountedFor, Upfront
    <2> QED
        BY <1>5, <2>2, <2>3 DEF WorktreeFails
<1>6. CASE /\ new \notin trees /\ trees' = trees \cup {new} /\ created' = Append(created, new) /\ kept' = kept
           /\ \E identical \in BOOLEAN : Ends(identical)
    <2>1. Advances
        BY <1>1, <1>6, StepEnds
    <2>2. Listed(created') /\ Range(created') = Range(created) \cup {new}
        BY <1>1, <1>6, RangeAppend
    <2>3. CASE stage' = "plan" /\ plan' = Tail(plan)
        <3>1. Has(plan, 1, "worktree")
            <4>1. PICK X : plan \in Seq(X)
                BY <1>1 DEF Listed
            <4> QED
                BY <1>1, <4>1, StepsOfTail
        <3>2. Removes(Tail(plan)) /\ \E r \in Nat : Has(Tail(plan), r, "remove")
            BY <1>1, <3>1, RemovesOfTail
        <3> QED
            BY <1>1, <1>3, <1>6, <2>2, <2>3, <3>2 DEF TreeInv, WorktreesAccountedFor, Upfront
    <2>4. CASE stage' = "unwind"
        BY <1>1, <1>3, <1>6, <2>2, <2>4 DEF TreeInv, WorktreesAccountedFor, Upfront
    <2> QED
        BY <2>1, <2>3, <2>4 DEF Advances
<1> QED
    BY <1>4, <1>5, <1>6

\* An empty list has an empty range.
LEMMA RangeNothing == Listed(<<>>) /\ Range(<<>>) = {}
<1>1. DOMAIN <<>> = {}
    OBVIOUS
<1> QED
    BY <1>1, TidyNothing DEF Tidy, Range

\* CompareFiles keeps TreeInv.
LEMMA TreesCompare ==
    ASSUME StageInv, TreeInv, CompareFiles
    PROVE  TreeInv'
<1>1. stage = "plan" /\ ~failed /\ Takes("compare") /\ Retained = {} /\ kept = {}
    BY TreeSteps DEF Takes, StageInv, TreeInv
<1>2. trees' = trees /\ kept' = kept
    BY DEF CompareFiles
<1>3. CASE Fails /\ created' = created /\ summaries' = summaries
    BY <1>1, <1>3, TreesKept, <1>2 DEF SameTrees
<1>4. ASSUME NEW dir, Succeeds, created' = created,
             summaries' = summaries \cup {[dir |-> dir, match |-> TRUE, named |-> {}]}
      PROVE  TreeInv'
    <2>1. Retained' = {}
        <3>1. PICK x : x = [dir |-> dir, match |-> TRUE, named |-> {}]
            OBVIOUS
        <3>2. x.named = {} /\ summaries' = summaries \cup {x}
            BY <1>4, <3>1
        <3> QED
            BY <1>1, <3>2 DEF Retained
    <2>2. stage' = "plan" /\ plan' = Tail(plan)
        BY <1>1, <1>4 DEF Succeeds
    <2>3. /\ plan # <<>> /\ Listed(plan) /\ Removes(plan)
          /\ created # <<>> => \E r \in Nat : Has(plan, r, "remove")
        BY <1>1 DEF Takes, StageInv, TreeInv
    <2>4. ~Has(plan, 1, "remove")
        <3>1. PICK X : plan \in Seq(X)
            BY <2>3 DEF Listed
        <3> QED
            BY <1>1, <2>3, <3>1, StepsOfTail DEF Takes
    <2>5. Removes(Tail(plan)) /\ (created # <<>> => \E r \in Nat : Has(Tail(plan), r, "remove"))
        BY <2>3, <2>4, RemovesOfTail
    <2> QED
        BY <1>1, <1>2, <1>4, <2>1, <2>2, <2>5 DEF TreeInv, WorktreesAccountedFor, Upfront
<1>5. ASSUME NEW dir, Fails, created' = <<>>,
             summaries' = summaries \cup {[dir |-> dir, match |-> FALSE, named |-> Range(created)]}
      PROVE  TreeInv'
    <2>1. Retained' = Range(created)
        <3>1. PICK x : x = [dir |-> dir, match |-> FALSE, named |-> Range(created)]
            OBVIOUS
        <3>2. x.named = Range(created) /\ summaries' = summaries \cup {x}
            BY <1>5, <3>1
        <3> QED
            BY <1>1, <3>2 DEF Retained
    <2>2. stage' = "unwind"
        BY <1>5 DEF Fails
    <2> QED
        BY <1>1, <1>2, <1>5, <2>1, <2>2, RangeNothing DEF TreeInv, WorktreesAccountedFor, Upfront
<1>6. \/ Fails /\ created' = created /\ summaries' = summaries
      \/ \E dir : /\ Succeeds /\ created' = created
                  /\ summaries' = summaries \cup {[dir |-> dir, match |-> TRUE, named |-> {}]}
      \/ \E dir : /\ Fails /\ created' = <<>>
                  /\ summaries' = summaries \cup {[dir |-> dir, match |-> FALSE, named |-> Range(created)]}
    <2>1. PICK dir, a, b :
            \/ Fails /\ created' = created /\ summaries' = summaries
            \/ /\ summaries' = summaries \cup
                    {[dir |-> dir, match |-> Match(a, b), named |-> IF Match(a, b) THEN {} ELSE Range(created)]}
               /\ created' = IF ~Match(a, b) THEN <<>> ELSE created
               /\ Ends(Match(a, b))
        BY DEF CompareFiles, Retains
    <2>2. Match(a, b) \in BOOLEAN
        BY DEF Match
    <2>3. CASE Match(a, b) = TRUE
        BY <2>1, <2>3 DEF Ends
    <2>4. CASE Match(a, b) = FALSE
        BY <2>1, <2>4 DEF Ends
    <2> QED
        BY <2>2, <2>3, <2>4
<1> QED
    BY <1>3, <1>4, <1>5, <1>6

\* Removing the worktrees of the current case accounts for all of them.
LEMMA TreesRemoved ==
    ASSUME TreeInv, RemoveCreated, summaries' = summaries
    PROVE  /\ created' = <<>> /\ trees' = Retained' \cup kept' /\ Retained' = Retained
           /\ failed => failed'
           /\ ~failed' => kept' = kept
<1>1. PICK f \in SUBSET Range(created) : /\ trees' = trees \ (Range(created) \ f)
                                         /\ kept' = kept \cup f
                                         /\ failed' = (failed \/ f # {})
    BY DEF RemoveCreated
<1>2. created' = <<>> /\ Retained' = Retained
    BY DEF RemoveCreated, Retained
<1>3. trees' = Retained \cup kept'
    BY <1>1 DEF TreeInv
<1>4. (failed => failed') /\ (~failed' => f = {})
    BY <1>1
<1> QED
    BY <1>1, <1>2, <1>3, <1>4

\* RemoveWorktrees keeps TreeInv.
LEMMA TreesRemove ==
    ASSUME StageInv, TreeInv, RemoveWorktrees
    PROVE  TreeInv'
<1>1. Takes("remove") /\ RemoveCreated /\ summaries' = summaries
    BY TreeSteps DEF RemoveWorktrees
<1>2. /\ created' = <<>> /\ trees' = Retained' \cup kept' /\ Retained' = Retained
      /\ ~failed' => kept' = kept
    BY <1>1, TreesRemoved
<1>3. Retained = {} /\ kept = {} /\ plan # <<>> /\ Listed(plan) /\ Removes(plan)
    BY <1>1 DEF Takes, StageInv, TreeInv
<1>4. CASE stage' = "plan" /\ ~failed' /\ plan' = Tail(plan)
    <2>1. Removes(Tail(plan))
        BY <1>3, RemovesOfTail
    <2> QED
        BY <1>2, <1>3, <1>4, <2>1, RangeNothing DEF TreeInv, WorktreesAccountedFor, Upfront
<1>5. CASE stage' = "unwind"
    BY <1>2, <1>3, <1>5, RangeNothing DEF TreeInv, WorktreesAccountedFor, Upfront
<1> QED
    BY <1>1, <1>4, <1>5 DEF Takes, Advances

\* BuildPair and Prepare leave everything clean and end in an error or go on.
LEMMA PrepareStages ==
    ASSUME StageInv, BuildPair \/ Prepare
    PROVE  /\ stage \in Upfront /\ opts' = opts /\ manifest' = manifest /\ SameFiles /\ SameTrees
           /\ \/ stage' = "exit" /\ plan' = plan
              \/ stage' = "exit" /\ plan' = <<>>
              \/ stage' \in Upfront /\ ~failed' /\ (stage' \in Validated => validateManifest(M)) /\ plan' \in {plan, <<>>}
              \/ stage' = "plan" /\ ~failed' /\ validateManifest(M) /\ plan' = runAll(opts, M)
<1>1. CASE BuildPair
    <2>1. PICK wrote \in BOOLEAN : stage' = (IF wrote THEN "parseOptions" ELSE "exit") /\ failed' = ~wrote
        BY <1>1 DEF BuildPair
    <2>2. stage = "build" /\ opts' = opts /\ manifest' = manifest /\ SameFiles /\ SameTrees /\ plan' = plan
        BY <1>1 DEF BuildPair, input, work, compat, SameFiles, SameTrees
    <2>3. CASE wrote
        BY <2>1, <2>2, <2>3 DEF Upfront, Validated
    <2>4. CASE ~wrote
        BY <2>1, <2>2, <2>4 DEF Upfront
    <2> QED
        BY <2>3, <2>4
<1>2. CASE Prepare
    <2>1. opts' = opts /\ manifest' = manifest /\ SameFiles /\ SameTrees
        BY <1>2 DEF Prepare, input, work, compat, SameFiles, SameTrees
    <2>2. PICK i \in 1..(Len(Stages) - 1) :
            /\ stage = Stages[i]
            /\ \E broken \in BOOLEAN :
                /\ failed' = (broken \/ Refuses(Stages[i]))
                /\ stage' = IF failed' THEN "exit" ELSE Stages[i + 1]
                /\ plan' = IF stage' = "plan" THEN runAll(opts, M) ELSE <<>>
        BY <1>2 DEF Prepare
    <2>3. PICK broken \in BOOLEAN : /\ failed' = (broken \/ Refuses(Stages[i]))
                                    /\ stage' = IF failed' THEN "exit" ELSE Stages[i + 1]
                                    /\ plan' = IF stage' = "plan" THEN runAll(opts, M) ELSE <<>>
        BY <2>2
    <2>4. i \in 1..10
        BY DEF Stages
    <2>5. /\ Stages[1] = "parseOptions" /\ Stages[2] = "loadManifest" /\ Stages[3] = "validateManifest"
          /\ Stages[4] = "prepareBinaries" /\ Stages[5] = "resolveGoToolchain" /\ Stages[6] = "prepareOutputDir"
          /\ Stages[7] = "prepareWorkloads" /\ Stages[8] = "filterScenarios" /\ Stages[9] = "collectMetadata"
          /\ Stages[10] = "openResults" /\ Stages[11] = "plan"
        BY DEF Stages
    <2>6. stage \in Upfront
        BY <2>2, <2>4, <2>5 DEF Upfront
    <2>7. CASE failed'
        <3>1. stage' = "exit"
            BY <2>3, <2>7
        <3>2. plan' = <<>>
            BY <2>3, <3>1
        <3> QED
            BY <2>1, <2>6, <3>1, <3>2
    <2>8. CASE ~failed'
        <3>1. stage' = Stages[i + 1] /\ ~Refuses(Stages[i])
            BY <2>3, <2>8
        <3>2. i = 3 => validateManifest(M)
            BY <2>5, <3>1 DEF Refuses
        <3>3. i > 3 => validateManifest(M)
            <4>1. i > 3 => stage \in Validated
                BY <2>2, <2>4, <2>5 DEF Validated
            <4> QED
                BY <4>1 DEF StageInv
        <3>4. i >= 3 \/ i = 1 \/ i = 2
            BY <2>4
        <3>5. i < 3 => stage' \in Upfront /\ stage' \notin Validated
            BY <2>4, <2>5, <3>1, <3>4 DEF Upfront, Validated
        <3>6. i < 10 => stage' \in Upfront
            BY <2>4, <2>5, <3>1 DEF Upfront
        <3>7. i = 10 => stage' = "plan"
            BY <2>5, <3>1
        <3>8. stage' \in Validated => validateManifest(M)
            BY <2>4, <3>2, <3>3, <3>5
        <3>9. CASE i < 10
            <4>1. stage' # "plan"
                BY <3>6, <3>9 DEF Upfront
            <4>2. plan' = <<>>
                BY <2>3, <4>1
            <4> QED
                BY <2>1, <2>6, <2>8, <3>6, <3>8, <3>9, <4>2
        <3>10. CASE i = 10
            <4>1. plan' = runAll(opts, M)
                BY <2>3, <3>7, <3>10
            <4> QED
                BY <2>1, <2>6, <2>8, <3>3, <3>7, <3>10, <4>1
        <3> QED
            BY <2>4, <3>9, <3>10
    <2> QED
        BY <2>7, <2>8
<1> QED
    BY <1>1, <1>2

\* BuildPair and Prepare keep the invariant.
LEMMA PrepareKeeps ==
    ASSUME MatrixInv, BuildPair \/ Prepare
    PROVE  MatrixInv'
<1>1. StageInv /\ EditInv /\ TreeInv
    BY DEF MatrixInv
<1>2. stage \in Upfront /\ opts' = opts /\ manifest' = manifest /\ SameFiles /\ SameTrees
    BY <1>1, PrepareStages
<1>3. Clean /\ pending = {} /\ created = <<>> /\ Retained = {} /\ kept = {} /\ trees = {}
    BY <1>1, <1>2, RangeNothing DEF EditInv, TreeInv
<1>4. M' = M /\ Retained' = Retained /\ Clean'
    BY <1>2, <1>3 DEF M, Retained, SameFiles, SameTrees, Clean
<1>5. opts' \in Options /\ manifest' \in Manifests /\ Listed(plan) /\ Listed(<<>>)
    BY <1>1, <1>2, RangeNothing DEF StageInv
<1>6. CASE stage' = "exit" /\ plan' \in {plan, <<>>}
    <2>1. StageInv'
        BY <1>5, <1>6 DEF StageInv, Upfront, Validated
    <2>2. EditInv'
        BY <1>4, <1>6 DEF EditInv, EditsRestored, Upfront, Clean
    <2>3. TreeInv'
        BY <1>1, <1>2, <1>3, <1>4, <1>6 DEF TreeInv, WorktreesAccountedFor, Upfront, SameTrees, Retained
    <2> QED
        BY <2>1, <2>2, <2>3 DEF MatrixInv
<1>7. CASE stage' \in Upfront /\ ~failed' /\ (stage' \in Validated => validateManifest(M)) /\ plan' \in {plan, <<>>}
    <2>0. stage' # "exit" /\ stage' # "plan" /\ stage' # "unwind"
        BY <1>7 DEF Upfront
    <2>1. StageInv'
        BY <1>4, <1>5, <1>7, <2>0 DEF StageInv
    <2>2. EditInv'
        BY <1>2, <1>3, <1>4, <2>0 DEF EditInv, EditsRestored, SameFiles
    <2>3. TreeInv'
        BY <1>1, <1>2, <1>3, <1>4, <2>0 DEF TreeInv, WorktreesAccountedFor, SameTrees
    <2> QED
        BY <2>1, <2>2, <2>3 DEF MatrixInv
<1>8. CASE stage' = "plan" /\ ~failed' /\ validateManifest(M) /\ plan' = runAll(opts, M)
    <2>1. Tidy(plan', Range(filterScenarios(M.scenarios, opts)))
        BY <1>1, <1>8, PlanIsTidy DEF StageInv, M
    <2>2. Listed(plan') /\ Edits(plan', {}) /\ Removes(plan')
        BY <2>1 DEF Tidy
    <2>3. StageInv'
        BY <1>4, <1>5, <1>8, <2>2 DEF StageInv, Upfront
    <2>4. Dirty(plan', pending', content')
        BY <1>4 DEF Dirty, Clean
    <2>5. EditInv'
        BY <1>2, <1>3, <1>8, <2>2, <2>4 DEF EditInv, EditsRestored, Upfront, SameFiles
    <2>6. TreeInv'
        BY <1>1, <1>2, <1>3, <1>4, <1>8, <2>2 DEF TreeInv, WorktreesAccountedFor, Upfront, SameTrees
    <2> QED
        BY <2>3, <2>5, <2>6 DEF MatrixInv
<1>9. \/ stage' = "exit" /\ plan' \in {plan, <<>>}
      \/ stage' \in Upfront /\ ~failed' /\ (stage' \in Validated => validateManifest(M)) /\ plan' \in {plan, <<>>}
      \/ stage' = "plan" /\ ~failed' /\ validateManifest(M) /\ plan' = runAll(opts, M)
    BY <1>1, PrepareStages
<1> QED
    BY <1>6, <1>7, <1>8, <1>9

\* Unwind keeps the invariant.
LEMMA UnwindKeeps ==
    ASSUME MatrixInv, Unwind
    PROVE  MatrixInv'
<1>1. StageInv /\ EditInv /\ TreeInv
    BY DEF MatrixInv
<1>2. /\ stage = "unwind" /\ stage' = "exit" /\ opts' = opts /\ manifest' = manifest /\ plan' = plan
      /\ RemoveCreated /\ summaries' = summaries
    BY DEF Unwind, input
<1>3. failed
    BY <1>1, <1>2 DEF StageInv
<1>4. StageInv'
    BY <1>1, <1>2 DEF StageInv, Upfront, Validated
<1>5. created' = <<>> /\ trees' = Retained' \cup kept' /\ failed'
    BY <1>1, <1>2, <1>3, TreesRemoved
<1>6. TreeInv'
    BY <1>2, <1>5, RangeNothing DEF TreeInv, WorktreesAccountedFor, Upfront, Retained
<1>7. PICK ok \in BOOLEAN :
        /\ content' = [w \in DOMAIN content |->
                        IF w \notin pending THEN content[w] ELSE IF ok THEN 0 ELSE Torn]
        /\ writeFailed' = (writeFailed \/ ~ok)
    BY DEF Unwind
<1>8. \A w \in DOMAIN content : content[w] = 0 \/ w \in pending \/ writeFailed
    BY <1>1, <1>2 DEF EditInv
<1>9. DOMAIN content' = DOMAIN content
    BY <1>7
<1>10. ASSUME NEW w \in DOMAIN content PROVE content'[w] = 0 \/ writeFailed'
    <2>1. CASE writeFailed \/ ~ok
        BY <1>7, <2>1
    <2>2. CASE ~writeFailed /\ ok
        <3>1. content'[w] = IF w \notin pending THEN content[w] ELSE 0
            BY <1>7, <2>2
        <3> QED
            BY <1>8, <2>2, <3>1
    <2> QED
        BY <2>1, <2>2
<1>11. EditInv'
    BY <1>2, <1>5, <1>9, <1>10 DEF EditInv, EditsRestored, Upfront
<1> QED
    BY <1>4, <1>6, <1>11 DEF MatrixInv

\* Finish keeps the invariant.
LEMMA FinishKeeps ==
    ASSUME MatrixInv, Finish
    PROVE  MatrixInv'
<1>1. StageInv /\ EditInv /\ TreeInv
    BY DEF MatrixInv
<1>2. /\ stage = "plan" /\ plan = <<>> /\ stage' = "exit"
      /\ opts' = opts /\ manifest' = manifest /\ plan' = plan /\ failed' = failed /\ SameFiles /\ SameTrees
    BY DEF Finish, input, work, compat, SameFiles, SameTrees
<1>3. Len(<<>>) = 0
    OBVIOUS
<1>4. (\A w : ~Awaits(plan, w)) /\ ~\E r \in Nat : Has(plan, r, "remove")
    BY <1>2, <1>3 DEF Awaits, At, Has
<1>5. Clean
    BY <1>1, <1>2, <1>4 DEF EditInv, Dirty, Clean
<1>6. created = <<>> /\ Retained = {} /\ kept = {} /\ trees = {}
    BY <1>1, <1>2, <1>4, RangeNothing DEF TreeInv
<1>7. StageInv'
    BY <1>1, <1>2 DEF StageInv, Upfront, Validated
<1>8. EditInv'
    BY <1>2, <1>5 DEF EditInv, EditsRestored, Upfront, SameFiles, Clean
<1>9. Retained' = Retained
    BY <1>2 DEF Retained, SameTrees
<1>10. TreeInv'
    BY <1>1, <1>2, <1>6, <1>9 DEF TreeInv, WorktreesAccountedFor, Upfront, SameTrees, Retained
<1> QED
    BY <1>7, <1>8, <1>10 DEF MatrixInv

\* MatrixInv is inductive.
LEMMA MatrixInvariant == MatrixSpec => []MatrixInv
<1>1. MatrixInit => MatrixInv
    <2> SUFFICES ASSUME MatrixInit PROVE MatrixInv
        OBVIOUS
    <2>1. StageInv
        BY RangeNothing DEF MatrixInit, StageInv, Upfront, Validated
    <2>2. EditInv
        BY DEF MatrixInit, EditInv, Upfront, Clean, EditsRestored
    <2>3. TreeInv
        BY RangeNothing DEF MatrixInit, TreeInv, Upfront, Retained, WorktreesAccountedFor
    <2> QED
        BY <2>1, <2>2, <2>3 DEF MatrixInv
<1>2. MatrixInv /\ [MatrixNext]_matrixVars => MatrixInv'
    <2> SUFFICES ASSUME MatrixInv, [MatrixNext]_matrixVars PROVE MatrixInv'
        OBVIOUS
    <2>1. StageInv /\ EditInv /\ TreeInv
        BY DEF MatrixInv
    <2>2. CASE BuildPair \/ Prepare
        BY <2>2, PrepareKeeps
    <2>3. CASE Execution \/ Parallel \/ CorruptCache \/ OpenEditor \/ LoadExpected \/ RefuseProfile
        <3>1. PICK op \in {"execute", "parallel", "corrupt", "open", "expected", "fail"} :
                Takes(op) /\ SameFiles /\ SameTrees
            BY <2>1, <2>3, QuietSteps
        <3>2. op \notin {"apply", "defer", "restore"} /\ op # "remove"
            OBVIOUS
        <3> QED
            BY <2>1, <3>1, <3>2, TakesStage, EditsKept, TreesKept DEF MatrixInv
    <2>4. CASE DeferRestore
        <3>1. Takes("defer") /\ SameTrees
            BY <2>1, <2>4, EditSteps
        <3> QED
            BY <2>1, <2>4, <3>1, TakesStage, EditsDefer, TreesKept DEF MatrixInv
    <2>5. CASE ApplyEdit
        <3>1. Takes("apply") /\ SameTrees
            BY <2>1, <2>5, EditSteps
        <3> QED
            BY <2>1, <2>5, <3>1, TakesStage, EditsApply, TreesKept DEF MatrixInv
    <2>6. CASE RestoreEdit
        <3>1. Takes("restore") /\ SameTrees
            BY <2>1, <2>6, EditSteps
        <3> QED
            BY <2>1, <2>6, <3>1, TakesStage, EditsRestore, TreesKept DEF MatrixInv
    <2>7. CASE AddWorktree
        <3>1. Takes("worktree") /\ SameFiles
            BY <2>1, <2>7, TreeSteps
        <3> QED
            BY <2>1, <2>7, <3>1, TakesStage, EditsKept, TreesAdd DEF MatrixInv
    <2>8. CASE CompareFiles
        <3>1. Takes("compare") /\ SameFiles
            BY <2>1, <2>8, TreeSteps
        <3> QED
            BY <2>1, <2>8, <3>1, TakesStage, EditsKept, TreesCompare DEF MatrixInv
    <2>9. CASE RemoveWorktrees
        <3>1. Takes("remove") /\ SameFiles
            BY <2>1, <2>9, TreeSteps
        <3> QED
            BY <2>1, <2>9, <3>1, TakesStage, EditsKept, TreesRemove DEF MatrixInv
    <2>10. CASE Unwind
        BY <2>10, UnwindKeeps
    <2>11. CASE Finish
        BY <2>11, FinishKeeps
    <2>12. CASE UNCHANGED matrixVars
        <3>1. /\ opts' = opts /\ manifest' = manifest /\ stage' = stage /\ plan' = plan /\ failed' = failed
              /\ SameFiles /\ SameTrees
            BY <2>12 DEF matrixVars, input, control, work, compat, SameFiles, SameTrees
        <3>2. M' = M /\ Retained' = Retained /\ (Clean <=> Clean')
            BY <3>1 DEF M, Retained, Clean, SameFiles, SameTrees
        <3>3. StageInv'
            BY <2>1, <3>1, <3>2 DEF StageInv
        <3>4. EditInv'
            BY <2>1, <3>1, <3>2 DEF EditInv, SameFiles, EditsRestored
        <3>5. TreeInv'
            BY <2>1, <3>1, <3>2 DEF TreeInv, SameTrees, WorktreesAccountedFor
        <3> QED
            BY <3>3, <3>4, <3>5 DEF MatrixInv
    <2> QED
        BY <2>2, <2>3, <2>4, <2>5, <2>6, <2>7, <2>8, <2>9, <2>10, <2>11, <2>12 DEF MatrixNext
<1> QED
    BY <1>1, <1>2, PTL DEF MatrixSpec

(* ------------------ BenchMatrix: what --fix rewrites ----------------- *)

\* The scenarios that the command line selects.
Scheduled == Range(filterScenarios(M.scenarios, opts))

\* Files are rewritten, and editors read them so, only by measured fixes, and
\* every execution that is left runs a selected scenario.
FixInv ==
    /\ rewritten # {} => MeasuresFixes
    /\ readFixed # {} => MeasuresFixes
    /\ stage = "plan" => Runs(plan, Scheduled)

\* The executions that are left after a step.
LEMMA RunsOfTail ==
    ASSUME NEW s, Listed(s), s # <<>>, NEW S, Runs(s, S)
    PROVE  Runs(Tail(s), S) /\ (Head(s).op = "execute" => Head(s).scenario \in S)
<1>1. PICK X : s \in Seq(X)
    BY DEF Listed
<1>2. PICK n \in Nat : n = Len(s) /\ n > 0
    BY <1>1, LenProperties, EmptySeq
<1>3. Len(Tail(s)) = n - 1 /\ \A k \in 1..(n - 1) : Tail(s)[k] = s[k + 1]
    BY <1>1, <1>2, HeadTailProperties
<1>4. ASSUME NEW k, Has(Tail(s), k, "execute") PROVE Tail(s)[k].scenario \in S
    <2>1. k \in 1..(n - 1) /\ Has(s, k + 1, "execute")
        BY <1>1, <1>3, <1>4, StepsOfTail DEF Has
    <2> QED
        BY <1>3, <2>1 DEF Runs
<1>5. Head(s).op = "execute" => Head(s).scenario \in S
    <2>1. Head(s) = s[1]
        OBVIOUS
    <2> QED
        BY <1>2, <2>1 DEF Runs, Has
<1> QED
    BY <1>4, <1>5 DEF Runs

\* A step of the plan keeps FixInv when what it rewrites is accounted for.
LEMMA FixTakes ==
    ASSUME StageInv, FixInv, NEW op, Takes(op),
           rewritten' # {} => MeasuresFixes, readFixed' # {} => MeasuresFixes
    PROVE  FixInv'
<1>1. opts' = opts /\ manifest' = manifest /\ stage = "plan" /\ plan # <<>> /\ Listed(plan)
    BY DEF Takes, StageInv
<1>2. M' = M
    BY <1>1 DEF M
<1>3. Scheduled' = Scheduled /\ (MeasuresFixes' <=> MeasuresFixes)
    BY <1>1, <1>2 DEF Scheduled, MeasuresFixes
<1>4. stage' = "plan" => plan' = Tail(plan)
    BY DEF Takes, Advances
<1>5. Runs(Tail(plan), Scheduled)
    BY <1>1, RunsOfTail DEF FixInv
<1> QED
    BY <1>3, <1>4, <1>5 DEF FixInv

\* Execution rewrites files of the workload only for a measured fix.
LEMMA FixExecution ==
    ASSUME StageInv, FixInv, Execution
    PROVE  FixInv'
<1>1. Takes("execute") /\ readFixed' = readFixed
    BY QuietSteps DEF Execution
<1>2. PICK f \in SUBSET Rewritable(Step) : rewritten' = rewritten \cup f
    BY DEF Execution
<1>3. Step.scenario \in Scheduled
    BY <1>1, RunsOfTail DEF Takes, StageInv, FixInv, Step
<1>4. f # {} => Step.scenario.mutates /\ ~opts.compatibility
    BY <1>2 DEF Rewritable, FixesWorkload, Isolated
<1>5. f # {} => MeasuresFixes
    BY <1>3, <1>4 DEF Scheduled, MeasuresFixes, Range
<1>6. (rewritten' # {} => MeasuresFixes) /\ (readFixed' # {} => MeasuresFixes)
    BY <1>1, <1>2, <1>5 DEF FixInv
<1> QED
    BY <1>1, <1>6, FixTakes

\* A write from what the editors have read adds nothing that they have not.
LEMMA FixOverwrites ==
    ASSUME FixInv, NEW ws, Overwrites(ws)
    PROVE  rewritten' # {} => MeasuresFixes
    BY DEF FixInv, Overwrites

\* FixInv on top of MatrixInv.
LEMMA FixInvariant == MatrixSpec => []FixInv
<1>1. MatrixInit => FixInv
    BY DEF MatrixInit, FixInv
<1>2. MatrixInv /\ FixInv /\ [MatrixNext]_matrixVars => FixInv'
    <2> SUFFICES ASSUME MatrixInv, FixInv, [MatrixNext]_matrixVars PROVE FixInv'
        OBVIOUS
    <2>1. StageInv
        BY DEF MatrixInv
    <2>2. CASE BuildPair \/ Prepare
        <3>1. opts' = opts /\ manifest' = manifest /\ rewritten' = rewritten /\ readFixed' = readFixed
            BY <2>2 DEF BuildPair, Prepare, input, work
        <3>2. M' = M
            BY <3>1 DEF M
        <3>3. Scheduled' = Scheduled /\ (MeasuresFixes' <=> MeasuresFixes)
            BY <3>1, <3>2 DEF Scheduled, MeasuresFixes
        <3>4. stage' = "plan" => validateManifest(M) /\ plan' = runAll(opts, M)
            BY <2>1, <2>2, PrepareStages DEF Upfront
        <3>5. stage' = "plan" => Runs(plan', Scheduled)
            BY <2>1, <3>4, PlanIsTidy DEF StageInv, M, Scheduled, Tidy
        <3> QED
            BY <3>1, <3>3, <3>5 DEF FixInv
    <2>3. CASE Execution
        BY <2>1, <2>3, FixExecution
    <2>4. CASE Parallel \/ CorruptCache \/ LoadExpected \/ RefuseProfile
        <3>1. PICK op : Takes(op)
            BY <2>1, <2>4, QuietSteps
        <3>2. rewritten' = rewritten /\ readFixed' = readFixed
            <4>1. UNCHANGED work
                BY <2>4 DEF Parallel, CorruptCache, LoadExpected, RefuseProfile
            <4> QED
                BY <4>1 DEF work
        <3> QED
            BY <2>1, <3>1, <3>2, FixTakes DEF FixInv
    <2>5. CASE OpenEditor
        <3>1. Takes("open")
            BY <2>1, <2>5, QuietSteps
        <3>2. rewritten' = rewritten /\ (readFixed' # {} => readFixed # {} \/ rewritten # {})
            BY <2>5 DEF OpenEditor
        <3> QED
            BY <2>1, <3>1, <3>2, FixTakes DEF FixInv
    <2>6. CASE DeferRestore
        <3>1. Takes("defer") /\ rewritten' = rewritten /\ readFixed' = readFixed
            BY <2>1, <2>6, EditSteps DEF DeferRestore
        <3> QED
            BY <2>1, <3>1, FixTakes DEF FixInv
    <2>7. CASE ApplyEdit \/ RestoreEdit
        <3>1. PICK op : Takes(op)
            BY <2>1, <2>7, EditSteps
        <3>2. Overwrites({Step.workload.name}) /\ readFixed' = readFixed
            BY <2>7 DEF ApplyEdit, RestoreEdit
        <3>3. rewritten' # {} => MeasuresFixes
            BY <3>2, FixOverwrites
        <3> QED
            BY <2>1, <3>1, <3>2, <3>3, FixTakes DEF FixInv
    <2>8. CASE AddWorktree \/ CompareFiles \/ RemoveWorktrees
        <3>1. PICK op : Takes(op)
            BY <2>1, <2>8, TreeSteps
        <3>2. rewritten' = rewritten /\ readFixed' = readFixed
            BY <2>8 DEF AddWorktree, CompareFiles, RemoveWorktrees, work
        <3> QED
            BY <2>1, <3>1, <3>2, FixTakes DEF FixInv
    <2>9. CASE Unwind
        <3>1. stage' = "exit" /\ opts' = opts /\ manifest' = manifest /\ readFixed' = readFixed /\ Overwrites(pending)
            BY <2>9 DEF Unwind, input
        <3>2. rewritten' # {} => MeasuresFixes
            BY <3>1, FixOverwrites
        <3>3. MeasuresFixes' <=> MeasuresFixes
            BY <3>1 DEF MeasuresFixes, M
        <3> QED
            BY <3>1, <3>2, <3>3 DEF FixInv
    <2>10. CASE Finish \/ UNCHANGED matrixVars
        <3>1. /\ opts' = opts /\ manifest' = manifest /\ plan' = plan /\ stage' \in {stage, "exit"}
              /\ rewritten' = rewritten /\ readFixed' = readFixed
            BY <2>10 DEF Finish, matrixVars, input, control, work
        <3>2. M' = M
            BY <3>1 DEF M
        <3>3. Scheduled' = Scheduled /\ (MeasuresFixes' <=> MeasuresFixes)
            BY <3>1, <3>2 DEF Scheduled, MeasuresFixes
        <3> QED
            BY <3>1, <3>3 DEF FixInv
    <2> QED
        BY <2>2, <2>3, <2>4, <2>5, <2>6, <2>7, <2>8, <2>9, <2>10 DEF MatrixNext
<1> QED
    BY <1>1, <1>2, MatrixInvariant, PTL DEF MatrixSpec

\* For every command line, manifest and sequence of failures, the harness
\* leaves the edited file of every workload as it found it, or reports the
\* failed write of it (runEditTimings, runProfile), and only the measurement
\* of a scenario that mutates leaves files of a workload that --fix rewrote:
\* mutation cases are isolated whatever the manifest (runMutationCompatibility).
THEOREM SourcesRestored == MatrixSpec => []WorkloadRestored
<1>1. MatrixInv /\ FixInv => WorkloadRestored
    BY DEF MatrixInv, EditInv, EditsRestored, FixInv, WorkloadRestored
<1> QED
    BY <1>1, MatrixInvariant, FixInvariant, PTL

\* For every command line, manifest and sequence of failures, the worktrees
\* that are left are the ones that a mismatch names or git refused to remove,
\* and then the run reports an error (runMutationCompatibility).
THEOREM NoStrayWorktrees == MatrixSpec => []WorktreesAccountedFor
<1>1. MatrixInv => WorktreesAccountedFor
    BY DEF MatrixInv, TreeInv
<1> QED
    BY <1>1, MatrixInvariant, PTL
=============================================================================
