-------------------------- MODULE TopkCommonWords --------------------------
(***************************************************************************)
(* src/CS4225 assignment 1 TopkCommonWords.java: two MapReduce jobs count  *)
(* the words of a file each, and a third one keeps the k words that both   *)
(* files have most of.  A text is the number of times it has each word; a  *)
(* word is a number, in lexicographic order.  Hadoop sorts the records by  *)
(* word and may run the combiner on any of them, on both sides of the      *)
(* shuffle, any number of times; a job may fail, the driver may be killed, *)
(* and the user starts it again.                                           *)
(***************************************************************************)
EXTENDS Integers, Sequences, FiniteSetsExt, Functions

CONSTANTS
  Words, Skipped,   \* all words, and those that are stop words or too short
  Texts,            \* the files there are
  kValue,
  Absent,           \* a directory that does not exist
  MaxRuns           \* bound: how often the driver is started

ASSUME TopkAssumption ==
  /\ Words \subseteq Nat /\ IsFiniteSet(Words) /\ Skipped \subseteq Words
  /\ Texts \subseteq [Words -> Nat]
  /\ kValue \in Nat /\ MaxRuns \in Nat
  /\ Absent \notin [Words -> Nat]

Files == {1, 2}
Combined == 3      \* the job after the two that count

VARIABLES
  at,        \* where main is: start, submit, shuffle, clean, ended
  job,       \* the job main submits or waits for
  input,     \* input[f]: the text of file f
  records,   \* records[w]: the counts on their way to the reducer of word w, by place
  inter,     \* inter[f]: the output of job f, 0 where it has no record of a word
  outputDir, \* the output of the combined job: a sequence of [count, word]
  status,    \* running, success (exit 0), failure (exit 1), thrown, killed
  runs,
  failed,    \* history: the counting jobs of this run that failed
  merged     \* history: the words whose counts in both files the combiner added

data == <<input, runs, failed>>
vars == <<at, job, records, inter, outputDir, status, merged, data>>

Sum(counts) == SumFunction(counts)
NoRecords == [w \in Words |-> <<>>]

Init ==
  /\ at = "start" /\ job = 1 /\ status = "running" /\ runs = 1
  /\ input \in [Files -> Texts]
  /\ records = NoRecords
  /\ inter = [f \in Files |-> Absent] /\ outputDir = Absent
  /\ failed = {} /\ merged = {}

(* A seeded fault: what an earlier run left is not deleted. *)
StartOver(dirs) == dirs
Deleted(dirs) == [f \in Files |-> Absent]

Start ==
  /\ at = "start"
  /\ at' = "submit" /\ job' = 1
  /\ inter' = Deleted(inter)
  /\ UNCHANGED <<records, outputDir, status, merged, data>>

(* A seeded fault: the exception is caught and the job submitted again. *)
Retry == UNCHANGED vars

(* An exception leaves main, the directories as they are. *)
Throw ==
  /\ at' = "ended" /\ status' = "thrown"
  /\ UNCHANGED <<job, records, inter, outputDir, merged, data>>

MapTo(emitted) ==
  /\ at' = "shuffle"
  /\ records' = emitted
  /\ UNCHANGED <<job, inter, outputDir, status, merged, data>>

Ones(n) == [i \in 1 .. n |-> 1]

(* Hadoop refuses a job whose output directory exists.  TokenizerMapper. *)
SubmitCount ==
  /\ at = "submit" /\ job \in Files
  /\ IF inter[job] # Absent
     THEN Throw
     ELSE MapTo([w \in Words |-> IF w \in Skipped THEN <<>> ELSE Ones(input[job][w])])

(* ... or whose input directory does not.  FormattingMapper1, on both outputs. *)
MissingInput == \E f \in Files : inter[f] = Absent

SubmitCombined ==
  /\ at = "submit" /\ job = Combined
  /\ IF MissingInput \/ outputDir # Absent
     THEN Throw
     ELSE MapTo([w \in Words |-> [f \in {f \in Files : inter[f][w] > 0} |-> inter[f][w]]])

(* A seeded fault: the values are counted, as a mapper that emits ones allows. *)
NumValues(counts) == Cardinality(DOMAIN counts)

(* IntSumReducer, as the combiner of all three jobs. *)
CombinedCount(counts) == Sum(counts)

(* The counts of a group of places become one count, at one of them. *)
Grouped(counts, group) ==
  LET place == CHOOSE i \in group : TRUE
  IN [i \in (DOMAIN counts \ group) \cup {place} |->
        IF i = place THEN CombinedCount(Restrict(counts, group)) ELSE counts[i]]

(* Any group of counts of a word; a group of one stays what it is. *)
Combine(w) ==
  /\ at = "shuffle"
  /\ \E group \in SUBSET DOMAIN records[w] :
       /\ Cardinality(group) > 1
       /\ records' = [records EXCEPT ![w] = Grouped(@, group)]
  /\ merged' = IF job = Combined THEN merged \cup {w} ELSE merged
  /\ UNCHANGED <<at, job, inter, outputDir, status, data>>

(* main does not look at how a counting job ended. *)
NextJob ==
  /\ at' = "submit" /\ job' = job + 1
  /\ records' = NoRecords
  /\ UNCHANGED <<outputDir, status, merged, input, runs>>

(* IntSumReducer, as the reducer of the two jobs that count. *)
ReduceCounts ==
  /\ at = "shuffle" /\ job \in Files
  /\ inter' = [inter EXCEPT ![job] = [w \in Words |-> Sum(records[w])]]
  /\ NextJob
  /\ UNCHANGED failed

(* A failed job leaves its directory without records, or none. *)
CountingFails ==
  /\ at = "shuffle" /\ job \in Files
  /\ \E left \in {Absent, [w \in Words |-> 0]} : inter' = [inter EXCEPT ![job] = left]
  /\ NextJob
  /\ failed' = failed \cup {job}

(* Two values are the counts of the two files: the smaller one is kept. *)
CommonWords ==
  {[word |-> w, count |-> Min(Range(records[w]))]
     : w \in {v \in Words : Cardinality(DOMAIN records[v]) = 2}}

(* A seeded fault: the comparison the other way round. *)
RareFirst(d, e) == d.count < e.count \/ (d.count = e.count /\ d.word < e.word)
Precedes(d, e) == d.count > e.count \/ (d.count = e.count /\ d.word < e.word)

Sorted(S) ==
  CHOOSE s \in [1 .. Cardinality(S) -> S] :
    \A i, j \in DOMAIN s : i < j => Precedes(s[i], s[j])

AfterCombined(output, outcome) ==
  /\ at = "shuffle" /\ job = Combined
  /\ at' = "clean"
  /\ outputDir' = output
  /\ status' = outcome
  /\ UNCHANGED <<job, records, inter, merged, data>>

(* TopKReducer: the common words are sorted and the first kValue written. *)
ReduceCommon ==
  LET sorted == Sorted(CommonWords)
  IN AfterCombined(SubSeq(sorted, 1, IF Len(sorted) < kValue THEN Len(sorted) ELSE kValue),
                   "success")

CombinedFails == AfterCombined(<<>>, "failure")

Clean ==
  /\ at = "clean"
  /\ at' = "ended"
  /\ inter' = Deleted(inter)
  /\ records' = NoRecords
  /\ UNCHANGED <<job, outputDir, status, merged, data>>

(* The driver is killed; a combined job that runs has made its directory. *)
Killed ==
  /\ at \in {"submit", "shuffle", "clean"}
  /\ at' = "ended" /\ status' = "killed"
  /\ outputDir' = IF at = "shuffle" /\ job = Combined THEN <<>> ELSE outputDir
  /\ records' = NoRecords
  /\ UNCHANGED <<job, inter, merged, data>>

(* The user starts it again, on other files, and may remove the old output. *)
Again ==
  /\ at = "ended" /\ runs < MaxRuns
  /\ at' = "start" /\ status' = "running" /\ runs' = runs + 1
  /\ input' \in [Files -> Texts]
  /\ outputDir' \in {outputDir, Absent}
  /\ records' = NoRecords
  /\ failed' = {} /\ merged' = {}
  /\ UNCHANGED <<job, inter>>

Main == Start \/ SubmitCount \/ SubmitCombined \/ ReduceCounts \/ ReduceCommon \/ Clean

Next ==
  \/ Main \/ CountingFails \/ CombinedFails \/ Killed \/ Again
  \/ \E w \in Words : Combine(w)

(* Hadoop and main go on; combining, failing and killing need not happen. *)
Spec == Init /\ [][Next]_vars /\ WF_vars(Main)

-----------------------------------------------------------------------------

Count(f, w) == IF w \in Skipped THEN 0 ELSE input[f][w]

CountInJob(f, w) == IF job \in {f, Combined} /\ f \notin failed THEN Count(f, w) ELSE 0

(***************************************************************************)
(* However often the combiner runs, and on whichever groups, the records   *)
(* of a word add up to what the files of the job have of it.               *)
(***************************************************************************)
CountsConserved ==
  at = "shuffle" =>
    \A w \in Words : Sum(records[w]) = CountInJob(1, w) + CountInJob(2, w)

CommonTo(w) == \A f \in Files : Count(f, w) > 0
SmallerCount(w) == IF Count(1, w) < Count(2, w) THEN Count(1, w) ELSE Count(2, w)
Ahead(v, w) == SmallerCount(v) > SmallerCount(w) \/ (SmallerCount(v) = SmallerCount(w) /\ v < w)

(***************************************************************************)
(* A run that reports success and none of whose jobs failed has written    *)
(* the kValue best of the words common to both files, with the smaller     *)
(* count and in order - but for the words whose two counts the combiner    *)
(* has added to one value, which are taken for words of one file.  Nothing *)
(* of an earlier run gets into it.                                         *)
(***************************************************************************)
TopKOfCommonWords ==
  at = "ended" /\ status = "success" /\ failed = {} =>
    LET candidates == {w \in Words : CommonTo(w)} \ merged
        Rank(w) == Cardinality({v \in candidates : Ahead(v, w)}) + 1
        listed == {w \in candidates : Rank(w) <= kValue}
    IN /\ Len(outputDir) = Cardinality(listed)
       /\ \A w \in listed : outputDir[Rank(w)] = [word |-> w, count |-> SmallerCount(w)]

(***************************************************************************)
(* Whatever an earlier run left behind when it was killed or failed, a run *)
(* is refused by Hadoop only because of an old output that the user did    *)
(* not remove, or of a counting job that failed without a directory.       *)
(***************************************************************************)
LeftoversDoNotStopIt == status = "thrown" => outputDir # Absent \/ failed # {}

(* Every run comes to an end, whatever fails in it. *)
RunEnds == at # "ended" ~> at = "ended"

=============================================================================
