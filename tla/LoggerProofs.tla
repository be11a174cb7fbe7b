---------------------------- MODULE LoggerProofs ----------------------------
(***************************************************************************)
(* Proofs about Logger, for any number of writers, however long they log   *)
(* and however often a file cannot be made: LoggerInv is an inductive      *)
(* invariant.  Facts about hours, days and sets of numbers come first,     *)
(* then what the three changes of files (open, write, remove) do, one      *)
(* lemma per action, and the theorems.                                     *)
(***************************************************************************)
EXTENDS Logger, SequenceTheorems, FiniteSetTheorems, TLAPS

-----------------------------------------------------------------------------
(* The invariant *)

(* What every variable holds.  The current file is the last one made.      *)
Line == [line : Writers \X Nat, at : Nat]
File == [born : Nat, mtime : Nat, opens : Nat, lines : Seq(Line), removed : BOOLEAN, judged : Nat]

LoggerTypeOK ==
  /\ splitType \in {"date", "hour"}
  /\ clock \in Nat /\ date \in Nat /\ date <= clock
  /\ initOnce \in {"new", "running", "done"}
  /\ console \in Seq(Writers \X Nat)
  /\ files \in Seq(File) /\ logFile = Len(files) /\ todo \subseteq 1..Len(files)
  /\ lineCount \in Nat /\ failures \in Nat
  /\ pc \in [Writers -> {"idle", "init", "lock", "console", "file", "rotate"}]

(* One writer holds the mutex from before its console line until after its *)
(* check for a new file, and one runs Init before anything is written.     *)
MutexOK ==
  /\ \A w \in Writers : pc[w] \in {"console", "file", "rotate"} => wMutex = w
  /\ \A w \in Writers : pc[w] = "init" => initOnce = "running"
  /\ \A v, w \in Writers : pc[v] = "init" /\ pc[w] = "init" => v = w
  /\ initOnce # "done" =>
       /\ \A w \in Writers : pc[w] \in {"idle", "init"}
       /\ files = <<>> /\ console = <<>> /\ lineCount = 0 /\ mainloop = "off"

(* The stamps are those of the current file's time; zero is of no file.    *)
StampsOK ==
  /\ logFile = 0 => createFileDate = 0 /\ createFileHour = 0
  /\ logFile # 0 => /\ createFileDate = YearDay(files[logFile].born)
                    /\ createFileHour = Hour(files[logFile].born)

TimesOK ==
  \A f \in DOMAIN files :
    /\ files[f].born <= files[f].mtime /\ files[f].mtime <= clock
    /\ \A i \in DOMAIN files[f].lines : /\ files[f].born <= files[f].lines[i].at
                                        /\ files[f].lines[i].at <= files[f].mtime

(* A line has been written and the check for a new file is still to come.  *)
Rotating == \E w \in Writers : pc[w] = "rotate"

LateOK ==
  \A f \in DOMAIN files :
    /\ Cardinality(Late(f)) <= 1 + failures
    /\ f = logFile /\ ~Rotating => \/ Cardinality(Late(f)) <= failures
                                   \/ Period(files[f].born) + Cycle <= Period(clock)

(* What a file has room for before it was last opened, and since.          *)
LengthOK ==
  \A f \in DOMAIN files :
    /\ Len(files[f].lines) <= files[f].opens * (FileMaxLine + 1) + failures
    /\ f = logFile =>
         LET before == Len(files[f].lines) + (FileMaxLine + 1)
             room   == files[f].opens * (FileMaxLine + 1) + failures
         IN  /\ before <= room + lineCount
             /\ before <= room + FileMaxLine + (IF Rotating THEN 1 ELSE 0)

(* Without a file lines are lost, and a failure is ahead of each of them.  *)
LostOK ==
  logFile = 0 /\ initOnce = "done" =>
    /\ lineCount = Settled /\ failures > 0
    /\ lineCount + 1 <= MostLost + (IF Rotating THEN 1 ELSE 0)

FilesOK ==
  /\ IsFiniteSet(Filed)
  /\ FilesMatchConsole
  /\ \A w \in Writers : pc[w] = "file" => /\ console # <<>>
                                          /\ console[Len(console)] = <<w, LinesOf(w)>>

(* At time d the file was not written to for KeepSecond; it may be since.  *)
OldBy(f, d) ==
  /\ files[f].born + KeepSecond < d
  /\ \A i \in DOMAIN files[f].lines : \/ files[f].lines[i].at + KeepSecond < d
                                      \/ d <= files[f].lines[i].at

CleanupOK ==
  /\ mainloop \in {"walk", "remove"} =>
       \A f \in Existing \ (todo \cup spared) : date <= files[f].mtime + KeepSecond
  /\ mainloop = "remove" => todo # {} /\ \A f \in todo : f = Next1 => OldBy(f, date)
  /\ \A f \in DOMAIN files : files[f].removed => files[f].judged <= clock /\ OldBy(f, files[f].judged)

LoggerInv ==
  /\ LoggerTypeOK /\ MutexOK /\ StampsOK /\ TimesOK
  /\ LateOK /\ LengthOK /\ LostOK /\ FilesOK /\ CleanupOK

-----------------------------------------------------------------------------
(* Numbers *)

LEMMA DivIs ==
  ASSUME NEW t \in Nat, NEW h \in Nat \ {0}
  PROVE  t \div h \in Nat /\ t % h \in 0..(h - 1) /\ t = h * (t \div h) + (t % h)
OBVIOUS

LEMMA Multiples ==
  ASSUME NEW h \in Nat, NEW a \in Nat, NEW b \in Nat, a + 1 <= b
  PROVE  h * a \in Nat /\ h * b \in Nat /\ h * a + h <= h * b
<1>1. h * (a + 1) = h * a + h /\ h * a \in Nat /\ h * b \in Nat
  OBVIOUS
<1>2. h * (a + 1) <= h * b
  OBVIOUS
<1> QED
  BY <1>1, <1>2

(* The later of two times has the larger quotient; h later it is strictly  *)
(* so, and less than h later with the same remainder it is the same time.  *)
LEMMA Quotients ==
  ASSUME NEW a \in Nat, NEW b \in Nat, NEW h \in Nat \ {0}
  PROVE  /\ a <= b => a \div h <= b \div h
         /\ a + h <= b => a \div h < b \div h
         /\ a <= b /\ b < a + h /\ a % h = b % h => a = b
<1> DEFINE p == a \div h
           q == b \div h
<1>1. /\ p \in Nat /\ q \in Nat /\ a % h \in 0..(h - 1) /\ b % h \in 0..(h - 1)
      /\ a = h * p + (a % h) /\ b = h * q + (b % h)
  BY DivIs
<1> HIDE DEF p, q
<1>2. CASE q + 1 <= p
  <2>1. h * q + h <= h * p /\ h * q \in Nat /\ h * p \in Nat
    BY <1>1, <1>2, Multiples
  <2>2. b < a
    BY <1>1, <2>1
  <2> QED
    BY <2>2
<1>3. CASE p + 1 <= q
  <2>1. h * p + h <= h * q /\ h * q \in Nat /\ h * p \in Nat
    BY <1>1, <1>3, Multiples
  <2>2. a % h = b % h => a + h <= b
    BY <1>1, <2>1
  <2> QED
    BY <1>1, <1>3, <2>2 DEF p, q
<1>4. CASE p = q
  <2>1. h * p \in Nat
    BY <1>1
  <2>2. b < a + h /\ (a % h = b % h => a = b)
    BY <1>1, <1>4, <2>1
  <2> QED
    BY <1>1, <1>4, <2>2 DEF p, q
<1> QED
  BY <1>1, <1>2, <1>3, <1>4

(* Days and periods follow the clock. *)
LEMMA PeriodGrows ==
  ASSUME splitType \in {"date", "hour"}, NEW a \in Nat, NEW b \in Nat, a <= b
  PROVE  Period(a) \in Nat /\ Period(b) \in Nat /\ Period(a) <= Period(b) /\ Cycle \in Nat
<1>1. Day(a) \in Nat /\ Day(b) \in Nat /\ Day(a) <= Day(b)
  BY Numbers, DivIs, Quotients DEF Day
<1> QED
  BY <1>1, Numbers DEF Period, Cycle

(* Equal stamps are of the same period, until a cycle is over. *)
LEMMA SameStamps ==
  ASSUME splitType \in {"date", "hour"}, NEW a \in Nat, NEW b \in Nat, a <= b,
         splitType = "date" => YearDay(a) = YearDay(b),
         splitType = "hour" => Hour(a) = Hour(b),
         Period(b) < Period(a) + Cycle
  PROVE  Period(a) = Period(b)
<1>1. CASE splitType = "date"
  <2>1. Day(a) \in Nat /\ Day(b) \in Nat /\ Day(a) <= Day(b) /\ Day(b) < Day(a) + 365
    BY <1>1, PeriodGrows DEF Period, Cycle
  <2>2. Day(a) % 365 \in Nat /\ Day(b) % 365 \in Nat
    BY <2>1
  <2>3. Day(a) % 365 = Day(b) % 365
    BY <1>1, <2>2 DEF YearDay
  <2> HIDE DEF Day
  <2>4. Day(a) = Day(b)
    BY <2>1, <2>3, Quotients
  <2> QED
    BY <1>1, <2>4 DEF Period
<1>2. CASE splitType = "hour"
  <2>1. a <= b /\ b < a + HoursPerDay /\ a % HoursPerDay = b % HoursPerDay
    BY <1>2 DEF Period, Cycle, Hour
  <2> QED
    BY <2>1, Numbers, Quotients DEF Period
<1> QED
  BY <1>1, <1>2

(* A set of numbers has a least one. *)
LEMMA LeastNumber ==
  ASSUME NEW T \in SUBSET Nat, T # {}
  PROVE  \E f \in T : \A g \in T : f <= g
<1> DEFINE Below == {0..f : f \in T}
<1>1. Below \subseteq FiniteSubsetsOf(Nat) /\ Below # {}
  <2>1. \A f \in T : 0..f \in SUBSET Nat /\ IsFiniteSet(0..f)
    BY FS_Interval
  <2> QED
    BY <2>1 DEF FiniteSubsetsOf
<1>2. \E X \in Below : \A Y \in Below : ~(<<Y, X>> \in StrictSubsetOrdering(Nat))
  <2>1. IsWellFoundedOn(StrictSubsetOrdering(Nat), FiniteSubsetsOf(Nat))
    BY FS_StrictSubsetOrderingWellFounded
  <2> HIDE DEF Below
  <2> QED
    BY <1>1, <2>1, WFMin
<1>3. PICK f \in T : \A g \in T : ~(<<0..g, 0..f>> \in StrictSubsetOrdering(Nat))
  BY <1>2
<1>4. ASSUME NEW g \in T, g < f PROVE FALSE
  <2>1. f \notin 0..g /\ f \in 0..f /\ \A x \in 0..g : x \in 0..f
    BY <1>4
  <2> DEFINE A == 0..g
             B == 0..f
  <2>2. A \in SUBSET Nat /\ B \in SUBSET Nat
    OBVIOUS
  <2> HIDE DEF A, B
  <2>3. A \subseteq B /\ A # B
    BY <2>1 DEF A, B
  <2>4. <<A, B>> \in StrictSubsetOrdering(Nat)
    BY <2>2, <2>3 DEF StrictSubsetOrdering
  <2> QED
    BY <1>3, <2>4 DEF A, B
<1> QED
  BY <1>3, <1>4

-----------------------------------------------------------------------------
(* Files *)

LEMMA FileIs ==
  ASSUME files \in Seq(File)
  PROVE  /\ Len(files) \in Nat /\ DOMAIN files = 1..Len(files)
         /\ \A f \in DOMAIN files :
              /\ files[f] \in File
              /\ files[f].born \in Nat /\ files[f].mtime \in Nat /\ files[f].opens \in Nat
              /\ files[f].removed \in BOOLEAN /\ files[f].judged \in Nat
              /\ files[f].lines \in Seq(Line)
              /\ Len(files[f].lines) \in Nat /\ DOMAIN files[f].lines = 1..Len(files[f].lines)
              /\ \A i \in DOMAIN files[f].lines : files[f].lines[i] \in Line /\ files[f].lines[i].at \in Nat
<1>1. Len(files) \in Nat /\ DOMAIN files = 1..Len(files)
  BY LenProperties
<1>2. ASSUME NEW f \in DOMAIN files
      PROVE  /\ files[f] \in File
             /\ files[f].born \in Nat /\ files[f].mtime \in Nat /\ files[f].opens \in Nat
             /\ files[f].removed \in BOOLEAN /\ files[f].judged \in Nat
             /\ files[f].lines \in Seq(Line)
  <2>1. files[f] \in File
    BY <1>1, ElementOfSeq
  <2> QED
    BY <2>1 DEF File
<1>3. ASSUME NEW f \in DOMAIN files
      PROVE  /\ Len(files[f].lines) \in Nat /\ DOMAIN files[f].lines = 1..Len(files[f].lines)
             /\ \A i \in DOMAIN files[f].lines : files[f].lines[i] \in Line /\ files[f].lines[i].at \in Nat
  <2>1. Len(files[f].lines) \in Nat /\ DOMAIN files[f].lines = 1..Len(files[f].lines)
    BY <1>2, LenProperties
  <2>2. ASSUME NEW i \in DOMAIN files[f].lines
        PROVE  files[f].lines[i] \in Line /\ files[f].lines[i].at \in Nat
    <3>1. files[f].lines[i] \in Line
      BY <1>2, <2>1, ElementOfSeq
    <3> QED
      BY <3>1 DEF Line
  <2> QED
    BY <2>1, <2>2
<1> QED
  BY <1>1, <1>2, <1>3

(* A file that is started is the last one: new and empty, or of this hour  *)
(* already.  The others stay as they are.                                  *)
LEMMA OpenIs ==
  ASSUME files \in Seq(File), clock \in Nat, OpenFile
  PROVE  /\ files' \in Seq(File) /\ logFile' = Len(files') /\ logFile' \in Nat \ {0}
         /\ logFile' >= Len(files)
         /\ DOMAIN files' = DOMAIN files \cup {logFile'}
         /\ \A f \in DOMAIN files :
              /\ files'[f].born = files[f].born /\ files'[f].mtime = files[f].mtime
              /\ files'[f].lines = files[f].lines
              /\ files'[f].removed = files[f].removed /\ files'[f].judged = files[f].judged
              /\ files'[f].opens = IF f = logFile' THEN files[f].opens + 1 ELSE files[f].opens
         /\ files'[logFile'].born = clock
         /\ logFile' \notin DOMAIN files =>
              /\ files'[logFile'].mtime = clock /\ files'[logFile'].lines = <<>>
              /\ files'[logFile'].opens = 1 /\ ~files'[logFile'].removed
<1>1. Len(files) \in Nat /\ DOMAIN files = 1..Len(files)
  BY FileIs
<1>2. ASSUME NEW rec,
             rec = [born |-> clock, mtime |-> clock, opens |-> 1, lines |-> <<>>,
                    removed |-> FALSE, judged |-> 0],
             files' = Append(files, rec), logFile' = Len(files) + 1
      PROVE  /\ files' \in Seq(File) /\ Len(files') = Len(files) + 1
             /\ \A f \in DOMAIN files : files'[f] = files[f]
             /\ files'[logFile'] = rec
             /\ DOMAIN files' = DOMAIN files \cup {logFile'}
  <2>1. <<>> \in Seq(Line)
    BY EmptySeq
  <2>2. rec \in File
    BY <1>2, <2>1 DEF File
  <2>3. /\ files' \in Seq(File) /\ Len(files') = Len(files) + 1
        /\ \A f \in 1..Len(files) : files'[f] = files[f]
        /\ files'[Len(files) + 1] = rec
    BY <1>2, <2>2, AppendProperties
  <2>4. DOMAIN files' = 1..Len(files) + 1
    BY <2>3, LenProperties
  <2>5. 1..Len(files) + 1 = 1..Len(files) \cup {Len(files) + 1}
    BY <1>1
  <2> QED
    BY <1>1, <1>2, <2>3, <2>4, <2>5
<1>3. ASSUME NEW f, f = Len(files), f \in Existing, files[f].born = clock,
             files' = [files EXCEPT ![f].opens = @ + 1], logFile' = f
      PROVE  /\ files' \in Seq(File) /\ Len(files') = Len(files) /\ f \in DOMAIN files
             /\ \A g \in DOMAIN files : g # f => files'[g] = files[g]
             /\ files'[f] = [files[f] EXCEPT !.opens = @ + 1]
             /\ DOMAIN files' = DOMAIN files \cup {logFile'}
  <2>1. f \in DOMAIN files /\ files[f] \in File
    BY <1>3, FileIs DEF Existing
  <2>2. [files[f] EXCEPT !.opens = @ + 1] \in File
    <3>1. files[f].opens + 1 \in Nat
      BY <2>1, FileIs
    <3> QED
      BY <2>1, <3>1 DEF File
  <2>3. files' = [files EXCEPT ![f] = [files[f] EXCEPT !.opens = @ + 1]]
    BY <1>3
  <2>4. /\ files' \in Seq(File) /\ Len(files') = Len(files)
        /\ \A g \in 1..Len(files) : files'[g] = IF g = f THEN [files[f] EXCEPT !.opens = @ + 1] ELSE files[g]
    BY <1>1, <2>1, <2>2, <2>3, ExceptSeq
  <2>5. DOMAIN files' = 1..Len(files)
    BY <2>4, LenProperties
  <2> QED
    BY <1>1, <1>3, <2>1, <2>4, <2>5
<1>4. \/ \E rec : /\ rec = [born |-> clock, mtime |-> clock, opens |-> 1, lines |-> <<>>,
                            removed |-> FALSE, judged |-> 0]
                  /\ files' = Append(files, rec) /\ logFile' = Len(files) + 1
      \/ \E f : /\ f = Len(files) /\ f \in Existing /\ files[f].born = clock
                /\ files' = [files EXCEPT ![f].opens = @ + 1] /\ logFile' = f
  BY DEF OpenFile
<1>5. CASE \E rec : /\ rec = [born |-> clock, mtime |-> clock, opens |-> 1, lines |-> <<>>,
                              removed |-> FALSE, judged |-> 0]
                    /\ files' = Append(files, rec) /\ logFile' = Len(files) + 1
  <2>1. PICK rec : /\ rec = [born |-> clock, mtime |-> clock, opens |-> 1, lines |-> <<>>,
                             removed |-> FALSE, judged |-> 0]
                   /\ files' = Append(files, rec) /\ logFile' = Len(files) + 1
    BY <1>5
  <2>2. /\ files' \in Seq(File) /\ Len(files') = Len(files) + 1
        /\ \A f \in DOMAIN files : files'[f] = files[f]
        /\ files'[logFile'] = rec
        /\ DOMAIN files' = DOMAIN files \cup {logFile'}
    BY <1>2, <2>1
  <2>3. logFile' \notin DOMAIN files
    BY <1>1, <2>1
  <2> QED
    BY <1>1, <2>1, <2>2, <2>3
<1>6. CASE \E f : /\ f = Len(files) /\ f \in Existing /\ files[f].born = clock
                  /\ files' = [files EXCEPT ![f].opens = @ + 1] /\ logFile' = f
  <2>1. PICK f : /\ f = Len(files) /\ f \in Existing /\ files[f].born = clock
                 /\ files' = [files EXCEPT ![f].opens = @ + 1] /\ logFile' = f
    BY <1>6
  <2>2. /\ files' \in Seq(File) /\ Len(files') = Len(files) /\ f \in DOMAIN files
        /\ \A g \in DOMAIN files : g # f => files'[g] = files[g]
        /\ files'[f] = [files[f] EXCEPT !.opens = @ + 1]
        /\ DOMAIN files' = DOMAIN files \cup {logFile'}
    BY <1>3, <2>1
  <2>3. files[f] \in File
    BY <2>2, FileIs
  <2>4. /\ files'[f].born = files[f].born /\ files'[f].mtime = files[f].mtime
        /\ files'[f].lines = files[f].lines /\ files'[f].opens = files[f].opens + 1
        /\ files'[f].removed = files[f].removed /\ files'[f].judged = files[f].judged
    BY <2>2, <2>3 DEF File
  <2> QED
    BY <1>1, <2>1, <2>2, <2>4
<1> QED
  BY <1>4, <1>5, <1>6

(* A line goes to the end of the current file, a removal leaves the lines. *)
Put(l, line) == files' = [files EXCEPT ![l].mtime = clock, ![l].lines = Append(@, line)]

LEMMA WriteIs ==
  ASSUME files \in Seq(File), clock \in Nat, NEW l \in DOMAIN files, NEW line \in Line,
         Put(l, line)
  PROVE  /\ files' \in Seq(File) /\ Len(files') = Len(files) /\ DOMAIN files' = DOMAIN files
         /\ \A f \in DOMAIN files :
              /\ files'[f].born = files[f].born /\ files'[f].opens = files[f].opens
              /\ files'[f].removed = files[f].removed /\ files'[f].judged = files[f].judged
              /\ f # l => files'[f].mtime = files[f].mtime /\ files'[f].lines = files[f].lines
         /\ files'[l].mtime = clock
         /\ Len(files'[l].lines) = Len(files[l].lines) + 1
         /\ DOMAIN files'[l].lines = DOMAIN files[l].lines \cup {Len(files[l].lines) + 1}
         /\ Len(files[l].lines) + 1 \notin DOMAIN files[l].lines
         /\ \A i \in DOMAIN files[l].lines : files'[l].lines[i] = files[l].lines[i]
         /\ files'[l].lines[Len(files[l].lines) + 1] = line
<1> DEFINE new == [files[l] EXCEPT !.mtime = clock, !.lines = Append(files[l].lines, line)]
           n == Len(files[l].lines)
<1>1. /\ DOMAIN files = 1..Len(files) /\ files[l] \in File
      /\ files[l].lines \in Seq(Line) /\ n \in Nat /\ DOMAIN files[l].lines = 1..n
  BY FileIs
<1>2. /\ Append(files[l].lines, line) \in Seq(Line) /\ Len(Append(files[l].lines, line)) = n + 1
      /\ \A i \in 1..n : Append(files[l].lines, line)[i] = files[l].lines[i]
      /\ Append(files[l].lines, line)[n + 1] = line
  BY <1>1, AppendProperties
<1>3. DOMAIN Append(files[l].lines, line) = 1..n \cup {n + 1}
  <2>1. DOMAIN Append(files[l].lines, line) = 1..n + 1
    BY <1>2, LenProperties
  <2> QED
    BY <1>1, <2>1
<1>4. new \in File
  BY <1>1, <1>2 DEF File
<1>5. files' = [files EXCEPT ![l] = new]
  BY <1>1 DEF File, Put
<1> HIDE DEF new
<1>6. /\ files' \in Seq(File) /\ Len(files') = Len(files)
      /\ \A g \in 1..Len(files) : files'[g] = IF g = l THEN new ELSE files[g]
  <2>1. /\ [files EXCEPT ![l] = new] \in Seq(File)
        /\ Len([files EXCEPT ![l] = new]) = Len(files)
        /\ \A g \in 1..Len(files) :
             [files EXCEPT ![l] = new][g] = IF g = l THEN new ELSE files[g]
    BY <1>1, <1>4, ExceptSeq
  <2> QED
    BY <1>5, <2>1
<1>7. DOMAIN files' = 1..Len(files)
  BY <1>6, LenProperties
<1>8. /\ new.born = files[l].born /\ new.opens = files[l].opens /\ new.mtime = clock
      /\ new.removed = files[l].removed /\ new.judged = files[l].judged
      /\ new.lines = Append(files[l].lines, line)
  BY <1>1 DEF new, File
<1>9. files'[l] = new /\ \A f \in DOMAIN files : f # l => files'[f] = files[f]
  BY <1>1, <1>6
<1> HIDE DEF n
<1>10. Len(files'[l].lines) = n + 1 /\ DOMAIN files'[l].lines = DOMAIN files[l].lines \cup {n + 1}
  BY <1>1, <1>2, <1>3, <1>8, <1>9
<1>11. n + 1 \notin DOMAIN files[l].lines
  BY <1>1
<1>12. files'[l].lines[n + 1] = line /\ \A i \in DOMAIN files[l].lines : files'[l].lines[i] = files[l].lines[i]
  BY <1>1, <1>2, <1>8, <1>9
<1>13. \A f \in DOMAIN files :
         /\ files'[f].born = files[f].born /\ files'[f].opens = files[f].opens
         /\ files'[f].removed = files[f].removed /\ files'[f].judged = files[f].judged
         /\ f # l => files'[f].mtime = files[f].mtime /\ files'[f].lines = files[f].lines
  BY <1>8, <1>9
<1> QED
  BY <1>1, <1>6, <1>7, <1>8, <1>9, <1>10, <1>11, <1>12, <1>13 DEF n

LEMMA RemoveIs ==
  ASSUME files \in Seq(File), date \in Nat, NEW r \in DOMAIN files,
         files' = [files EXCEPT ![r].removed = TRUE, ![r].judged = date]
  PROVE  /\ files' \in Seq(File) /\ Len(files') = Len(files) /\ DOMAIN files' = DOMAIN files
         /\ \A f \in DOMAIN files :
              /\ files'[f].born = files[f].born /\ files'[f].opens = files[f].opens
              /\ files'[f].mtime = files[f].mtime /\ files'[f].lines = files[f].lines
              /\ f # r => files'[f].removed = files[f].removed /\ files'[f].judged = files[f].judged
         /\ files'[r].removed /\ files'[r].judged = date
<1> DEFINE new == [files[r] EXCEPT !.removed = TRUE, !.judged = date]
<1>1. DOMAIN files = 1..Len(files) /\ files[r] \in File
  BY FileIs
<1>2. new \in File
  BY <1>1 DEF File
<1>3. files' = [files EXCEPT ![r] = new]
  BY <1>1 DEF File
<1>4. /\ new.born = files[r].born /\ new.opens = files[r].opens /\ new.mtime = files[r].mtime
      /\ new.lines = files[r].lines /\ new.removed /\ new.judged = date
  BY <1>1 DEF File
<1> HIDE DEF new
<1>5. /\ files' \in Seq(File) /\ Len(files') = Len(files)
      /\ \A g \in 1..Len(files) : files'[g] = IF g = r THEN new ELSE files[g]
  <2>1. /\ [files EXCEPT ![r] = new] \in Seq(File)
        /\ Len([files EXCEPT ![r] = new]) = Len(files)
        /\ \A g \in 1..Len(files) :
             [files EXCEPT ![r] = new][g] = IF g = r THEN new ELSE files[g]
    BY <1>1, <1>2, ExceptSeq
  <2> QED
    BY <1>3, <2>1
<1>6. DOMAIN files' = 1..Len(files)
  BY <1>5, LenProperties
<1>7. files'[r] = new /\ \A f \in DOMAIN files : f # r => files'[f] = files[f]
  BY <1>1, <1>5
<1> QED
  BY <1>1, <1>4, <1>5, <1>6, <1>7

(* Lines of another period, now and after a step. *)
LEMMA LateIs ==
  ASSUME NEW f
  PROVE  /\ \A i : i \in Late(f) <=> /\ i \in DOMAIN files[f].lines
                                     /\ Period(files[f].lines[i].at) < Period(files[f].born) + Cycle
                                     /\ Period(files[f].lines[i].at) # Period(files[f].born)
         /\ splitType' = splitType =>
              \A i : i \in Late(f)' <=> /\ i \in DOMAIN files'[f].lines
                                        /\ Period(files'[f].lines[i].at) < Period(files'[f].born) + Cycle
                                        /\ Period(files'[f].lines[i].at) # Period(files'[f].born)
BY DEF Late, Within, Period, Cycle

LEMMA LateFinite ==
  ASSUME LoggerTypeOK, NEW f \in DOMAIN files
  PROVE  IsFiniteSet(Late(f)) /\ Cardinality(Late(f)) \in Nat
<1>1. DOMAIN files[f].lines = 1..Len(files[f].lines) /\ Len(files[f].lines) \in Nat
  BY FileIs DEF LoggerTypeOK
<1>2. IsFiniteSet(DOMAIN files[f].lines)
  BY <1>1, FS_Interval
<1>3. Late(f) \in SUBSET DOMAIN files[f].lines
  BY DEF Late, Within
<1> QED
  BY <1>2, <1>3, FS_Subset, FS_CardinalityType

LEMMA NoLines == Cardinality({}) = 0
BY FS_EmptySet

LEMMA Next1Is ==
  ASSUME LoggerTypeOK, todo # {}
  PROVE  Next1 \in todo /\ Next1 \in DOMAIN files
<1>1. Len(files) \in Nat /\ DOMAIN files = 1..Len(files)
  BY FileIs DEF LoggerTypeOK
<1>2. todo \in SUBSET Nat
  BY <1>1 DEF LoggerTypeOK
<1>3. \E f \in todo : \A g \in todo : f <= g
  BY <1>2, LeastNumber
<1>4. Next1 \in todo
  BY <1>3 DEF Next1
<1> QED
  BY <1>1, <1>4 DEF LoggerTypeOK

-----------------------------------------------------------------------------
(* What a step leaves alone stays as it is. *)

SameTasks ==
  \A w \in Writers : /\ pc'[w] = "file" <=> pc[w] = "file"
                     /\ pc'[w] = "rotate" <=> pc[w] = "rotate"

LEMMA AgesStay ==
  ASSUME StampsOK, TimesOK, LateOK, LengthOK,
         UNCHANGED <<splitType, clock, files, current, failures>>, Rotating' <=> Rotating
  PROVE  StampsOK' /\ TimesOK' /\ LateOK' /\ LengthOK'
<1>1. \A f : Late(f)' = Late(f)
  BY DEF Late, Within, Period, Cycle
<1>2. StampsOK' /\ TimesOK'
  BY DEF StampsOK, TimesOK, current, YearDay, Hour, Day
<1>3. LateOK'
  BY <1>1 DEF LateOK, current, Period, Cycle, Day
<1>4. LengthOK'
  BY DEF LengthOK, current
<1> QED
  BY <1>2, <1>3, <1>4

LEMMA LinesStay ==
  ASSUME LostOK, FilesOK, UNCHANGED <<splitType, console, files, current, failures>>,
         initOnce' = "done" => initOnce = "done", SameTasks
  PROVE  LostOK' /\ FilesOK'
<1>1. Rotating' <=> Rotating
  BY DEF Rotating, SameTasks
<1>2. Settled' = Settled /\ MostLost' = MostLost
  BY DEF Settled, MostLost, SameTasks
<1>3. Filed' = Filed /\ \A p : UpTo(p)' = UpTo(p)
  BY DEF Filed, UpTo
<1>4. \A w : LinesOf(w)' = LinesOf(w)
  BY DEF LinesOf
<1>5. LostOK'
  BY <1>1, <1>2 DEF LostOK, current
<1>6. FilesMatchConsole'
  BY <1>2, <1>3 DEF FilesMatchConsole, FilesOK
<1>7. FilesOK'
  BY <1>3, <1>4, <1>6 DEF FilesOK, SameTasks
<1> QED
  BY <1>5, <1>7

LEMMA CleanupStays ==
  ASSUME LoggerTypeOK, CleanupOK, UNCHANGED <<files, mainloop, date, todo, spared>>,
         clock' \in Nat, clock <= clock'
  PROVE  CleanupOK'
<1>1. Existing' = Existing /\ Next1' = Next1 /\ \A f, d : OldBy(f, d)' = OldBy(f, d)
  BY DEF Existing, Next1, OldBy
<1>2. \A f \in DOMAIN files : files[f].judged \in Nat
  BY FileIs DEF LoggerTypeOK
<1>3. \A f \in DOMAIN files : files[f].removed => files[f].judged <= clock'
  BY <1>2 DEF CleanupOK, LoggerTypeOK
<1>4. (mainloop \in {"walk", "remove"} =>
         \A f \in Existing \ (todo \cup spared) : date <= files[f].mtime + KeepSecond)'
  BY <1>1 DEF CleanupOK
<1>5. (mainloop = "remove" => todo # {} /\ \A f \in todo : f = Next1 => OldBy(f, date))'
  BY DEF CleanupOK, Next1, OldBy
<1>6. (\A f \in DOMAIN files : files[f].removed => files[f].judged <= clock /\ OldBy(f, files[f].judged))'
  BY <1>3 DEF CleanupOK, OldBy
<1> QED
  BY <1>4, <1>5, <1>6 DEF CleanupOK

LEMMA QuietPreserves ==
  ASSUME LoggerInv, LoggerTypeOK', MutexOK', CleanupOK',
         UNCHANGED <<splitType, clock, console, files, current, failures>>,
         initOnce' = "done" => initOnce = "done", SameTasks
  PROVE  LoggerInv'
<1>1. Rotating' <=> Rotating
  BY DEF Rotating, SameTasks
<1> QED
  BY <1>1, AgesStay, LinesStay DEF LoggerInv

-----------------------------------------------------------------------------
(* The actions *)

LEMMA InitLoggerInv == Init => LoggerInv
<1> SUFFICES ASSUME Init PROVE LoggerInv
  OBVIOUS
<1>1. <<>> \in Seq(File) /\ <<>> \in Seq(Writers \X Nat) /\ Len(files) = 0 /\ Len(console) = 0
  BY EmptySeq DEF Init
<1>2. DOMAIN files = {}
  BY <1>1, LenProperties DEF Init
<1>3. LoggerTypeOK
  BY <1>1 DEF Init, LoggerTypeOK
<1>4. MutexOK /\ StampsOK
  BY DEF Init, MutexOK, StampsOK
<1>5. TimesOK /\ LateOK /\ LengthOK /\ LostOK
  BY <1>2 DEF Init, TimesOK, LateOK, LengthOK, LostOK
<1>6. FilesOK
  <2>1. Filed = {}
    BY <1>2 DEF Filed
  <2>2. Settled = 0
    BY <1>1 DEF Init, Settled
  <2>3. 0 \in 0..MostLost
    BY Numbers DEF Init, MostLost
  <2>4. 0 + Cardinality(Filed) = Settled
    BY <2>1, <2>2, NoLines
  <2>5. FilesMatchConsole
    BY <2>1, <2>3, <2>4 DEF FilesMatchConsole
  <2>6. \A w \in Writers : pc[w] # "file"
    BY DEF Init
  <2> QED
    BY <2>1, <2>5, <2>6, FS_EmptySet DEF FilesOK
<1>7. CleanupOK
  BY <1>2 DEF Init, CleanupOK
<1> QED
  BY <1>3, <1>4, <1>5, <1>6, <1>7 DEF LoggerInv

(* Waiting for the mutex, and everything before it. *)
LEMMA WaitPreserves ==
  ASSUME LoggerInv, UNCHANGED splitType, NEW w \in Writers, InitOnce(w) \/ Log(w) \/ Lock(w)
  PROVE  LoggerInv'
<1>1. LoggerTypeOK /\ MutexOK /\ CleanupOK
  BY DEF LoggerInv
<1>2. UNCHANGED <<clock, console, files, current, cleanup, failures>>
  BY DEF InitOnce, Log, Lock
<1>3. LoggerTypeOK'
  BY <1>1, <1>2 DEF LoggerTypeOK, InitOnce, Log, Lock, Go, current, cleanup
<1>4. MutexOK'
  <2>1. CASE InitOnce(w)
    BY <1>1, <2>1 DEF MutexOK, LoggerTypeOK, InitOnce, Go, current, cleanup
  <2>2. CASE Log(w)
    BY <1>1, <2>2 DEF MutexOK, LoggerTypeOK, Log, Go, cleanup
  <2>3. CASE Lock(w)
    BY <1>1, <2>3, NoneOutside DEF MutexOK, LoggerTypeOK, Lock, Go, cleanup
  <2> QED
    BY <2>1, <2>2, <2>3
<1>5. CleanupOK'
  BY <1>1, <1>2, CleanupStays DEF LoggerTypeOK, cleanup
<1>6. SameTasks
  BY <1>1 DEF SameTasks, LoggerTypeOK, InitOnce, Log, Lock, Go
<1>7. initOnce' = "done" => initOnce = "done"
  BY DEF InitOnce, Log, Lock
<1> QED
  BY <1>2, <1>3, <1>4, <1>5, <1>6, <1>7, QuietPreserves

(* The clean-up looks at the directory. *)
LEMMA LookPreserves ==
  ASSUME LoggerInv, UNCHANGED splitType,
         TickDue \/ ReadDir \/ ReadDirFails \/ Judge \/ Spare \/ WalkEnd
  PROVE  LoggerInv'
<1>1. LoggerTypeOK /\ MutexOK /\ TimesOK /\ CleanupOK
  BY DEF LoggerInv
<1>2. UNCHANGED <<clock, initOnce, console, files, current, wMutex, pc, failures>>
  BY DEF TickDue, ReadDir, ReadDirFails, Judge, Spare, WalkEnd
<1>3. Existing \subseteq 1..Len(files)
  BY <1>1, FileIs DEF LoggerTypeOK, Existing
<1>4. LoggerTypeOK'
  <2>1. date' \in Nat /\ date' <= clock
    BY <1>1 DEF LoggerTypeOK, TickDue, ReadDir, ReadDirFails, Judge, Spare, WalkEnd
  <2>2. todo' \subseteq 1..Len(files)
    BY <1>1, <1>3 DEF LoggerTypeOK, TickDue, ReadDir, ReadDirFails, Judge, Spare, WalkEnd
  <2> QED
    BY <1>1, <1>2, <2>1, <2>2 DEF LoggerTypeOK, current
<1>5. MutexOK'
  BY <1>1, <1>2 DEF MutexOK, current, TickDue, Due, ReadDir, ReadDirFails, Judge, Spare, WalkEnd
<1>6. \A f \in DOMAIN files : files[f].removed => files[f].judged <= clock /\ OldBy(f, files[f].judged)
  BY <1>1 DEF CleanupOK
<1>7. (\A f \in DOMAIN files : files[f].removed => files[f].judged <= clock /\ OldBy(f, files[f].judged))'
  BY <1>2, <1>6 DEF OldBy
<1>8. CASE TickDue \/ ReadDirFails \/ WalkEnd
  <2>1. mainloop' \notin {"walk", "remove"}
    BY <1>8 DEF TickDue, ReadDirFails, WalkEnd
  <2>2. CleanupOK'
    BY <1>7, <2>1 DEF CleanupOK
  <2> QED
    BY <1>2, <1>4, <1>5, <2>2, QuietPreserves DEF SameTasks
<1>9. CASE ReadDir
  <2>1. mainloop' = "walk" /\ todo' = Existing' /\ date' = date
    BY <1>2, <1>9 DEF ReadDir, Existing
  <2>2. CleanupOK'
    BY <1>7, <2>1 DEF CleanupOK
  <2> QED
    BY <1>2, <1>4, <1>5, <2>2, QuietPreserves DEF SameTasks
<1>10. CASE Judge
  <2>1. mainloop = "walk" /\ todo # {} /\ date' = date /\ spared' = spared
    BY <1>10 DEF Judge
  <2>2. Next1 \in todo /\ Next1 \in DOMAIN files
    BY <1>1, <2>1, Next1Is
  <2>3. date \in Nat /\ KeepSecond \in Nat /\ files[Next1].mtime \in Nat /\ files[Next1].born \in Nat
    BY <1>1, <2>2, FileIs, Numbers DEF LoggerTypeOK
  <2>4. \A f \in Existing \ (todo \cup spared) : date <= files[f].mtime + KeepSecond
    BY <1>1, <2>1 DEF CleanupOK
  <2>5. CASE NeedDelete(Next1)
    <3>1. mainloop' = "remove" /\ todo' = todo
      BY <1>10, <2>5 DEF Judge
    <3>2. OldBy(Next1, date)
      <4>1. files[Next1].mtime + KeepSecond < date /\ files[Next1].born <= files[Next1].mtime
        BY <1>1, <2>2, <2>3, <2>5 DEF NeedDelete, TimesOK
      <4>2. \A i \in DOMAIN files[Next1].lines :
              files[Next1].lines[i].at \in Nat /\ files[Next1].lines[i].at <= files[Next1].mtime
        BY <1>1, <2>2, FileIs DEF TimesOK, LoggerTypeOK
      <4> QED
        BY <2>3, <4>1, <4>2 DEF OldBy
    <3>3. (\A f \in Existing \ (todo \cup spared) : date <= files[f].mtime + KeepSecond)'
      BY <1>2, <2>1, <2>4, <3>1 DEF Existing
    <3>4. (todo # {} /\ \A f \in todo : f = Next1 => OldBy(f, date))'
      BY <1>2, <2>1, <3>1, <3>2 DEF OldBy, Next1
    <3>5. CleanupOK'
      BY <1>7, <3>3, <3>4 DEF CleanupOK
    <3> QED
      BY <1>2, <1>4, <1>5, <3>5, QuietPreserves DEF SameTasks
  <2>6. CASE ~NeedDelete(Next1)
    <3>1. mainloop' = "walk" /\ todo' = todo \ {Next1}
      BY <1>10, <2>1, <2>6 DEF Judge
    <3>2. date <= files[Next1].mtime + KeepSecond
      BY <2>3, <2>6 DEF NeedDelete
    <3>3. (\A f \in Existing \ (todo \cup spared) : date <= files[f].mtime + KeepSecond)'
      BY <1>2, <2>1, <2>4, <3>1, <3>2 DEF Existing
    <3>4. CleanupOK'
      BY <1>7, <3>1, <3>3 DEF CleanupOK
    <3> QED
      BY <1>2, <1>4, <1>5, <3>4, QuietPreserves DEF SameTasks
  <2> QED
    BY <2>5, <2>6
<1>11. CASE Spare
  <2>1. /\ mainloop \in {"walk", "remove"} /\ mainloop' = "walk" /\ date' = date
        /\ todo' = todo \ {Next1} /\ spared' = spared \cup {Next1}
    BY <1>11 DEF Spare
  <2>2. (\A f \in Existing \ (todo \cup spared) : date <= files[f].mtime + KeepSecond)'
    BY <1>1, <1>2, <2>1 DEF Existing, CleanupOK
  <2>3. CleanupOK'
    BY <1>7, <2>1, <2>2 DEF CleanupOK
  <2> QED
    BY <1>2, <1>4, <1>5, <2>3, QuietPreserves DEF SameTasks
<1> QED
  BY <1>8, <1>9, <1>10, <1>11

(* A removal: the file was not written to for KeepSecond when it was       *)
(* looked at.                                                              *)
LEMMA RemoveFilePreserves ==
  ASSUME LoggerInv, UNCHANGED splitType, RemoveFile
  PROVE  LoggerInv'
<1>1. LoggerTypeOK /\ MutexOK /\ StampsOK /\ TimesOK /\ LateOK /\ LengthOK /\ LostOK /\ FilesOK /\ CleanupOK
  BY DEF LoggerInv
<1>2. /\ mainloop = "remove" /\ mainloop' = "walk" /\ todo' = todo \ {Next1}
      /\ UNCHANGED <<splitType, clock, initOnce, console, current, wMutex, pc, date, spared, failures>>
  BY DEF RemoveFile
<1>3. todo # {} /\ Next1 \in todo /\ Next1 \in DOMAIN files /\ OldBy(Next1, date)
  BY <1>1, <1>2, Next1Is DEF CleanupOK
<1>4. files' = [files EXCEPT ![Next1].removed = TRUE, ![Next1].judged = date]
  BY DEF RemoveFile
<1> DEFINE r == Next1
<1>5. /\ files' \in Seq(File) /\ Len(files') = Len(files) /\ DOMAIN files' = DOMAIN files
      /\ \A f \in DOMAIN files :
           /\ files'[f].born = files[f].born /\ files'[f].opens = files[f].opens
           /\ files'[f].mtime = files[f].mtime /\ files'[f].lines = files[f].lines
           /\ f # r => files'[f].removed = files[f].removed /\ files'[f].judged = files[f].judged
      /\ files'[r].removed /\ files'[r].judged = date
  <2>1. r \in DOMAIN files
    BY <1>3
  <2>2. files' = [files EXCEPT ![r].removed = TRUE, ![r].judged = date]
    BY <1>4
  <2> HIDE DEF r
  <2> QED
    BY <1>1, <2>1, <2>2, RemoveIs DEF LoggerTypeOK
<1>6. LoggerTypeOK'
  BY <1>1, <1>2, <1>5 DEF LoggerTypeOK, current
<1>7. DOMAIN files = 1..Len(files) /\ Len(files) \in Nat
  BY <1>1, FileIs DEF LoggerTypeOK
<1>8. files # <<>>
  BY <1>3
<1>9. MutexOK'
  BY <1>1, <1>2, <1>8 DEF MutexOK
<1>10. logFile # 0 => logFile \in DOMAIN files
  BY <1>1, <1>7 DEF LoggerTypeOK
<1>11. StampsOK'
  BY <1>1, <1>2, <1>5, <1>10 DEF StampsOK, current, YearDay, Hour, Day
<1>12. TimesOK'
  BY <1>1, <1>2, <1>5 DEF TimesOK
<1>13. Rotating' <=> Rotating
  BY <1>2 DEF Rotating
<1>14. \A f \in DOMAIN files : Late(f)' = Late(f)
  BY <1>2, <1>5 DEF Late, Within, Period, Cycle
<1>15. LateOK'
  BY <1>1, <1>2, <1>5, <1>13, <1>14 DEF LateOK, current, Period, Cycle, Day
<1>16. LengthOK'
  BY <1>1, <1>2, <1>5, <1>13 DEF LengthOK, current
<1>17. Filed' = Filed /\ \A p : UpTo(p)' = UpTo(p)
  <2>1. Filed' = Filed
    BY <1>5 DEF Filed
  <2> QED
    BY <2>1 DEF UpTo
<1>18. Settled' = Settled /\ MostLost' = MostLost /\ \A w : LinesOf(w)' = LinesOf(w)
  BY <1>2 DEF Settled, MostLost, LinesOf
<1>19. LostOK'
  BY <1>1, <1>2, <1>13, <1>18 DEF LostOK, current
<1>20. \A p \in Filed : files'[p[1]].lines = files[p[1]].lines
  <2>1. \A p \in Filed : p[1] \in DOMAIN files
    BY DEF Filed
  <2> QED
    BY <1>5, <2>1
<1>21. FilesOK'
  <2>1. FilesMatchConsole'
    BY <1>1, <1>2, <1>17, <1>18, <1>20 DEF FilesMatchConsole, FilesOK
  <2> QED
    BY <1>1, <1>2, <1>17, <1>18, <2>1 DEF FilesOK
<1>22. CleanupOK'
  <2>1. ASSUME NEW f \in DOMAIN files, files'[f].removed
        PROVE  files'[f].judged <= clock /\ OldBy(f, files'[f].judged)
    BY <1>1, <1>3, <1>5, <2>1 DEF CleanupOK, LoggerTypeOK
  <2>2. ASSUME NEW f \in DOMAIN files', files'[f].removed
        PROVE  (files[f].judged <= clock /\ OldBy(f, files[f].judged))'
    <3>1. files'[f].judged <= clock /\ OldBy(f, files'[f].judged)
      BY <1>5, <2>1, <2>2
    <3> QED
      BY <1>2, <1>5, <3>1 DEF OldBy
  <2>3. (\A f \in DOMAIN files : files[f].removed => files[f].judged <= clock /\ OldBy(f, files[f].judged))'
    BY <2>2
  <2>4. (\A f \in Existing \ (todo \cup spared) : date <= files[f].mtime + KeepSecond)'
    BY <1>1, <1>2, <1>5 DEF CleanupOK, Existing
  <2> QED
    BY <1>2, <2>3, <2>4 DEF CleanupOK
<1> QED
  BY <1>6, <1>9, <1>11, <1>12, <1>15, <1>16, <1>19, <1>21, <1>22 DEF LoggerInv

-----------------------------------------------------------------------------
(* Starting a file *)

(* A file that is started has lines of the present hour at most.           *)
LEMMA NewFileAges ==
  ASSUME LoggerTypeOK, StampsOK, TimesOK, LateOK, LengthOK,
         UNCHANGED <<splitType, clock>>, NewFile, ~Rotating'
  PROVE  StampsOK' /\ TimesOK' /\ LateOK' /\ LengthOK'
<1>1. /\ files' \in Seq(File) /\ logFile' = Len(files') /\ logFile' \in Nat \ {0}
      /\ logFile' >= Len(files)
      /\ DOMAIN files' = DOMAIN files \cup {logFile'}
      /\ \A f \in DOMAIN files :
           /\ files'[f].born = files[f].born /\ files'[f].mtime = files[f].mtime
           /\ files'[f].lines = files[f].lines
           /\ files'[f].opens = IF f = logFile' THEN files[f].opens + 1 ELSE files[f].opens
      /\ files'[logFile'].born = clock
      /\ logFile' \notin DOMAIN files =>
           /\ files'[logFile'].mtime = clock /\ files'[logFile'].lines = <<>>
           /\ files'[logFile'].opens = 1
  BY OpenIs DEF LoggerTypeOK, NewFile
<1>2. /\ lineCount' = 0 /\ failures' = failures
      /\ createFileDate' = YearDay(clock) /\ createFileHour' = Hour(clock)
  BY DEF NewFile
<1>3. /\ clock \in Nat /\ failures \in Nat /\ FileMaxLine \in Nat
      /\ DOMAIN files = 1..Len(files) /\ Len(files) \in Nat /\ logFile = Len(files)
      /\ splitType \in {"date", "hour"}
  BY FileIs, Numbers DEF LoggerTypeOK
<1>4. DOMAIN <<>> = {} /\ Len(<<>>) = 0
  OBVIOUS
<1>5. StampsOK'
  BY <1>1, <1>2 DEF StampsOK, YearDay, Hour, Day
<1>6. ASSUME NEW f \in DOMAIN files, f = logFile'
      PROVE  f = logFile /\ \A i \in DOMAIN files[f].lines : files[f].lines[i].at = clock
  <2>1. f = logFile
    BY <1>1, <1>3, <1>6
  <2>2. files[f].born = clock /\ files[f].mtime \in Nat /\ files[f].mtime <= clock
    BY <1>1, <1>6, FileIs DEF TimesOK, LoggerTypeOK
  <2>3. ASSUME NEW i \in DOMAIN files[f].lines PROVE files[f].lines[i].at = clock
    <3>1. files[f].lines[i].at \in Nat
      BY FileIs DEF LoggerTypeOK
    <3>2. files[f].born <= files[f].lines[i].at /\ files[f].lines[i].at <= files[f].mtime
      BY DEF TimesOK
    <3> QED
      BY <1>3, <2>2, <3>1, <3>2
  <2> QED
    BY <2>1, <2>3
<1>7. ASSUME NEW f \in DOMAIN files'
      PROVE  /\ f \in DOMAIN files \/ f = logFile'
             /\ (files[f].born <= files[f].mtime /\ files[f].mtime <= clock)'
             /\ (\A i \in DOMAIN files[f].lines : /\ files[f].born <= files[f].lines[i].at
                                                  /\ files[f].lines[i].at <= files[f].mtime)'
  <2>1. CASE f \in DOMAIN files
    BY <1>1, <2>1 DEF TimesOK
  <2>2. CASE f \notin DOMAIN files
    <3>1. f = logFile' /\ files'[f].born = clock /\ files'[f].mtime = clock /\ files'[f].lines = <<>>
      BY <1>1, <2>2
    <3> QED
      BY <1>3, <1>4, <3>1
  <2> QED
    BY <2>1, <2>2
<1>8. TimesOK'
  BY <1>7 DEF TimesOK
<1>9. ASSUME NEW f \in DOMAIN files'
      PROVE  /\ Cardinality(Late(f)') <= 1 + failures
             /\ f = logFile' => Cardinality(Late(f)') <= failures
  <2>1. CASE f = logFile'
    <3>1. \A i \in DOMAIN files'[f].lines : files'[f].lines[i].at = clock
      <4>1. CASE f \in DOMAIN files
        BY <1>1, <1>6, <2>1, <4>1
      <4>2. CASE f \notin DOMAIN files
        BY <1>1, <1>4, <2>1, <4>2
      <4> QED
        BY <4>1, <4>2
    <3>2. files'[f].born = clock
      BY <1>1, <2>1
    <3>3. Late(f)' = {}
      BY <3>1, <3>2, LateIs
    <3> QED
      BY <1>3, <3>3, NoLines
  <2>2. CASE f # logFile'
    <3>1. f \in DOMAIN files /\ files'[f].born = files[f].born /\ files'[f].lines = files[f].lines
      BY <1>7, <1>1, <2>2
    <3>2. Late(f)' = Late(f)
      BY <3>1, LateIs
    <3>3. Cardinality(Late(f)) <= 1 + failures
      BY <3>1 DEF LateOK
    <3> QED
      BY <2>2, <3>2, <3>3
  <2> QED
    BY <2>1, <2>2
<1>10. LateOK'
  BY <1>2, <1>9 DEF LateOK
<1>11. ASSUME NEW f \in DOMAIN files'
       PROVE  LET limit == files'[f].opens * (FileMaxLine + 1) + failures
              IN  /\ Len(files'[f].lines) <= limit
                  /\ f = logFile' => Len(files'[f].lines) + (FileMaxLine + 1) <= limit
  <2>1. CASE f \notin DOMAIN files
    <3>1. Len(files'[f].lines) = 0 /\ files'[f].opens = 1
      BY <1>1, <1>4, <1>7, <2>1
    <3>2. 1 * (FileMaxLine + 1) = FileMaxLine + 1
      BY <1>3
    <3>3. 0 <= (FileMaxLine + 1) + failures /\ 0 + (FileMaxLine + 1) <= (FileMaxLine + 1) + failures
      BY <1>3
    <3> QED
      BY <3>1, <3>2, <3>3
  <2>2. CASE f \in DOMAIN files /\ f # logFile'
    BY <1>1, <2>2 DEF LengthOK
  <2>3. CASE f \in DOMAIN files /\ f = logFile'
    <3> DEFINE n == Len(files[f].lines)
               o == files[f].opens
    <3>1. n \in Nat /\ o \in Nat
      BY <2>3, FileIs DEF LoggerTypeOK
    <3>2. f = logFile
      BY <1>6, <2>3
    <3>3. n + (FileMaxLine + 1) <= o * (FileMaxLine + 1) + failures + FileMaxLine + (IF Rotating THEN 1 ELSE 0)
      BY <2>3, <3>2 DEF LengthOK
    <3>4. Len(files'[f].lines) = n /\ files'[f].opens = o + 1
      BY <1>1, <2>3
    <3> HIDE DEF n, o
    <3>5. o * (FileMaxLine + 1) \in Nat /\ (o + 1) * (FileMaxLine + 1) = o * (FileMaxLine + 1) + (FileMaxLine + 1)
      BY <1>3, <3>1
    <3>6. n + (FileMaxLine + 1) <= (o + 1) * (FileMaxLine + 1) + failures
      BY <1>3, <3>1, <3>3, <3>5
    <3>7. n <= (o + 1) * (FileMaxLine + 1) + failures
      BY <1>3, <3>1, <3>5, <3>6
    <3> QED
      BY <3>4, <3>6, <3>7
  <2> QED
    BY <2>1, <2>2, <2>3
<1>12. LengthOK'
  <2>1. ASSUME NEW f \in DOMAIN files'
        PROVE  /\ files'[f].opens * (FileMaxLine + 1) + failures \in Nat
               /\ Len(files'[f].lines) \in Nat
    <3>1. files'[f].opens \in Nat /\ Len(files'[f].lines) \in Nat
      <4>1. CASE f \in DOMAIN files
        <5>1. files[f].opens \in Nat /\ files[f].opens + 1 \in Nat /\ Len(files[f].lines) \in Nat
          BY <4>1, FileIs DEF LoggerTypeOK
        <5>2. /\ files'[f].lines = files[f].lines
              /\ files'[f].opens = files[f].opens \/ files'[f].opens = files[f].opens + 1
          BY <1>1, <4>1
        <5> QED
          BY <5>1, <5>2
      <4>2. CASE f \notin DOMAIN files
        BY <1>1, <1>4, <4>2
      <4> QED
        BY <4>1, <4>2
    <3> QED
      BY <1>3, <3>1
  <2>2. ASSUME NEW f \in DOMAIN files', f = logFile'
        PROVE  LET room == files'[f].opens * (FileMaxLine + 1) + failures
                   before == Len(files'[f].lines) + (FileMaxLine + 1)
               IN  before <= room + 0 /\ before <= room + FileMaxLine + 0
    <3> DEFINE room == files'[f].opens * (FileMaxLine + 1) + failures
               n == Len(files'[f].lines)
    <3>1. n + (FileMaxLine + 1) <= room /\ room \in Nat /\ n \in Nat
      BY <1>11, <2>1, <2>2
    <3> HIDE DEF room, n
    <3>2. n + (FileMaxLine + 1) <= room + 0 /\ n + (FileMaxLine + 1) <= room + FileMaxLine + 0
      BY <1>3, <3>1
    <3> QED
      BY <3>2 DEF room, n
  <2> QED
    BY <1>2, <1>11, <2>2 DEF LengthOK
<1> QED
  BY <1>5, <1>8, <1>10, <1>12

(* The lines are where they were, and the console goes on after them.      *)
LEMMA LinesKept ==
  ASSUME LoggerTypeOK, IsFiniteSet(Filed), FilesMatchConsole,
         DOMAIN files \subseteq DOMAIN files',
         \A f \in DOMAIN files : files'[f].lines = files[f].lines,
         \A f \in DOMAIN files' \ DOMAIN files : files'[f].lines = <<>>,
         Settled' = Settled, MostLost \in Nat, MostLost' \in Nat, MostLost <= MostLost',
         \A k \in 1..Settled : console'[k] = console[k]
  PROVE  IsFiniteSet(Filed)' /\ FilesMatchConsole'
<1>1. Filed' = Filed
  <2>1. ASSUME NEW p PROVE p \in Filed' <=> p \in Filed
    <3>1. p \in Filed <=> \E f \in DOMAIN files : p \in {f} \X DOMAIN files[f].lines
      BY DEF Filed
    <3>2. p \in Filed' <=> \E f \in DOMAIN files' : p \in {f} \X DOMAIN files'[f].lines
      BY DEF Filed
    <3>3. \A f \in DOMAIN files' \ DOMAIN files : {f} \X DOMAIN files'[f].lines = {}
      OBVIOUS
    <3> QED
      BY <3>1, <3>2, <3>3
  <2> QED
    BY <2>1
<1>2. \A p : UpTo(p)' = UpTo(p)
  BY <1>1 DEF UpTo
<1>3. PICK lost \in 0..MostLost :
        /\ lost + Cardinality(Filed) = Settled
        /\ \A p \in Filed : files[p[1]].lines[p[2]].line = console[lost + Cardinality(UpTo(p))]
  BY DEF FilesMatchConsole
<1>4. ASSUME NEW p \in Filed
      PROVE  files'[p[1]].lines[p[2]].line = console'[lost + Cardinality(UpTo(p))]
  <2>1. p[1] \in DOMAIN files
    BY DEF Filed
  <2>2. UpTo(p) \in SUBSET Filed /\ p \in UpTo(p)
    <3>1. p[2] \in DOMAIN files[p[1]].lines
      BY DEF Filed
    <3>2. p[2] \in Nat
      BY <2>1, <3>1, FileIs DEF LoggerTypeOK
    <3> QED
      BY <3>2 DEF UpTo
  <2>3. Cardinality(UpTo(p)) \in Nat \ {0} /\ Cardinality(UpTo(p)) <= Cardinality(Filed)
    BY <2>2, FS_Subset, FS_CardinalityType, FS_EmptySet
  <2>4. Cardinality(Filed) \in Nat
    BY FS_CardinalityType
  <2>5. lost + Cardinality(UpTo(p)) \in 1..Settled
    BY <1>3, <2>3, <2>4
  <2> QED
    BY <1>3, <2>1, <2>5
<1>5. lost \in 0..MostLost'
  BY <1>3
<1>6. FilesMatchConsole'
  BY <1>1, <1>2, <1>3, <1>4, <1>5 DEF FilesMatchConsole
<1> QED
  BY <1>1, <1>6

(* An attempt that failed makes up for the line before it.                 *)
LEMMA LostIs ==
  ASSUME LoggerTypeOK
  PROVE  /\ MostLost \in Nat
         /\ splitType' = splitType /\ failures' = failures => MostLost' = MostLost
         /\ splitType' = splitType /\ failures' = failures + 1 =>
              MostLost' \in Nat /\ MostLost + 1 <= MostLost'
         /\ splitType = "hour" /\ failures > 0 => MostLost = failures + FileMaxLine
<1>1. failures \in Nat /\ FileMaxLine \in Nat
  BY Numbers DEF LoggerTypeOK
<1>2. ASSUME splitType' = splitType, failures' = failures + 1
      PROVE  MostLost' = failures + 1 + (IF splitType = "hour" THEN FileMaxLine ELSE 0)
  BY <1>1, <1>2 DEF MostLost
<1>3. CASE splitType = "hour" /\ failures > 0
  BY <1>1, <1>2, <1>3 DEF MostLost
<1>4. CASE ~(splitType = "hour" /\ failures > 0)
  BY <1>1, <1>2, <1>4 DEF MostLost
<1> QED
  BY <1>3, <1>4

LEMMA ConsoleIs ==
  ASSUME LoggerTypeOK
  PROVE  Len(console) \in Nat /\ DOMAIN console = 1..Len(console) /\ \A i \in DOMAIN console : console[i] \in Writers \X Nat
<1>1. Len(console) \in Nat /\ DOMAIN console = 1..Len(console)
  BY LenProperties DEF LoggerTypeOK
<1> QED
  BY <1>1, ElementOfSeq DEF LoggerTypeOK

LEMMA InitOkPreserves ==
  ASSUME LoggerInv, UNCHANGED splitType, NEW w \in Writers, InitOk(w)
  PROVE  LoggerInv'
<1>1. LoggerTypeOK /\ MutexOK /\ StampsOK /\ TimesOK /\ LateOK /\ LengthOK /\ LostOK /\ FilesOK /\ CleanupOK
  BY DEF LoggerInv
<1>2. /\ initOnce = "running" /\ files = <<>> /\ console = <<>>
      /\ \A v \in Writers : pc[v] \in {"idle", "init"}
  BY <1>1 DEF InitOk, Go, MutexOK
<1>3. /\ NewFile /\ OpenFile /\ initOnce' = "done" /\ mainloop' = "wait" /\ lineCount' = 0 /\ failures' = failures
      /\ UNCHANGED <<splitType, clock, console, wMutex, deleteFileDate, date, todo, spared>>
  BY DEF InitOk, NewFile
<1>4. pc' \in [Writers -> {"idle", "init", "lock"}] /\ \A v \in Writers : pc'[v] # "init"
  BY <1>1, <1>2 DEF InitOk, Go, MutexOK, LoggerTypeOK
<1>5. DOMAIN files = {} /\ Len(files) = 0 /\ Len(console) = 0 /\ DOMAIN files = 1..Len(files)
  BY <1>1, <1>2, FileIs DEF LoggerTypeOK
<1>6. /\ files' \in Seq(File) /\ logFile' = Len(files') /\ logFile' \in Nat \ {0}
      /\ DOMAIN files' = DOMAIN files \cup {logFile'}
      /\ logFile' \notin DOMAIN files => files'[logFile'].lines = <<>> /\ ~files'[logFile'].removed
  BY <1>1, <1>3, OpenIs DEF LoggerTypeOK
<1>7. LoggerTypeOK'
  <2>1. todo = {}
    BY <1>1, <1>5 DEF LoggerTypeOK
  <2> QED
    BY <1>1, <1>3, <1>4, <1>6, <2>1 DEF LoggerTypeOK
<1>8. MutexOK'
  BY <1>3, <1>4 DEF MutexOK
<1>9. ~Rotating' /\ Settled' = Settled
  BY <1>2, <1>3, <1>4, <1>5 DEF Rotating, Settled
<1>10. StampsOK' /\ TimesOK' /\ LateOK' /\ LengthOK'
  BY <1>1, <1>3, <1>9, NewFileAges
<1>11. LostOK'
  BY <1>6 DEF LostOK
<1>12. IsFiniteSet(Filed)' /\ FilesMatchConsole'
  <2>1. MostLost \in Nat /\ MostLost' = MostLost
    BY <1>1, <1>3, LostIs
  <2>2. \A f \in DOMAIN files' \ DOMAIN files : files'[f].lines = <<>>
    BY <1>6
  <2> QED
    BY <1>1, <1>3, <1>5, <1>9, <2>1, <2>2, LinesKept DEF FilesOK
<1>13. FilesOK'
  BY <1>4, <1>12 DEF FilesOK
<1>14. CleanupOK'
  BY <1>3, <1>5, <1>6 DEF CleanupOK
<1> QED
  BY <1>7, <1>8, <1>10, <1>11, <1>13, <1>14 DEF LoggerInv

LEMMA InitFailsPreserves ==
  ASSUME LoggerInv, UNCHANGED splitType, NEW w \in Writers, InitFails(w)
  PROVE  LoggerInv'
<1>1. LoggerTypeOK /\ MutexOK /\ StampsOK /\ CleanupOK
  BY DEF LoggerInv
<1>2. /\ initOnce = "running" /\ files = <<>> /\ console = <<>> /\ lineCount = 0
      /\ \A v \in Writers : pc[v] \in {"idle", "init"}
  BY <1>1 DEF InitFails, Go, MutexOK
<1>3. /\ initOnce' = "done" /\ failures' = failures + 1
      /\ UNCHANGED <<splitType, clock, console, files, current, wMutex, cleanup>>
  BY DEF InitFails, NewFileFails
<1>4. pc' \in [Writers -> {"idle", "init"}] /\ \A v \in Writers : pc'[v] # "init"
  BY <1>1, <1>2 DEF InitFails, Go, MutexOK, LoggerTypeOK
<1>5. DOMAIN files = {} /\ Len(files) = 0 /\ Len(console) = 0 /\ logFile = 0 /\ failures \in Nat
  BY <1>1, <1>2, FileIs DEF LoggerTypeOK
<1>6. LoggerTypeOK'
  BY <1>1, <1>3, <1>4, <1>5 DEF LoggerTypeOK, current, cleanup
<1>7. MutexOK'
  BY <1>3, <1>4 DEF MutexOK
<1>8. StampsOK'
  BY <1>1, <1>3, <1>5 DEF StampsOK, current
<1>9. TimesOK' /\ LateOK' /\ LengthOK'
  BY <1>3, <1>5 DEF TimesOK, LateOK, LengthOK
<1>10. ~Rotating' /\ Settled' = 0 /\ Filed' = {}
  BY <1>3, <1>4, <1>5 DEF Rotating, Settled, Filed
<1>11. MostLost' \in Nat /\ 1 <= MostLost'
  BY <1>1, <1>3, LostIs
<1>12. LostOK'
  <2>1. lineCount' = 0 /\ failures' > 0
    BY <1>2, <1>3, <1>5 DEF current
  <2>2. 0 + 1 <= MostLost' + 0
    <3>1. \A m \in Nat : 1 <= m => 0 + 1 <= m + 0
      OBVIOUS
    <3> QED
      BY <1>11, <3>1
  <2> QED
    BY <1>10, <2>1, <2>2 DEF LostOK
<1>13. FilesOK'
  <2>1. 0 + Cardinality({}) = 0 /\ 0 \in 0..MostLost'
    BY <1>11, NoLines
  <2>2. FilesMatchConsole'
    BY <1>10, <2>1 DEF FilesMatchConsole
  <2> QED
    BY <1>4, <1>10, <2>2, FS_EmptySet DEF FilesOK
<1>14. CleanupOK'
  BY <1>1, <1>3, CleanupStays DEF cleanup, LoggerTypeOK
<1> QED
  BY <1>6, <1>7, <1>8, <1>9, <1>12, <1>13, <1>14 DEF LoggerInv

LEMMA HourPassesPreserves ==
  ASSUME LoggerInv, UNCHANGED splitType, HourPasses
  PROVE  LoggerInv'
<1>1. LoggerTypeOK /\ MutexOK /\ StampsOK /\ TimesOK /\ LateOK /\ LengthOK /\ LostOK /\ FilesOK /\ CleanupOK
  BY DEF LoggerInv
<1>2. /\ clock \in Nat /\ clock' = clock + 1
      /\ UNCHANGED <<splitType, initOnce, console, files, current, wMutex, pc, cleanup, failures>>
  BY <1>1 DEF HourPasses, LoggerTypeOK
<1>3. LoggerTypeOK'
  BY <1>1, <1>2 DEF LoggerTypeOK, current, cleanup
<1>4. MutexOK'
  BY <1>1, <1>2 DEF MutexOK, current, cleanup
<1>5. StampsOK'
  BY <1>1, <1>2 DEF StampsOK, current, YearDay, Hour, Day
<1>6. TimesOK'
  <2>1. \A f \in DOMAIN files : files[f].mtime \in Nat
    BY <1>1, FileIs DEF LoggerTypeOK
  <2>2. \A f \in DOMAIN files : files[f].mtime <= clock'
    BY <1>1, <1>2, <2>1 DEF TimesOK
  <2> QED
    BY <1>1, <1>2, <2>2 DEF TimesOK
<1>7. Rotating' <=> Rotating
  BY <1>2 DEF Rotating
<1>8. LateOK'
  <2>1. Period(clock) \in Nat /\ Period(clock + 1) \in Nat /\ Period(clock) <= Period(clock + 1) /\ Cycle \in Nat
    <3>1. splitType \in {"date", "hour"} /\ clock + 1 \in Nat /\ clock <= clock + 1
      BY <1>1, <1>2 DEF LoggerTypeOK
    <3> QED
      BY <1>2, <3>1, PeriodGrows
  <2>2. ASSUME NEW f \in DOMAIN files PROVE Period(files[f].born) \in Nat
    <3>1. splitType \in {"date", "hour"} /\ files[f].born \in Nat /\ files[f].born <= files[f].born
      BY <1>1, FileIs DEF LoggerTypeOK
    <3> QED
      BY <3>1, PeriodGrows
  <2>3. \A f : Late(f)' = Late(f)
    BY <1>2 DEF Late, Within, Period, Cycle
  <2>4. \A f \in DOMAIN files : Period(files[f].born) + Cycle <= Period(clock)
                                  => Period(files[f].born) + Cycle <= Period(clock + 1)
    BY <2>1, <2>2
  <2>5. Period(clock)' = Period(clock + 1) /\ Cycle' = Cycle /\ \A t : Period(t)' = Period(t)
    BY <1>2 DEF Period, Cycle, Day
  <2>6. \A f : (Period(files[f].born))' = Period(files[f].born)
    BY <1>2 DEF Period, Day
  <2> QED
    BY <1>1, <1>2, <1>7, <2>3, <2>4, <2>5, <2>6 DEF LateOK, current
<1>9. LengthOK'
  BY <1>1, <1>2, <1>7 DEF LengthOK, current
<1>10. LostOK' /\ FilesOK'
  BY <1>1, <1>2, LinesStay DEF SameTasks
<1>11. CleanupOK'
  BY <1>1, <1>2, CleanupStays DEF cleanup
<1> QED
  BY <1>3, <1>4, <1>5, <1>6, <1>8, <1>9, <1>10, <1>11 DEF LoggerInv

-----------------------------------------------------------------------------
(* Writing a line *)

LEMMA WriteConsolePreserves ==
  ASSUME LoggerInv, UNCHANGED splitType, NEW w \in Writers, WriteConsole(w)
  PROVE  LoggerInv'
<1>1. LoggerTypeOK /\ MutexOK /\ StampsOK /\ TimesOK /\ LateOK /\ LengthOK /\ LostOK /\ FilesOK /\ CleanupOK
  BY DEF LoggerInv
<1>2. /\ console' = Append(console, <<w, LinesOf(w) + 1>>)
      /\ UNCHANGED <<splitType, clock, initOnce, files, current, wMutex, cleanup, failures>>
  BY DEF WriteConsole
<1>3. /\ pc[w] = "console" /\ pc' = [pc EXCEPT ![w] = "file"] /\ initOnce = "done" /\ wMutex = w
      /\ \A v \in Writers \ {w} : pc[v] \notin {"console", "file", "rotate"}
  BY <1>1 DEF WriteConsole, Go, MutexOK
<1>4. /\ pc'[w] = "file" /\ pc' \in [Writers -> {"idle", "init", "lock", "console", "file", "rotate"}]
      /\ \A v \in Writers \ {w} : pc'[v] = pc[v]
  BY <1>1, <1>3 DEF LoggerTypeOK
<1> DEFINE n == Len(console)
           mine == {i \in DOMAIN console : console[i][1] = w}
<1>5. n \in Nat /\ DOMAIN console = 1..n
  BY <1>1, ConsoleIs
<1>6. IsFiniteSet(mine) /\ LinesOf(w) \in Nat
  <2>1. IsFiniteSet(DOMAIN console)
    BY <1>5, FS_Interval
  <2>2. IsFiniteSet(mine)
    BY <2>1, FS_Subset
  <2> QED
    BY <2>2, FS_CardinalityType DEF LinesOf
<1>7. /\ console' \in Seq(Writers \X Nat) /\ Len(console') = n + 1 /\ DOMAIN console' = 1..n + 1
      /\ console'[n + 1] = <<w, LinesOf(w) + 1>>
      /\ \A k \in 1..n : console'[k] = console[k]
  <2>1. <<w, LinesOf(w) + 1>> \in Writers \X Nat /\ console \in Seq(Writers \X Nat)
    BY <1>1, <1>6 DEF LoggerTypeOK
  <2>2. /\ console' \in Seq(Writers \X Nat) /\ Len(console') = n + 1
        /\ console'[n + 1] = <<w, LinesOf(w) + 1>>
        /\ \A k \in 1..n : console'[k] = console[k]
    BY <1>2, <2>1, AppendProperties
  <2> QED
    BY <2>2, LenProperties
<1>8. LinesOf(w)' = LinesOf(w) + 1
  <2>1. {i \in DOMAIN console' : console'[i][1] = w} = mine \cup {n + 1}
    BY <1>5, <1>7
  <2>2. n + 1 \notin mine
    BY <1>5
  <2>3. Cardinality(mine \cup {n + 1}) = Cardinality(mine) + 1
    BY <1>6, <2>2, FS_AddElement
  <2> QED
    BY <2>1, <2>3 DEF LinesOf
<1>9. LoggerTypeOK'
  BY <1>1, <1>2, <1>4, <1>7 DEF LoggerTypeOK, current, cleanup
<1>10. MutexOK'
  BY <1>1, <1>2, <1>3, <1>4 DEF MutexOK
<1>11. Rotating' <=> Rotating
  BY <1>3, <1>4 DEF Rotating
<1>12. StampsOK' /\ TimesOK' /\ LateOK' /\ LengthOK'
  BY <1>1, <1>2, <1>11, AgesStay
<1>13. Settled' = Settled /\ Settled = n
  <2>1. Settled = n
    BY <1>3 DEF Settled
  <2>2. Settled' = n + 1 - 1
    BY <1>4, <1>7 DEF Settled
  <2> QED
    BY <1>5, <2>1, <2>2
<1>14. MostLost \in Nat /\ MostLost' = MostLost
  BY <1>1, <1>2, LostIs
<1>15. LostOK'
  BY <1>1, <1>2, <1>11, <1>13, <1>14 DEF LostOK, current
<1>16. IsFiniteSet(Filed)' /\ FilesMatchConsole'
  BY <1>1, <1>2, <1>7, <1>13, <1>14, LinesKept DEF FilesOK
<1>17. FilesOK'
  <2>1. console' # <<>> /\ console'[Len(console')] = <<w, LinesOf(w)'>>
    BY <1>5, <1>7, <1>8
  <2>2. \A v \in Writers : pc'[v] = "file" => v = w
    BY <1>3, <1>4
  <2> QED
    BY <1>16, <2>1, <2>2 DEF FilesOK
<1>18. CleanupOK'
  BY <1>1, <1>2, CleanupStays DEF cleanup, LoggerTypeOK
<1> QED
  BY <1>9, <1>10, <1>12, <1>15, <1>17, <1>18 DEF LoggerInv

(* What writing does to the ages, the lengths and the lines of the files.  *)
LEMMA WriteAges ==
  ASSUME LoggerTypeOK, StampsOK, TimesOK, LateOK, LengthOK, UNCHANGED <<splitType, clock, failures>>,
         ~Rotating, Rotating', NEW l \in DOMAIN files, l = logFile, NEW line \in Line, line.at = clock,
         Put(l, line),
         UNCHANGED <<logFile, createFileDate, createFileHour>>, lineCount' = lineCount + 1
  PROVE  StampsOK' /\ TimesOK' /\ LateOK' /\ LengthOK'
<1> DEFINE n == Len(files[l].lines)
<1>1. /\ files' \in Seq(File) /\ Len(files') = Len(files) /\ DOMAIN files' = DOMAIN files
      /\ \A f \in DOMAIN files :
           /\ files'[f].born = files[f].born /\ files'[f].opens = files[f].opens
           /\ f # l => files'[f].mtime = files[f].mtime /\ files'[f].lines = files[f].lines
      /\ files'[l].mtime = clock
      /\ Len(files'[l].lines) = n + 1
      /\ DOMAIN files'[l].lines = DOMAIN files[l].lines \cup {n + 1}
      /\ n + 1 \notin DOMAIN files[l].lines
      /\ \A i \in DOMAIN files[l].lines : files'[l].lines[i] = files[l].lines[i]
      /\ files'[l].lines[n + 1] = line
  <2>1. files \in Seq(File) /\ clock \in Nat
    BY DEF LoggerTypeOK
  <2> QED
    BY <2>1, WriteIs
<1> HIDE DEF n
<1>2. clock \in Nat /\ failures \in Nat /\ lineCount \in Nat /\ FileMaxLine \in Nat /\ splitType \in {"date", "hour"}
  BY Numbers DEF LoggerTypeOK
<1>3. \A f \in DOMAIN files : files[f].born \in Nat /\ files[f].mtime \in Nat /\ files[f].opens \in Nat /\ Len(files[f].lines) \in Nat
  BY FileIs DEF LoggerTypeOK
<1>4. StampsOK'
  BY <1>1 DEF StampsOK, YearDay, Hour, Day
<1>5. ASSUME NEW f \in DOMAIN files
      PROVE  /\ (files[f].born <= files[f].mtime /\ files[f].mtime <= clock)'
             /\ (\A i \in DOMAIN files[f].lines : /\ files[f].born <= files[f].lines[i].at
                                                  /\ files[f].lines[i].at <= files[f].mtime)'
  <2>1. CASE f # l
    BY <1>1, <2>1 DEF TimesOK
  <2>2. CASE f = l
    <3>1. files[l].born <= clock
      BY <1>2, <1>3 DEF TimesOK
    <3>2. ASSUME NEW i \in DOMAIN files[l].lines
          PROVE  files[l].born <= files[l].lines[i].at /\ files[l].lines[i].at <= clock
      <4>1. files[l].lines[i].at \in Nat
        BY FileIs DEF LoggerTypeOK
      <4> QED
        BY <1>2, <1>3, <4>1 DEF TimesOK
    <3>3. clock <= clock
      BY <1>2
    <3> QED
      BY <1>1, <2>2, <3>1, <3>2, <3>3
  <2> QED
    BY <2>1, <2>2
<1>6. TimesOK'
  BY <1>1, <1>5 DEF TimesOK
<1>7. ASSUME NEW f \in DOMAIN files
      PROVE  Cardinality(Late(f)') <= 1 + failures
  <2>1. CASE f # l
    <3>1. files'[f].born = files[f].born /\ files'[f].lines = files[f].lines
      BY <1>1, <2>1
    <3>2. \A i : i \in Late(f)' <=> i \in Late(f)
      BY <3>1, LateIs
    <3>3. Late(f)' = Late(f)
      BY <3>2
    <3> QED
      BY <3>3 DEF LateOK
  <2>2. CASE f = l
    <3>1. IsFiniteSet(Late(l)) /\ Cardinality(Late(l)) \in Nat
      BY LateFinite
    <3>2. CASE Cardinality(Late(l)) <= failures
      <4>1. ASSUME NEW i \in Late(l)' PROVE i \in Late(l) \cup {n + 1}
        BY <1>1, LateIs
      <4>2. Late(l)' \in SUBSET (Late(l) \cup {n + 1})
        BY <4>1
      <4>3. /\ IsFiniteSet(Late(l) \cup {n + 1})
            /\ Cardinality(Late(l) \cup {n + 1}) <= Cardinality(Late(l)) + 1
            /\ Cardinality(Late(l) \cup {n + 1}) \in Nat
        <5>1. /\ IsFiniteSet(Late(l) \cup {n + 1})
              /\ \/ Cardinality(Late(l) \cup {n + 1}) = Cardinality(Late(l)) + 1
                 \/ Cardinality(Late(l) \cup {n + 1}) = Cardinality(Late(l))
          BY <3>1, FS_AddElement
        <5> QED
          BY <3>1, <5>1
      <4>4. Cardinality(Late(l)') <= Cardinality(Late(l) \cup {n + 1}) /\ Cardinality(Late(l)') \in Nat
        BY <4>2, <4>3, FS_Subset, FS_CardinalityType
      <4> QED
        BY <1>2, <2>2, <3>1, <3>2, <4>3, <4>4
    <3>3. CASE Period(files[l].born) + Cycle <= Period(clock)
      <4>1. ASSUME NEW i \in Late(l)' PROVE i \in Late(l)
        <5>1. /\ i \in DOMAIN files'[l].lines
              /\ Period(files'[l].lines[i].at) < Period(files[l].born) + Cycle
              /\ Period(files'[l].lines[i].at) # Period(files[l].born)
          BY <1>1, <4>1, LateIs
        <5>2. Period(clock) \in Nat /\ Period(files[l].born) \in Nat /\ Cycle \in Nat
          <6>1. clock <= clock /\ files[l].born <= files[l].born
            BY <1>2, <1>3
          <6> QED
            BY <1>2, <1>3, <6>1, PeriodGrows
        <5>3. i # n + 1
          <6>1. i = n + 1 => Period(clock) < Period(files[l].born) + Cycle
            BY <1>1, <5>1
          <6> QED
            BY <3>3, <5>2, <6>1
        <5> QED
          BY <1>1, <5>1, <5>3, LateIs
      <4>2. Late(l)' \in SUBSET Late(l)
        BY <4>1
      <4>3. Cardinality(Late(l)') <= Cardinality(Late(l)) /\ Cardinality(Late(l)') \in Nat
        BY <3>1, <4>2, FS_Subset, FS_CardinalityType
      <4>4. Cardinality(Late(l)) <= 1 + failures
        BY DEF LateOK
      <4> QED
        BY <1>2, <2>2, <3>1, <4>3, <4>4
    <3> QED
      BY <2>2, <3>2, <3>3 DEF LateOK
  <2> QED
    BY <2>1, <2>2
<1>8. LateOK'
  BY <1>1, <1>7 DEF LateOK
<1>9. ASSUME NEW f \in DOMAIN files
      PROVE  LET room == files'[f].opens * (FileMaxLine + 1) + failures
                 before == Len(files'[f].lines) + (FileMaxLine + 1)
             IN  /\ Len(files'[f].lines) <= room
                 /\ f = l => before <= room + lineCount' /\ before <= room + FileMaxLine + 1
  <2>1. CASE f # l
    BY <1>1, <2>1 DEF LengthOK
  <2>2. CASE f = l
    <3> DEFINE r == files[l].opens * (FileMaxLine + 1) + failures
    <3>1. r \in Nat /\ n \in Nat
      BY <1>2, <1>3 DEF n
    <3>2. n + (FileMaxLine + 1) <= r + lineCount /\ n + (FileMaxLine + 1) <= r + FileMaxLine + 0
      BY DEF LengthOK, n
    <3>3. Len(files'[l].lines) = n + 1 /\ files'[l].opens = files[l].opens
      BY <1>1
    <3>4. r = files'[l].opens * (FileMaxLine + 1) + failures
      BY <3>3
    <3> HIDE DEF r, n
    <3>5. /\ n + 1 <= r /\ (n + 1) + (FileMaxLine + 1) <= r + (lineCount + 1)
          /\ (n + 1) + (FileMaxLine + 1) <= r + FileMaxLine + 1
      BY <1>2, <3>1, <3>2
    <3> QED
      BY <2>2, <3>3, <3>4, <3>5
  <2> QED
    BY <2>1, <2>2
<1>10. LengthOK'
  BY <1>1, <1>9 DEF LengthOK
<1> QED
  BY <1>4, <1>6, <1>8, <1>10

(* The new line is the last of all, as it is on the console.               *)
LEMMA WriteMatches ==
  ASSUME LoggerTypeOK, IsFiniteSet(Filed), FilesMatchConsole, console' = console,
         NEW l \in DOMAIN files, l = Len(files), NEW n, n = Len(files[l].lines), NEW line \in Line, clock \in Nat,
         Put(l, line),
         MostLost' = MostLost,
         Settled + 1 = Len(console), Settled' = Len(console), line.line = console[Len(console)]
  PROVE  IsFiniteSet(Filed)' /\ FilesMatchConsole'
<1> DEFINE new == <<l, n + 1>>
<1>1. /\ DOMAIN files' = DOMAIN files
      /\ \A f \in DOMAIN files : f # l => files'[f].lines = files[f].lines
      /\ DOMAIN files'[l].lines = DOMAIN files[l].lines \cup {n + 1}
      /\ n + 1 \notin DOMAIN files[l].lines
      /\ \A i \in DOMAIN files[l].lines : files'[l].lines[i] = files[l].lines[i]
      /\ files'[l].lines[n + 1] = line
  <2>1. files \in Seq(File)
    BY DEF LoggerTypeOK
  <2> QED
    BY <2>1, WriteIs
<1>2. /\ DOMAIN files = 1..Len(files) /\ Len(files) \in Nat /\ n \in Nat
      /\ \A f \in DOMAIN files : DOMAIN files[f].lines = 1..Len(files[f].lines) /\ Len(files[f].lines) \in Nat
  BY FileIs DEF LoggerTypeOK
<1>3. \A f, i : <<f, i>> \in Filed <=> f \in DOMAIN files /\ i \in DOMAIN files[f].lines
  BY DEF Filed
<1>4. \A p \in Filed : p = <<p[1], p[2]>> /\ p[1] \in DOMAIN files /\ p[2] \in DOMAIN files[p[1]].lines
  BY DEF Filed
<1>5. \A f, i : <<f, i>> \in Filed' <=> f \in DOMAIN files' /\ i \in DOMAIN files'[f].lines
  BY DEF Filed
<1>6. \A p \in Filed' : p = <<p[1], p[2]>> /\ p[1] \in DOMAIN files' /\ p[2] \in DOMAIN files'[p[1]].lines
  BY DEF Filed
<1>7. new \notin Filed /\ Filed' = Filed \cup {new}
  <2>1. new \notin Filed
    BY <1>1, <1>3
  <2>2. ASSUME NEW p \in Filed' PROVE p \in Filed \cup {new}
    <3>1. p = <<p[1], p[2]>> /\ p[1] \in DOMAIN files /\ p[2] \in DOMAIN files'[p[1]].lines
      BY <1>1, <1>6
    <3>2. CASE p[1] = l
      <4>1. p[2] \in DOMAIN files[l].lines \/ p[2] = n + 1
        BY <1>1, <3>1, <3>2
      <4> QED
        BY <1>3, <3>1, <3>2, <4>1
    <3>3. CASE p[1] # l
      BY <1>1, <1>3, <3>1, <3>3
    <3> QED
      BY <3>2, <3>3
  <2>3. ASSUME NEW p \in Filed PROVE p \in Filed'
    <3>1. p = <<p[1], p[2]>> /\ p[1] \in DOMAIN files' /\ p[2] \in DOMAIN files'[p[1]].lines
      <4>1. p = <<p[1], p[2]>> /\ p[1] \in DOMAIN files /\ p[2] \in DOMAIN files[p[1]].lines
        BY <1>4
      <4>2. CASE p[1] = l
        BY <1>1, <4>1, <4>2
      <4>3. CASE p[1] # l
        BY <1>1, <4>1, <4>3
      <4> QED
        BY <4>2, <4>3
    <3> QED
      BY <1>5, <3>1
  <2>4. new \in Filed'
    BY <1>1, <1>5
  <2> QED
    BY <2>1, <2>2, <2>3, <2>4
<1>8. IsFiniteSet(Filed') /\ Cardinality(Filed') = Cardinality(Filed) + 1 /\ Cardinality(Filed) \in Nat
  BY <1>7, FS_AddElement, FS_CardinalityType
<1>9. ASSUME NEW p \in Filed
      PROVE  /\ p # new /\ p[1] \in 1..l /\ p[2] \in Nat
             /\ p[1] = l => p[2] <= n
             /\ files'[p[1]].lines[p[2]] = files[p[1]].lines[p[2]]
             /\ UpTo(p)' = UpTo(p)
  <2>1. p = <<p[1], p[2]>> /\ p[1] \in DOMAIN files /\ p[2] \in DOMAIN files[p[1]].lines
    BY <1>4
  <2>2. p[1] \in 1..l /\ p[2] \in Nat
    BY <1>2, <2>1
  <2>3. p[1] = l => p[2] <= n
    BY <1>2, <2>1
  <2>4. p # new
    BY <1>7
  <2>5. files'[p[1]].lines[p[2]] = files[p[1]].lines[p[2]]
    BY <1>1, <2>1
  <2>6. ~(new[1] < p[1] \/ (new[1] = p[1] /\ new[2] <= p[2]))
    BY <1>2, <2>2, <2>3
  <2>7. UpTo(p)' = {q \in Filed' : q[1] < p[1] \/ (q[1] = p[1] /\ q[2] <= p[2])}
    BY DEF UpTo
  <2>8. UpTo(p)' = UpTo(p)
    BY <1>7, <2>6, <2>7 DEF UpTo
  <2> QED
    BY <2>2, <2>3, <2>4, <2>5, <2>8
<1>10. UpTo(new)' = Filed'
  <2>1. UpTo(new)' = {q \in Filed' : q[1] < l \/ (q[1] = l /\ q[2] <= n + 1)}
    BY DEF UpTo
  <2>2. ASSUME NEW q \in Filed' PROVE q[1] < l \/ (q[1] = l /\ q[2] <= n + 1)
    <3>1. CASE q = new
      BY <1>2, <3>1
    <3>2. CASE q \in Filed
      <4>1. q[1] \in 1..l /\ q[2] \in Nat /\ (q[1] = l => q[2] <= n)
        BY <1>9, <3>2
      <4>2. l \in Nat
        BY <1>2
      <4> QED
        BY <1>2, <4>1, <4>2
    <3> QED
      BY <1>7, <3>1, <3>2
  <2> QED
    BY <2>1, <2>2
<1>11. PICK lost \in 0..MostLost :
         /\ lost + Cardinality(Filed) = Settled
         /\ \A p \in Filed : files[p[1]].lines[p[2]].line = console[lost + Cardinality(UpTo(p))]
  BY DEF FilesMatchConsole
<1>12. lost + Cardinality(Filed') = Settled' /\ lost \in Nat
  BY <1>8, <1>11
<1>13. ASSUME NEW p \in Filed'
       PROVE  files'[p[1]].lines[p[2]].line = console[lost + Cardinality(UpTo(p)')]
  <2>1. CASE p \in Filed
    BY <1>9, <1>11, <2>1
  <2>2. CASE p = new
    <3>1. lost + Cardinality(UpTo(p)') = Len(console)
      BY <1>10, <1>12, <2>2
    <3>2. files'[p[1]].lines[p[2]] = line
      BY <1>1, <2>2
    <3> QED
      BY <3>1, <3>2
  <2> QED
    BY <1>7, <2>1, <2>2
<1>14. FilesMatchConsole'
  BY <1>11, <1>12, <1>13 DEF FilesMatchConsole
<1> QED
  BY <1>8, <1>14

LEMMA WriteFilePreserves ==
  ASSUME LoggerInv, UNCHANGED splitType, NEW w \in Writers, WriteFile(w)
  PROVE  LoggerInv'
<1>1. LoggerTypeOK /\ MutexOK /\ StampsOK /\ TimesOK /\ LateOK /\ LengthOK /\ LostOK /\ FilesOK /\ CleanupOK
  BY DEF LoggerInv
<1>2. /\ lineCount' = lineCount + 1
      /\ UNCHANGED <<splitType, clock, initOnce, console, logFile, createFileDate, createFileHour, wMutex,
                     cleanup, failures>>
  BY DEF WriteFile
<1>3. /\ pc[w] = "file" /\ pc' = [pc EXCEPT ![w] = "rotate"] /\ initOnce = "done" /\ wMutex = w
      /\ \A v \in Writers \ {w} : pc[v] \notin {"console", "file", "rotate"}
  BY <1>1 DEF WriteFile, Go, MutexOK
<1>4. /\ pc'[w] = "rotate" /\ pc' \in [Writers -> {"idle", "init", "lock", "console", "file", "rotate"}]
      /\ \A v \in Writers \ {w} : pc'[v] = pc[v]
  BY <1>1, <1>3 DEF LoggerTypeOK
<1>5. /\ console # <<>> /\ console[Len(console)] = <<w, LinesOf(w)>>
      /\ Len(console) \in Nat /\ DOMAIN console = 1..Len(console)
  BY <1>1, <1>3, ConsoleIs DEF FilesOK
<1>6. ~Rotating /\ Rotating' /\ Settled + 1 = Len(console) /\ Settled' = Len(console)
  <2>1. ~Rotating /\ Rotating'
    BY <1>3, <1>4 DEF Rotating
  <2>2. Settled = Len(console) - 1
    BY <1>3 DEF Settled
  <2>3. Settled' = Len(console)
    BY <1>2, <1>3, <1>4 DEF Settled
  <2> QED
    BY <1>5, <2>1, <2>2, <2>3
<1>7. MutexOK'
  BY <1>1, <1>2, <1>3, <1>4 DEF MutexOK
<1>8. MostLost \in Nat /\ MostLost' = MostLost /\ lineCount \in Nat
  BY <1>1, <1>2, LostIs DEF LoggerTypeOK
<1>9. \A v \in Writers : pc'[v] # "file"
  BY <1>3, <1>4
<1>10. LoggerTypeOK' <=> files' \in Seq(File) /\ logFile = Len(files') /\ todo \subseteq 1..Len(files')
  BY <1>1, <1>2, <1>4 DEF LoggerTypeOK, cleanup
<1>11. CASE logFile = 0
  <2>1. files' = files /\ DOMAIN files = {} /\ logFile' = 0
    <3>1. DOMAIN files = 1..Len(files) /\ logFile = Len(files)
      BY <1>1, FileIs DEF LoggerTypeOK
    <3> QED
      BY <1>2, <1>11, <3>1 DEF WriteFile
  <2>2. LoggerTypeOK'
    BY <1>1, <1>10, <2>1 DEF LoggerTypeOK
  <2>3. StampsOK' /\ TimesOK' /\ LateOK' /\ LengthOK'
    BY <1>1, <1>2, <1>11, <2>1 DEF StampsOK, TimesOK, LateOK, LengthOK
  <2>4. lineCount = Settled /\ failures > 0 /\ lineCount + 1 <= MostLost + 0
    BY <1>1, <1>3, <1>6, <1>11 DEF LostOK
  <2>5. lineCount + 1 <= MostLost /\ lineCount + 1 = Len(console)
    BY <1>6, <1>8, <2>4
  <2>6. LostOK'
    <3>1. \A m \in Nat : lineCount + 1 <= m => (lineCount + 1) + 1 <= m + 1
      BY <1>8
    <3>2. lineCount' + 1 <= MostLost' + 1 /\ lineCount' = Settled' /\ failures' > 0
      BY <1>2, <1>6, <1>8, <2>4, <2>5, <3>1
    <3> QED
      BY <1>6, <3>2 DEF LostOK
  <2>7. Filed' = {}
    BY <2>1 DEF Filed
  <2>8. FilesMatchConsole'
    <3>1. Len(console) \in 0..MostLost' /\ Len(console) + Cardinality(Filed') = Settled'
      BY <1>2, <1>5, <1>6, <1>8, <2>5, <2>7, NoLines
    <3> QED
      BY <2>7, <3>1 DEF FilesMatchConsole
  <2>9. FilesOK'
    BY <1>9, <2>7, <2>8, FS_EmptySet DEF FilesOK
  <2>10. CleanupOK'
    BY <1>1, <1>2, <2>1, CleanupStays DEF cleanup, LoggerTypeOK
  <2> QED
    BY <1>7, <2>2, <2>3, <2>6, <2>9, <2>10 DEF LoggerInv
<1>12. CASE logFile # 0
  <2>1. PICK l : l = logFile
    OBVIOUS
  <2>2. PICK line : line = [line |-> <<w, LinesOf(w)>>, at |-> clock]
    OBVIOUS
  <2>3. PICK n : n = Len(files[l].lines)
    OBVIOUS
  <2>4. l \in DOMAIN files /\ l = Len(files) /\ clock \in Nat /\ files \in Seq(File)
    BY <1>1, <1>12, <2>1, FileIs DEF LoggerTypeOK
  <2>5. LinesOf(w) \in Nat
    <3>1. console[Len(console)] \in Writers \X Nat
      <4>1. Len(console) \in DOMAIN console
        <5>1. Len(console) # 0
          BY <1>1, <1>5, EmptySeq DEF LoggerTypeOK
        <5> QED
          BY <1>5, <5>1
      <4> QED
        BY <1>1, <4>1, ConsoleIs
    <3> QED
      BY <1>5, <3>1
  <2>6. line \in Line /\ line.at = clock /\ line.line = console[Len(console)]
    BY <1>5, <2>2, <2>4, <2>5 DEF Line
  <2>7. Put(l, line)
    BY <1>12, <2>1, <2>2 DEF WriteFile, Put
  <2>8. /\ files' \in Seq(File) /\ Len(files') = Len(files) /\ DOMAIN files' = DOMAIN files
        /\ \A f \in DOMAIN files :
             /\ files'[f].born = files[f].born
             /\ files'[f].removed = files[f].removed /\ files'[f].judged = files[f].judged
             /\ f # l => files'[f].mtime = files[f].mtime /\ files'[f].lines = files[f].lines
        /\ files'[l].mtime = clock
        /\ DOMAIN files'[l].lines = DOMAIN files[l].lines \cup {n + 1}
        /\ \A i \in DOMAIN files[l].lines : files'[l].lines[i] = files[l].lines[i]
        /\ files'[l].lines[n + 1] = line
    BY <2>3, <2>4, <2>6, <2>7, WriteIs
  <2>9. LoggerTypeOK'
    BY <1>1, <1>10, <2>1, <2>4, <2>8 DEF LoggerTypeOK
  <2>10. StampsOK' /\ TimesOK' /\ LateOK' /\ LengthOK'
    BY <1>1, <1>2, <1>6, <2>1, <2>4, <2>6, <2>7, WriteAges
  <2>11. LostOK'
    BY <1>2, <1>12 DEF LostOK
  <2>12. IsFiniteSet(Filed)' /\ FilesMatchConsole'
    BY <1>1, <1>2, <1>6, <1>8, <2>3, <2>4, <2>6, <2>7, WriteMatches DEF FilesOK
  <2>13. FilesOK'
    BY <1>9, <2>12 DEF FilesOK
  <2>14. ASSUME NEW f \in DOMAIN files, NEW d \in Nat, d <= clock, OldBy(f, d)
         PROVE  OldBy(f, d)'
    <3>1. CASE f # l
      BY <2>8, <2>14, <3>1 DEF OldBy
    <3>2. CASE f = l
      BY <2>6, <2>8, <2>14, <3>2 DEF OldBy
    <3> QED
      BY <3>1, <3>2
  <2>15. CleanupOK'
    <3>1. Existing' = Existing /\ Next1' = Next1 /\ date \in Nat /\ date <= clock /\ KeepSecond \in Nat
      BY <1>1, <1>2, <2>8, Numbers DEF Existing, Next1, cleanup, LoggerTypeOK
    <3>2. UNCHANGED <<clock, mainloop, date, todo, spared>>
      BY <1>2 DEF cleanup
    <3>3. date <= clock + KeepSecond
      BY <2>4, <3>1
    <3>4. ASSUME mainloop \in {"walk", "remove"}, NEW f \in Existing \ (todo \cup spared)
          PROVE  date <= files'[f].mtime + KeepSecond
      <4>1. CASE f = l
        BY <2>8, <3>3, <4>1
      <4>2. CASE f # l
        <5>1. files'[f].mtime = files[f].mtime
          BY <2>8, <4>2 DEF Existing
        <5> QED
          BY <1>1, <3>4, <5>1 DEF CleanupOK
      <4> QED
        BY <4>1, <4>2
    <3>5. (mainloop \in {"walk", "remove"} =>
             \A f \in Existing \ (todo \cup spared) : date <= files[f].mtime + KeepSecond)'
      BY <3>1, <3>2, <3>4
    <3>6. ASSUME mainloop = "remove", NEW f \in todo, f = Next1
          PROVE  /\ files'[f].born + KeepSecond < date
                 /\ \A i \in DOMAIN files'[f].lines : \/ files'[f].lines[i].at + KeepSecond < date
                                                     \/ date <= files'[f].lines[i].at
      <4>1. f \in DOMAIN files /\ OldBy(f, date)
        BY <1>1, <2>4, <3>6, FileIs DEF CleanupOK, LoggerTypeOK
      <4>2. PICK d \in Nat : d = date
        BY <3>1
      <4>3. OldBy(f, d)'
        BY <2>14, <3>1, <4>1, <4>2
      <4> QED
        BY <4>2, <4>3 DEF OldBy
    <3>7. (mainloop = "remove" => todo # {} /\ \A f \in todo : f = Next1 => OldBy(f, date))'
      BY <1>1, <3>1, <3>2, <3>6 DEF CleanupOK, OldBy
    <3>8. ASSUME NEW f \in DOMAIN files, files[f].removed
          PROVE  (files[f].judged <= clock /\ OldBy(f, files[f].judged))'
      <4>1. files[f].judged \in Nat /\ files[f].judged <= clock /\ OldBy(f, files[f].judged)
        BY <1>1, <2>4, <3>8, FileIs DEF CleanupOK
      <4>2. PICK d \in Nat : d = files[f].judged
        BY <4>1
      <4>3. OldBy(f, d)' /\ files'[f].judged = d
        BY <2>8, <2>14, <4>1, <4>2
      <4> QED
        BY <3>2, <4>1, <4>2, <4>3 DEF OldBy
    <3>9. (\A f \in DOMAIN files : files[f].removed => files[f].judged <= clock /\ OldBy(f, files[f].judged))'
      BY <2>8, <3>8
    <3> QED
      BY <3>5, <3>7, <3>9 DEF CleanupOK
  <2> QED
    BY <1>7, <2>9, <2>10, <2>11, <2>13, <2>15 DEF LoggerInv
<1> QED
  BY <1>11, <1>12

(* The check for a new file after a line: no need for one, a new file, or  *)
(* a failed attempt that makes up for a line.                              *)
LEMMA RotatePreserves ==
  ASSUME LoggerInv, UNCHANGED splitType, NEW w \in Writers, Rotate(w)
  PROVE  LoggerInv'
<1>1. LoggerTypeOK /\ MutexOK /\ StampsOK /\ TimesOK /\ LateOK /\ LengthOK /\ LostOK /\ FilesOK /\ CleanupOK
  BY DEF LoggerInv
<1>2. UNCHANGED <<splitType, clock, initOnce, console, cleanup>> /\ wMutex' = NoWriter
  BY DEF Rotate
<1>3. /\ pc[w] = "rotate" /\ pc' = [pc EXCEPT ![w] = "idle"] /\ initOnce = "done" /\ wMutex = w
      /\ \A v \in Writers \ {w} : pc[v] \notin {"console", "file", "rotate"}
  BY <1>1 DEF Rotate, Go, MutexOK
<1>4. /\ pc'[w] = "idle" /\ pc' \in [Writers -> {"idle", "init", "lock", "console", "file", "rotate"}]
      /\ \A v \in Writers \ {w} : pc'[v] = pc[v]
  BY <1>1, <1>3 DEF LoggerTypeOK
<1>5. \A v \in Writers : pc'[v] \notin {"console", "file", "rotate"} /\ pc[v] # "file"
  BY <1>3, <1>4
<1>6. Rotating /\ ~Rotating' /\ Settled = Len(console) /\ Settled' = Settled
  BY <1>2, <1>3, <1>5 DEF Rotating, Settled
<1>7. MutexOK'
  BY <1>1, <1>2, <1>3, <1>4, <1>5 DEF MutexOK
<1>8. /\ MostLost \in Nat /\ failures \in Nat /\ lineCount \in Nat /\ FileMaxLine \in Nat /\ clock \in Nat
      /\ splitType \in {"date", "hour"} /\ files \in Seq(File) /\ logFile = Len(files) /\ date \in Nat /\ date <= clock
      /\ KeepSecond \in Nat /\ todo \subseteq 1..Len(files)
  BY <1>1, LostIs, Numbers DEF LoggerTypeOK
<1>9. DOMAIN files = 1..Len(files) /\ Len(files) \in Nat
  BY <1>8, FileIs
<1>10. CASE ~MustRotate
  <2>1. UNCHANGED <<files, current, failures>>
    BY <1>10 DEF Rotate
  <2>2. LoggerTypeOK'
    BY <1>1, <1>2, <1>4, <2>1 DEF LoggerTypeOK, current, cleanup
  <2>3. StampsOK' /\ TimesOK'
    BY <1>1, <1>2, <2>1 DEF StampsOK, TimesOK, current, YearDay, Hour, Day
  <2>4. lineCount <= FileMaxLine
    BY <1>8, <1>10 DEF MustRotate
  <2>5. LateOK'
    <3>1. ASSUME NEW f \in DOMAIN files, f = logFile
          PROVE  \/ Cardinality(Late(f)) <= failures
                 \/ Period(files[f].born) + Cycle <= Period(clock)
      <4>1. files[f].born \in Nat /\ files[f].mtime \in Nat /\ files[f].born <= clock /\ logFile # 0
        BY <1>1, <1>8, <1>9, <3>1, FileIs DEF TimesOK
      <4>2. /\ Period(files[f].born) \in Nat /\ Period(clock) \in Nat /\ Cycle \in Nat
            /\ Period(files[f].born) <= Period(clock)
        BY <1>8, <4>1, PeriodGrows
      <4>3. CASE Period(clock) < Period(files[f].born) + Cycle
        <5>1. /\ splitType = "date" => YearDay(files[f].born) = YearDay(clock)
              /\ splitType = "hour" => Hour(files[f].born) = Hour(clock)
          BY <1>1, <1>10, <3>1, <4>1 DEF StampsOK, MustRotate
        <5>2. Period(files[f].born) = Period(clock)
          BY <1>8, <4>1, <4>3, <5>1, SameStamps
        <5>3. ASSUME NEW i \in DOMAIN files[f].lines
              PROVE  Period(files[f].lines[i].at) = Period(files[f].born)
          <6>1. /\ files[f].lines[i].at \in Nat /\ files[f].born <= files[f].lines[i].at
                /\ files[f].lines[i].at <= clock
            <7>1. files[f].lines[i].at \in Nat
              BY <1>8, FileIs
            <7> QED
              BY <1>1, <1>8, <4>1, <7>1 DEF TimesOK
          <6>2. /\ Period(files[f].born) <= Period(files[f].lines[i].at)
                /\ Period(files[f].lines[i].at) \in Nat
            BY <1>8, <4>1, <6>1, PeriodGrows
          <6>3. Period(files[f].lines[i].at) <= Period(clock)
            BY <1>8, <6>1, PeriodGrows
          <6> QED
            BY <4>2, <5>2, <6>2, <6>3
        <5>4. Late(f) = {}
          BY <5>3, LateIs
        <5> QED
          BY <1>8, <5>4, NoLines
      <4>4. CASE ~(Period(clock) < Period(files[f].born) + Cycle)
        BY <4>2, <4>4
      <4> QED
        BY <4>3, <4>4
    <3>2. \A f : Late(f)' = Late(f)
      BY <1>2, <2>1 DEF Late, Within, Period, Cycle
    <3>3. \A f \in DOMAIN files : (Period(files[f].born) + Cycle <= Period(clock))'
                                    <=> Period(files[f].born) + Cycle <= Period(clock)
      BY <1>2, <2>1 DEF Period, Cycle, Day
    <3>4. \A f \in DOMAIN files : Cardinality(Late(f)) <= 1 + failures
      BY <1>1 DEF LateOK
    <3> QED
      BY <2>1, <3>1, <3>2, <3>3, <3>4 DEF LateOK, current
  <2>6. LengthOK'
    <3>1. ASSUME NEW f \in DOMAIN files, f = logFile
          PROVE  LET before == Len(files[f].lines) + (FileMaxLine + 1)
                     room   == files[f].opens * (FileMaxLine + 1) + failures
                 IN  before <= room + FileMaxLine + 0
      <4> DEFINE before == Len(files[f].lines) + (FileMaxLine + 1)
                 room   == files[f].opens * (FileMaxLine + 1) + failures
      <4>1. before \in Nat /\ room \in Nat
        <5>1. files[f].opens \in Nat /\ Len(files[f].lines) \in Nat
          BY <1>8, FileIs
        <5>2. \A n, o, c \in Nat : n + (FileMaxLine + 1) \in Nat /\ o * (FileMaxLine + 1) + c \in Nat
          BY <1>8
        <5> QED
          BY <1>8, <5>1, <5>2
      <4>2. before <= room + lineCount
        BY <1>1, <3>1 DEF LengthOK
      <4> HIDE DEF before, room
      <4>3. before <= room + FileMaxLine + 0
        BY <1>8, <2>4, <4>1, <4>2
      <4> QED
        BY <4>3 DEF before, room
    <3> QED
      BY <1>1, <1>6, <2>1, <3>1 DEF LengthOK, current
  <2>7. LostOK'
    <3>1. ASSUME logFile = 0
          PROVE  lineCount = Settled /\ failures > 0 /\ lineCount + 1 <= MostLost
      <4>1. lineCount = Settled /\ failures > 0
        BY <1>1, <1>3, <3>1 DEF LostOK
      <4>2. splitType = "hour"
        <5>1. YearDay(clock) # 0
          <6>1. Day(clock) \in Nat
            BY <1>8, Numbers, DivIs DEF Day
          <6>2. Day(clock) % 365 \in Nat
            BY <6>1
          <6> QED
            BY <6>2 DEF YearDay
        <5> QED
          BY <1>1, <1>8, <1>10, <3>1, <5>1 DEF StampsOK, MustRotate
      <4>3. MostLost = failures + FileMaxLine
        BY <1>1, <4>1, <4>2, LostIs
      <4> QED
        BY <1>8, <2>4, <4>1, <4>3
    <3>2. MostLost' = MostLost
      BY <1>1, <1>2, <2>1, LostIs
    <3>3. ASSUME logFile = 0 PROVE lineCount + 1 <= MostLost + 0
      BY <1>8, <3>1, <3>3
    <3> QED
      BY <1>6, <2>1, <3>1, <3>2, <3>3 DEF LostOK, current
  <2>8. IsFiniteSet(Filed)' /\ FilesMatchConsole'
    <3>1. MostLost' = MostLost /\ MostLost <= MostLost
      BY <1>1, <1>2, <1>8, <2>1, LostIs
    <3> QED
      BY <1>1, <1>2, <1>6, <1>8, <2>1, <3>1, LinesKept DEF FilesOK
  <2>9. FilesOK'
    BY <1>5, <2>8 DEF FilesOK
  <2>10. CleanupOK'
    BY <1>1, <1>2, <1>8, <2>1, CleanupStays DEF cleanup
  <2> QED
    BY <1>7, <2>2, <2>3, <2>5, <2>6, <2>7, <2>9, <2>10 DEF LoggerInv
<1>11. CASE NewFile
  <2>1. OpenFile /\ lineCount' = 0 /\ failures' = failures
    BY <1>11 DEF NewFile
  <2>2. /\ files' \in Seq(File) /\ logFile' = Len(files') /\ logFile' \in Nat \ {0} /\ logFile' >= Len(files)
        /\ DOMAIN files' = DOMAIN files \cup {logFile'}
        /\ \A f \in DOMAIN files :
             /\ files'[f].born = files[f].born /\ files'[f].mtime = files[f].mtime
             /\ files'[f].lines = files[f].lines
             /\ files'[f].removed = files[f].removed /\ files'[f].judged = files[f].judged
        /\ logFile' \notin DOMAIN files =>
             /\ files'[logFile'].mtime = clock /\ files'[logFile'].lines = <<>>
             /\ ~files'[logFile'].removed
    BY <1>8, <2>1, OpenIs
  <2>3. LoggerTypeOK'
    <3>1. todo \subseteq 1..Len(files')
      BY <1>8, <1>9, <2>2
    <3> QED
      BY <1>1, <1>2, <1>4, <2>1, <2>2, <3>1 DEF LoggerTypeOK, cleanup
  <2>4. StampsOK' /\ TimesOK' /\ LateOK' /\ LengthOK'
    BY <1>1, <1>2, <1>6, <1>11, NewFileAges
  <2>5. LostOK'
    BY <2>2 DEF LostOK
  <2>6. IsFiniteSet(Filed)' /\ FilesMatchConsole'
    <3>1. MostLost' = MostLost /\ MostLost <= MostLost
      BY <1>1, <1>2, <1>8, <2>1, LostIs
    <3>2. \A f \in DOMAIN files' \ DOMAIN files : files'[f].lines = <<>>
      BY <2>2
    <3>3. /\ DOMAIN files \subseteq DOMAIN files'
          /\ \A f \in DOMAIN files : files'[f].lines = files[f].lines
          /\ \A k \in 1..Settled : console'[k] = console[k]
      BY <1>2, <2>2
    <3> QED
      BY <1>1, <1>6, <1>8, <3>1, <3>2, <3>3, LinesKept DEF FilesOK
  <2>7. FilesOK'
    BY <1>5, <2>6 DEF FilesOK
  <2>8. CleanupOK'
    <3>1. UNCHANGED <<clock, mainloop, date, todo, spared>> /\ Next1' = Next1
      BY <1>2 DEF cleanup, Next1
    <3>2. date <= clock + KeepSecond
      BY <1>8
    <3>3. ASSUME mainloop \in {"walk", "remove"}, NEW f \in Existing', f \notin todo \cup spared
          PROVE  date <= files'[f].mtime + KeepSecond
      <4>1. CASE f \in DOMAIN files
        <5>1. f \in Existing /\ files'[f].mtime = files[f].mtime
          BY <2>2, <3>3, <4>1 DEF Existing
        <5> QED
          BY <1>1, <3>3, <5>1 DEF CleanupOK
      <4>2. CASE f \notin DOMAIN files
        <5>1. f \in DOMAIN files'
          BY <3>3 DEF Existing
        <5> QED
          BY <2>2, <3>2, <4>2, <5>1
      <4> QED
        BY <4>1, <4>2
    <3>4. (mainloop \in {"walk", "remove"} =>
             \A f \in Existing \ (todo \cup spared) : date <= files[f].mtime + KeepSecond)'
      BY <3>1, <3>3
    <3>5. \A f \in DOMAIN files : \A d : OldBy(f, d) => /\ files'[f].born + KeepSecond < d
                                                        /\ \A i \in DOMAIN files'[f].lines :
                                                             \/ files'[f].lines[i].at + KeepSecond < d
                                                             \/ d <= files'[f].lines[i].at
      BY <2>2 DEF OldBy
    <3>6. (mainloop = "remove" => todo # {} /\ \A f \in todo : f = Next1 => OldBy(f, date))'
      BY <1>1, <1>8, <1>9, <3>1, <3>5 DEF CleanupOK, OldBy
    <3>7. ASSUME NEW f \in DOMAIN files', files'[f].removed
          PROVE  (files[f].judged <= clock /\ OldBy(f, files[f].judged))'
      <4>1. f \in DOMAIN files /\ files[f].removed /\ files'[f].judged = files[f].judged
        BY <2>2, <3>7
      <4>2. files[f].judged <= clock /\ OldBy(f, files[f].judged)
        BY <1>1, <4>1 DEF CleanupOK
      <4> QED
        BY <3>1, <3>5, <4>1, <4>2 DEF OldBy
    <3>8. (\A f \in DOMAIN files : files[f].removed => files[f].judged <= clock /\ OldBy(f, files[f].judged))'
      BY <3>7
    <3> QED
      BY <3>4, <3>6, <3>8 DEF CleanupOK
  <2> QED
    BY <1>7, <2>3, <2>4, <2>5, <2>7, <2>8 DEF LoggerInv
<1>12. CASE NewFileFails
  <2>1. failures' = failures + 1 /\ UNCHANGED <<files, current>>
    BY <1>12 DEF NewFileFails
  <2>2. LoggerTypeOK'
    BY <1>1, <1>2, <1>4, <2>1 DEF LoggerTypeOK, current, cleanup
  <2>3. StampsOK' /\ TimesOK'
    BY <1>1, <1>2, <2>1 DEF StampsOK, TimesOK, current, YearDay, Hour, Day
  <2>4. LateOK'
    <3>1. \A f : Late(f)' = Late(f)
      BY <1>2, <2>1 DEF Late, Within, Period, Cycle
    <3>2. ASSUME NEW f \in DOMAIN files
          PROVE  Cardinality(Late(f)) <= failures' /\ Cardinality(Late(f)) <= 1 + failures'
      <4>1. Cardinality(Late(f)) \in Nat /\ Cardinality(Late(f)) <= 1 + failures
        BY <1>1, LateFinite DEF LateOK
      <4> QED
        BY <1>8, <2>1, <4>1
    <3> QED
      BY <2>1, <3>1, <3>2 DEF LateOK
  <2>5. LengthOK'
    <3>1. ASSUME NEW f \in DOMAIN files
          PROVE  LET room == files[f].opens * (FileMaxLine + 1) + failures'
                     before == Len(files[f].lines) + (FileMaxLine + 1)
                 IN  /\ Len(files[f].lines) <= room
                     /\ f = logFile => before <= room + lineCount /\ before <= room + FileMaxLine + 0
      <4> DEFINE n == Len(files[f].lines)
                 r == files[f].opens * (FileMaxLine + 1)
      <4>1. n \in Nat /\ r \in Nat
        BY <1>8, FileIs
      <4>2. /\ n <= r + failures
            /\ f = logFile => /\ n + (FileMaxLine + 1) <= r + failures + lineCount
                              /\ n + (FileMaxLine + 1) <= r + failures + FileMaxLine + 1
        BY <1>1, <1>6 DEF LengthOK
      <4> HIDE DEF n, r
      <4>3. /\ n <= r + failures'
            /\ f = logFile => /\ n + (FileMaxLine + 1) <= r + failures' + lineCount
                              /\ n + (FileMaxLine + 1) <= r + failures' + FileMaxLine + 0
        BY <1>8, <2>1, <4>1, <4>2
      <4> QED
        BY <4>3 DEF n, r
    <3> QED
      BY <1>6, <2>1, <3>1 DEF LengthOK, current
  <2>6. MostLost' \in Nat /\ MostLost + 1 <= MostLost'
    BY <1>1, <1>2, <2>1, LostIs
  <2>7. LostOK'
    <3>1. ASSUME logFile = 0
          PROVE  lineCount = Settled /\ lineCount + 1 <= MostLost + 1
      BY <1>1, <1>3, <1>6, <3>1 DEF LostOK
    <3>2. \A m \in Nat : lineCount + 1 <= MostLost + 1 /\ MostLost + 1 <= m => lineCount + 1 <= m + 0
      BY <1>8
    <3>3. logFile = 0 => lineCount + 1 <= MostLost' + 0
      BY <2>6, <3>1, <3>2
    <3>4. failures' > 0 /\ lineCount' = lineCount /\ logFile' = logFile
      BY <1>8, <2>1 DEF current
    <3> QED
      BY <1>6, <3>1, <3>3, <3>4 DEF LostOK
  <2>8. IsFiniteSet(Filed)' /\ FilesMatchConsole'
    <3>1. \A m \in Nat : MostLost + 1 <= m => MostLost <= m
      BY <1>8
    <3>2. MostLost <= MostLost'
      BY <2>6, <3>1
    <3> QED
      BY <1>1, <1>2, <1>6, <1>8, <2>1, <2>6, <3>2, LinesKept DEF FilesOK
  <2>9. FilesOK'
    BY <1>5, <2>8 DEF FilesOK
  <2>10. CleanupOK'
    BY <1>1, <1>2, <1>8, <2>1, CleanupStays DEF cleanup
  <2> QED
    BY <1>7, <2>2, <2>3, <2>4, <2>5, <2>7, <2>9, <2>10 DEF LoggerInv
<1> QED
  BY <1>10, <1>11, <1>12 DEF Rotate

-----------------------------------------------------------------------------
LEMMA LoggerNextPreserves ==
  ASSUME LoggerInv, [Next /\ UNCHANGED splitType]_vars
  PROVE  LoggerInv'
<1>1. CASE UNCHANGED vars
  <2>1. /\ UNCHANGED <<splitType, clock, initOnce, console, files, current, wMutex, pc, cleanup, failures>>
        /\ LoggerTypeOK /\ MutexOK /\ CleanupOK
    BY <1>1 DEF vars, current, cleanup, LoggerInv
  <2>2. LoggerTypeOK' /\ MutexOK'
    BY <2>1 DEF LoggerTypeOK, MutexOK, current, cleanup
  <2>3. clock <= clock /\ clock \in Nat
    BY <2>1 DEF LoggerTypeOK
  <2>4. CleanupOK'
    BY <2>1, <2>3, CleanupStays DEF cleanup
  <2> QED
    BY <2>1, <2>2, <2>4, QuietPreserves DEF SameTasks
<1>2. CASE Next /\ UNCHANGED splitType
  <2>1. ASSUME NEW w \in Writers, InitOnce(w) \/ Log(w) \/ Lock(w)
        PROVE  LoggerInv'
    BY <1>2, <2>1, WaitPreserves
  <2>2. ASSUME NEW w \in Writers, InitOk(w)
        PROVE  LoggerInv'
    BY <1>2, <2>2, InitOkPreserves
  <2>3. ASSUME NEW w \in Writers, InitFails(w)
        PROVE  LoggerInv'
    BY <1>2, <2>3, InitFailsPreserves
  <2>4. ASSUME NEW w \in Writers, WriteConsole(w)
        PROVE  LoggerInv'
    BY <1>2, <2>4, WriteConsolePreserves
  <2>5. ASSUME NEW w \in Writers, WriteFile(w)
        PROVE  LoggerInv'
    BY <1>2, <2>5, WriteFilePreserves
  <2>6. ASSUME NEW w \in Writers, Rotate(w)
        PROVE  LoggerInv'
    BY <1>2, <2>6, RotatePreserves
  <2>7. CASE TickDue \/ ReadDir \/ ReadDirFails \/ Judge \/ Spare \/ WalkEnd
    BY <1>2, <2>7, LookPreserves
  <2>8. CASE RemoveFile
    BY <1>2, <2>8, RemoveFilePreserves
  <2>9. CASE HourPasses
    BY <1>2, <2>9, HourPassesPreserves
  <2> QED
    BY <1>2, <2>1, <2>2, <2>3, <2>4, <2>5, <2>6, <2>7, <2>8, <2>9 DEF Next
<1> QED
  BY <1>1, <1>2

(* What the invariant says of the writers, the files and the clean-up      *)
(* holds in every state.                                                   *)
THEOREM LoggerInvariant == Spec => []LoggerInv
<1>1. Init => LoggerInv
  BY InitLoggerInv
<1>2. LoggerInv /\ [Next /\ UNCHANGED splitType]_vars => LoggerInv'
  BY LoggerNextPreserves
<1> QED
  BY <1>1, <1>2, PTL DEF Spec

(* The files tell what the console tells, in the same order, but for the   *)
(* lines before the first file that could be made: no interleaving of the  *)
(* writers and no start of a new file loses, repeats or swaps a line       *)
(* (logger.go:129-161, 221-235).                                           *)
THEOREM FilesMatchConsoleCorrect == Spec => []FilesMatchConsole
<1>1. LoggerInv => FilesMatchConsole
  BY DEF LoggerInv, FilesOK
<1> QED
  BY <1>1, LoggerInvariant, PTL

(* A file has at most one line of another period, within a cycle, and at   *)
(* most one line above the limit each time it is opened, and one more for  *)
(* each failed start (logger.go:129-161).                                  *)
THEOREM RotatedInTimeCorrect == Spec => []RotatedInTime
<1>1. LoggerInv => RotatedInTime
  BY DEF LoggerInv, LateOK, LengthOK, RotatedInTime
<1> QED
  BY <1>1, LoggerInvariant, PTL

(* However the clean-up interleaves with the writers, the file it removes  *)
(* takes at most one line that is not older than KeepSecond with it, and   *)
(* one more for each failed start (logger.go:176-219).                     *)
THEOREM OneLostPerFileCorrect == Spec => []OneLostPerFile
<1>1. ASSUME LoggerInv, KeepsPeriod, NEW f \in DOMAIN files, files[f].removed
      PROVE  Cardinality(Fresh(f)) <= 1 + failures
  <2>1. LoggerTypeOK /\ LateOK /\ CleanupOK
    BY <1>1 DEF LoggerInv
  <2>2. /\ files[f].born \in Nat /\ files[f].judged \in Nat /\ splitType \in {"date", "hour"}
        /\ KeepSecond \in Nat \ {0} /\ HoursPerDay \in Nat \ {0} /\ failures \in Nat
    BY <2>1, FileIs, Numbers DEF LoggerTypeOK
  <2>3. OldBy(f, files[f].judged)
    BY <1>1, <2>1 DEF CleanupOK
  <2>4. ASSUME NEW i \in Fresh(f) PROVE i \in Late(f)
    <3>1. /\ i \in Within(f) /\ i \in DOMAIN files[f].lines
          /\ files[f].lines[i].at + KeepSecond >= files[f].judged
      BY DEF Fresh, Within
    <3>2. files[f].lines[i].at \in Nat
      BY <2>1, <3>1, FileIs DEF LoggerTypeOK
    <3>3. files[f].born + KeepSecond < files[f].lines[i].at
      BY <2>2, <2>3, <3>1, <3>2 DEF OldBy
    <3>4. Period(files[f].lines[i].at) # Period(files[f].born)
      <4>1. CASE splitType = "hour"
        BY <2>2, <3>2, <3>3, <4>1 DEF Period
      <4>2. CASE splitType = "date"
        <5>1. files[f].born + HoursPerDay <= files[f].lines[i].at
          BY <1>1, <2>2, <3>2, <3>3, <4>2 DEF KeepsPeriod
        <5>2. Day(files[f].born) < Day(files[f].lines[i].at)
          BY <2>2, <3>2, <5>1, Quotients DEF Day
        <5>3. Day(files[f].born) \in Nat /\ Day(files[f].lines[i].at) \in Nat
          BY <2>2, <3>2, DivIs DEF Day
        <5>4. Day(files[f].born) # Day(files[f].lines[i].at)
          BY <5>2, <5>3
        <5> QED
          BY <4>2, <5>4 DEF Period
      <4> QED
        BY <2>2, <4>1, <4>2
    <3> QED
      BY <3>1, <3>4 DEF Late
  <2>5. Fresh(f) \in SUBSET Late(f)
    BY <2>4
  <2>6. IsFiniteSet(Late(f)) /\ Cardinality(Late(f)) \in Nat
    BY <2>1, LateFinite
  <2>7. Cardinality(Fresh(f)) <= Cardinality(Late(f)) /\ Cardinality(Fresh(f)) \in Nat
    BY <2>5, <2>6, FS_Subset, FS_CardinalityType
  <2>8. Cardinality(Late(f)) <= 1 + failures
    BY <2>1 DEF LateOK
  <2> QED
    BY <2>2, <2>6, <2>7, <2>8
<1>2. LoggerInv => OneLostPerFile
  BY <1>1 DEF OneLostPerFile
<1> QED
  BY <1>2, LoggerInvariant, PTL

(* A clean-up ends with no file in the directory that was not written to   *)
(* for KeepSecond when it began, but those it could not open or remove     *)
(* (README.md:5).                                                          *)
THEOREM CleanupCompleteCorrect == Spec => CleanupComplete
<1>1. ASSUME LoggerInv, Next, mainloop = "walk", mainloop' = "wait"
      PROVE  \A f \in Existing \ spared : date <= files[f].mtime + KeepSecond
  <2>1. WalkEnd
    BY <1>1 DEF Next, LoggerInv, MutexOK, Go, InitOnce, InitOk, InitFails, Log, Lock, WriteConsole, WriteFile, Rotate, TickDue,
                ReadDir, ReadDirFails, Judge, Spare, RemoveFile, WalkEnd, HourPasses, cleanup
  <2>2. todo = {} /\ CleanupOK
    BY <1>1, <2>1 DEF WalkEnd, LoggerInv
  <2> QED
    BY <1>1, <2>2 DEF CleanupOK
<1>2. LoggerInv /\ [Next /\ UNCHANGED splitType]_vars
        => [mainloop = "walk" /\ mainloop' = "wait"
              => \A f \in Existing \ spared : date <= files[f].mtime + KeepSecond]_vars
  BY <1>1
<1> QED
  BY <1>2, LoggerInvariant, PTL DEF Spec, CleanupComplete
=============================================================================
