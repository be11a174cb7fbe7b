------------------------------- MODULE Logger -------------------------------
(***************************************************************************)
(* Package logger (src/logger/logger.go).  Any goroutine may log; a line   *)
(* goes to the console and to the current file under one mutex, and the    *)
(* same critical section then starts a new file if the day (or the hour)   *)
(* has changed or the file is full.  The first goroutine to log            *)
(* initialises the package, which starts a goroutine that once a day       *)
(* removes the files nobody has written to for KeepSecond, without taking  *)
(* the mutex: neither side knows what the other does to the directory.     *)
(*                                                                         *)
(* Time is counted in hours and never goes back.  A line is its writer's   *)
(* name and number.  Writes to an open file succeed, making a new file     *)
(* (Stat, MkdirAll, OpenFile) and the calls of the clean-up may fail.      *)
(*                                                                         *)
(* A definition that comes right before one it resembles (NeedDeleteByBirth*)
(* before NeedDelete) is the same code with a bug: no action uses it, and  *)
(* the properties are known to notice when it takes the other's place.     *)
(***************************************************************************)
EXTENDS Naturals, FiniteSets, Sequences

CONSTANTS
  Writers,       \* the goroutines that log
  KeepSecond,    \* of LoggerOptions, in hours
  FileMaxLine,
  HoursPerDay,
  MaxClock, MaxLines, MaxFailures,   \* bounds of the instance
  NoWriter

ASSUME NoneOutside    == NoWriter \notin Writers
ASSUME Numbers        == /\ {KeepSecond, FileMaxLine, HoursPerDay} \subseteq Nat \ {0}
                         /\ {MaxClock, MaxLines, MaxFailures} \subseteq Nat

VARIABLES
  splitType,       \* of LoggerOptions: "date" or "hour"
  clock,
  initOnce,        \* "new", "running" or "done"
  console,         \* what was written to stdout
  files,           \* every file made, in order, also those removed since
  logFile,         \* number of the current file, 0 if there is none
  lineCount, createFileDate, createFileHour, deleteFileDate,
  wMutex,
  pc,              \* per writer: where it is
  mainloop,        \* where the clean-up is
  date,            \*   the time it was started with
  todo,            \*   the files it has still to look at
  spared,          \*   the files it could not open or remove
  failures         \* failed attempts to make a file

vars == <<splitType, clock, initOnce, console, files, logFile, lineCount, createFileDate,
          createFileHour, deleteFileDate, wMutex, pc, mainloop, date, todo, spared, failures>>

current == <<logFile, lineCount, createFileDate, createFileHour>>
cleanup == <<deleteFileDate, mainloop, date, todo, spared>>

Day(t)     == t \div HoursPerDay
YearDay(t) == (Day(t) % 365) + 1
Hour(t)    == t % HoursPerDay
Existing   == {f \in DOMAIN files : ~files[f].removed}

Init ==
  /\ splitType \in {"date", "hour"}
  /\ clock = 0 /\ initOnce = "new" /\ console = <<>> /\ files = <<>>
  /\ logFile = 0 /\ lineCount = 0
  /\ createFileDate = 0 /\ createFileHour = 0 /\ deleteFileDate = 0
  /\ wMutex = NoWriter /\ pc = [w \in Writers |-> "idle"]
  /\ mainloop = "off" /\ date = 0 /\ todo = {} /\ spared = {}
  /\ failures = 0

Go(w, from, to) == pc[w] = from /\ pc' = [pc EXCEPT ![w] = to]

-----------------------------------------------------------------------------
(* tryNewFile *)

MustRotateByCount == lineCount > FileMaxLine
MustRotate ==
  \/ lineCount > FileMaxLine
  \/ splitType = "date" /\ createFileDate # YearDay(clock)
  \/ splitType = "hour" /\ createFileHour # Hour(clock)

(* File names have a resolution of one second: a second file within the    *)
(* same second is the first one, opened again.                             *)
OpenFile ==
  \/ /\ files'   = Append(files, [born |-> clock, mtime |-> clock, opens |-> 1,
                                  lines |-> <<>>, removed |-> FALSE, judged |-> 0])
     /\ logFile' = Len(files) + 1
  \/ LET f == Len(files) IN
     /\ f \in Existing /\ files[f].born = clock
     /\ files'   = [files EXCEPT ![f].opens = @ + 1]
     /\ logFile' = f

NewFile ==
  /\ OpenFile
  /\ lineCount' = 0
  /\ createFileDate' = YearDay(clock) /\ createFileHour' = Hour(clock)
  /\ UNCHANGED failures

(* It panics; the caller of the logger recovers. *)
NewFileFails ==
  /\ failures < MaxFailures
  /\ failures' = failures + 1
  /\ UNCHANGED <<files, current>>

-----------------------------------------------------------------------------
(* formatAndWrite *)

(* Init, called first or by tryInit: one goroutine runs it, others wait.   *)
InitOnce(w) ==
  /\ initOnce = "new" /\ initOnce' = "running"
  /\ Go(w, "idle", "init")
  /\ UNCHANGED <<clock, console, files, current, wMutex, cleanup, failures>>

InitOk(w) ==
  /\ Go(w, "init", "lock") \/ Go(w, "init", "idle")
  /\ NewFile
  /\ initOnce' = "done" /\ mainloop' = "wait"
  /\ UNCHANGED <<clock, console, wMutex, deleteFileDate, date, todo, spared>>

(* A panic in Once.Do counts as done: no clean-up is ever started. *)
InitFails(w) ==
  /\ Go(w, "init", "idle")
  /\ NewFileFails
  /\ initOnce' = "done"
  /\ UNCHANGED <<clock, console, wMutex, cleanup>>

InFlight == Cardinality({w \in Writers : pc[w] \in {"lock", "console"}})

Log(w) ==
  /\ initOnce = "done" /\ Len(console) + InFlight < MaxLines
  /\ Go(w, "idle", "lock")
  /\ UNCHANGED <<clock, initOnce, console, files, current, wMutex, cleanup, failures>>

LockUnguarded(w) ==
  /\ Go(w, "lock", "console")
  /\ wMutex' = w
  /\ UNCHANGED <<clock, initOnce, console, files, current, cleanup, failures>>
Lock(w) ==
  /\ wMutex = NoWriter
  /\ Go(w, "lock", "console")
  /\ wMutex' = w
  /\ UNCHANGED <<clock, initOnce, console, files, current, cleanup, failures>>

LinesOf(w) == Cardinality({i \in DOMAIN console : console[i][1] = w})

WriteConsole(w) ==
  /\ Go(w, "console", "file")
  /\ console' = Append(console, <<w, LinesOf(w) + 1>>)
  /\ UNCHANGED <<clock, initOnce, files, current, wMutex, cleanup, failures>>

(* Without a file the write fails, which nobody notices. *)
WriteFile(w) ==
  /\ Go(w, "file", "rotate")
  /\ files' = IF logFile = 0 THEN files
              ELSE [files EXCEPT ![logFile].mtime = clock,
                                 ![logFile].lines = Append(@, [line |-> <<w, LinesOf(w)>>, at |-> clock])]
  /\ lineCount' = lineCount + 1
  /\ UNCHANGED <<clock, initOnce, console, logFile, createFileDate, createFileHour, wMutex,
                 cleanup, failures>>

(* tryNewFile(false) and the deferred unlock. *)
Rotate(w) ==
  /\ Go(w, "rotate", "idle")
  /\ wMutex' = NoWriter
  /\ IF MustRotate THEN NewFile \/ NewFileFails ELSE UNCHANGED <<files, current, failures>>
  /\ UNCHANGED <<clock, initOnce, console, cleanup>>

-----------------------------------------------------------------------------
(* mainloop and tryDelteFile *)

Due == mainloop = "wait" /\ deleteFileDate # YearDay(clock)

TickDue ==
  /\ Due
  /\ date' = clock /\ deleteFileDate' = YearDay(clock)
  /\ mainloop' = "list"
  /\ UNCHANGED <<clock, initOnce, console, files, current, wMutex, pc, todo, spared, failures>>

ReadDir ==
  /\ mainloop = "list" /\ mainloop' = "walk"
  /\ todo' = Existing /\ spared' = {}
  /\ UNCHANGED <<clock, initOnce, console, files, current, wMutex, pc, deleteFileDate, date, failures>>

ReadDirFails ==
  /\ mainloop = "list" /\ mainloop' = "wait"
  /\ UNCHANGED <<clock, initOnce, console, files, current, wMutex, pc, deleteFileDate, date, todo,
                 spared, failures>>

(* ReadDir sorts by name, which is by time. *)
Next1 == CHOOSE f \in todo : \A g \in todo : f <= g

(* LogDir ends with a slash, as the default does: LogDir + name is the file. *)
NeedDeleteByBirth(f) == date > files[f].born + KeepSecond
NeedDelete(f)        == date > files[f].mtime + KeepSecond

Judge ==
  /\ mainloop = "walk" /\ todo # {}
  /\ IF NeedDelete(Next1) THEN mainloop' = "remove" /\ UNCHANGED todo
                          ELSE todo' = todo \ {Next1} /\ UNCHANGED mainloop
  /\ UNCHANGED <<clock, initOnce, console, files, current, wMutex, pc, deleteFileDate, date, spared,
                 failures>>

(* It could not be opened, or not removed. *)
Spare ==
  /\ \/ mainloop = "walk" /\ todo # {}
     \/ mainloop = "remove"
  /\ mainloop' = "walk"
  /\ todo' = todo \ {Next1} /\ spared' = spared \cup {Next1}
  /\ UNCHANGED <<clock, initOnce, console, files, current, wMutex, pc, deleteFileDate, date, failures>>

RemoveFile ==
  /\ mainloop = "remove" /\ mainloop' = "walk"
  /\ todo' = todo \ {Next1}
  /\ files' = [files EXCEPT ![Next1].removed = TRUE, ![Next1].judged = date]
  /\ UNCHANGED <<clock, initOnce, console, current, wMutex, pc, deleteFileDate, date, spared, failures>>

WalkEndEarly ==
  /\ mainloop = "walk" /\ mainloop' = "wait"
  /\ UNCHANGED <<clock, initOnce, console, files, current, wMutex, pc, deleteFileDate, date, todo,
                 spared, failures>>
WalkEnd ==
  /\ mainloop = "walk" /\ todo = {}
  /\ mainloop' = "wait"
  /\ UNCHANGED <<clock, initOnce, console, files, current, wMutex, pc, deleteFileDate, date, todo,
                 spared, failures>>

(* An hour passes, in which the ticker has woken the clean-up at least     *)
(* once, which lists the directory within the hour.  A call that is under  *)
(* way looks at the time when it writes to the file and when it rotates:   *)
(* between its other steps it makes no difference.                         *)
HourPasses ==
  /\ clock < MaxClock /\ ~Due /\ mainloop # "list"
  /\ \A w \in Writers : pc[w] \in {"idle", "rotate"}
  /\ clock' = clock + 1
  /\ UNCHANGED <<initOnce, console, files, current, wMutex, pc, cleanup, failures>>

-----------------------------------------------------------------------------
Next ==
  \/ \E w \in Writers : \/ InitOnce(w) \/ InitOk(w) \/ InitFails(w) \/ Log(w)
                        \/ Lock(w) \/ WriteConsole(w) \/ WriteFile(w) \/ Rotate(w)
  \/ TickDue \/ ReadDir \/ ReadDirFails \/ Judge \/ Spare \/ RemoveFile \/ WalkEnd
  \/ HourPasses

Spec == Init /\ [][Next /\ UNCHANGED splitType]_vars

-----------------------------------------------------------------------------
(* The lines in the files, the first file's first, and the lines that the  *)
(* file should have had by now.                                            *)
Filed     == UNION {{f} \X DOMAIN files[f].lines : f \in DOMAIN files}
UpTo(p)   == {q \in Filed : q[1] < p[1] \/ (q[1] = p[1] /\ q[2] <= p[2])}
Settled   == IF \E w \in Writers : pc[w] = "file" THEN Len(console) - 1 ELSE Len(console)

(* A start that failed is repeated after the next line.  Split by hour,    *)
(* the zero of createFileHour is midnight's hour, in which only the number *)
(* of lines makes it repeat.                                               *)
MostLost == failures + IF splitType = "hour" /\ failures > 0 THEN FileMaxLine ELSE 0

(* The files, one after the other, tell what the console tells, in the     *)
(* same order, whoever writes and whenever a new file is started; only a   *)
(* start that failed costs lines, those before the next attempt.           *)
FilesMatchConsole ==
  \E lost \in 0..MostLost :
    /\ lost + Cardinality(Filed) = Settled
    /\ \A p \in Filed : files[p[1]].lines[p[2]].line = console[lost + Cardinality(UpTo(p))]

(* The check compares days of the year, or hours of the day: after a cycle *)
(* a file is taken for one of the same period.                             *)
Period(t) == IF splitType = "date" THEN Day(t) ELSE t
Cycle     == IF splitType = "date" THEN 365 ELSE HoursPerDay

Within(f) == {i \in DOMAIN files[f].lines : Period(files[f].lines[i].at) < Period(files[f].born) + Cycle}
Late(f)   == {i \in Within(f) : Period(files[f].lines[i].at) # Period(files[f].born)}

(* The check for a new file comes after the write: a file has one line of  *)
(* another period at most before the cycle is over, and each time it is    *)
(* opened it gets no more than one line above the limit.  A new file that  *)
(* failed to start costs one more (logger.go:129-161, 221-235).            *)
RotatedInTime ==
  \A f \in DOMAIN files :
    /\ Cardinality(Late(f)) <= 1 + failures
    /\ Len(files[f].lines) <= files[f].opens * (FileMaxLine + 1) + failures

Fresh(f) == {i \in Within(f) : files[f].lines[i].at + KeepSecond >= files[f].judged}

(* The clean-up may remove the current file, or one that is written to     *)
(* between its look and its Remove.  However the two interleave, a removed *)
(* file takes one recent line with it at most, if files are kept for as    *)
(* long as they are written to (logger.go:176-219).                        *)
KeepsPeriod == splitType = "date" => KeepSecond + 1 >= HoursPerDay
OneLostPerFile ==
  KeepsPeriod => \A f \in DOMAIN files : files[f].removed => Cardinality(Fresh(f)) <= 1 + failures

(* README.md:5: log files are kept for seven days only.  At the end of a   *)
(* clean-up the directory has no older file, but those it failed on.       *)
CleanupComplete ==
  [][mainloop = "walk" /\ mainloop' = "wait"
       => \A f \in Existing \ spared : date <= files[f].mtime + KeepSecond]_vars

(* README.md:143: a line is written to the console and to a file at the    *)
(* same time: the file is in the directory.                                *)
LineInFile ==
  [][\A w \in Writers : WriteFile(w) => logFile \in Existing]_vars
=============================================================================
