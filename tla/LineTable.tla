---- MODULE LineTable ----
(***************************************************************************)
(* The four programs that print the lines of a file by number              *)
(* (src/lab5/lab5.c, lab6/lab6.c, lab7/lab7.c, lab7/lab7-1.c).  Each scans *)
(* the file once, piece by piece, into a table of the lines' offsets, and  *)
(* then answers requests; all but lab5 print the whole file when nobody    *)
(* asks for five seconds.  They differ in the pieces (what read returns,   *)
(* fixed pieces mapped one after the other, one map of everything), in     *)
(* what the table keeps (a length per line, or one offset more than there  *)
(* are lines) and in how a line is fetched (read, the map, a window of the *)
(* file that is moved when a line is not inside it).                       *)
(*                                                                         *)
(* A file is a sequence of "text", "newline" and "zero" bytes; offsets     *)
(* count from 0, so the byte at offset o is file[o + 1].  What is printed  *)
(* is what reaches printf or write; "unread" stands for memory that no     *)
(* read has filled.                                                        *)
(***************************************************************************)
EXTENDS Naturals, Sequences, FiniteSets

CONSTANTS
    MaxFile,        \* bound: the longest file
    BufSiz,         \* most bytes a read returns, BUFSIZ
    CacheSize,      \* CACHE_SIZE
    PageSize,       \* _SC_PAGE_SIZE
    FirstCapacity   \* 16 in the source

ASSUME LineTableAssumption ==
    /\ MaxFile \in Nat
    /\ BufSiz \in Nat \ {0} /\ PageSize \in Nat \ {0}
    /\ CacheSize \in Nat \ {0} /\ CacheSize % PageSize = 0  \* pieces start on a page
    /\ FirstCapacity \in Nat \ {0, 1}                       \* or * 1.5 would not grow it

VARIABLES
    program, file,
    pc,
    offset, lineSize,   \* of the line being scanned
    chunkEnd, oldC,     \* end of the piece being scanned, and how far it is scanned
    tableCount, capacity,   \* of the table
    offsets, lengths,   \* its entries, from 0; lengths in lab5 only
    window,             \* [idx, len] of the mapped part, len = 0 if there is none
    shown, line         \* what was printed last, and the lines it is of

scanVars == <<offset, lineSize, chunkEnd, oldC>>
tableVars == <<tableCount, capacity, offsets, lengths>>
vars == <<program, file, pc, scanVars, tableVars, window, shown, line>>

FileBytes == {"text", "newline", "zero"}

NoWindow == [idx |-> 0, len |-> 0]

Lesser(a, b) == IF a < b THEN a ELSE b

FileSize == Len(file)

Init ==
    /\ program \in {"lab5", "lab6", "lab7", "lab7-1"}
    /\ file \in UNION {[1 .. n -> FileBytes] : n \in 0 .. MaxFile}
    /\ pc = "scan"
    /\ offset = 0 /\ lineSize = 0 /\ chunkEnd = 0 /\ oldC = 0
    /\ tableCount = 0 /\ capacity = FirstCapacity
    /\ offsets = <<>> /\ lengths = <<>>
    /\ window = NoWindow
    /\ shown = <<>> /\ line = {}

-----------------------------------------------------------------------------
(* The table. *)

(* lt_reserve: "at least one more record can be written".  A record of     *)
(* lab5 is one entry of each array, the others write the end of the line   *)
(* behind the entry; the wrong one does as lab5 does.                      *)
ReservedFor(entries) ==
    IF tableCount + entries <= capacity THEN capacity ELSE (capacity * 3) \div 2

ReservedLengths == ReservedFor(1)

ReservedEndsShort == ReservedFor(1)

ReservedEnds == ReservedFor(2)

LtAddLength(length, start) ==
    /\ capacity' = ReservedLengths
    /\ offsets' = [k \in 0 .. tableCount |-> IF k = tableCount THEN start ELSE offsets[k]]
    /\ lengths' = [k \in 0 .. tableCount |-> IF k = tableCount THEN length ELSE lengths[k]]

LtAddEnd(length, start) ==
    /\ capacity' = ReservedEnds
    /\ offsets' = [k \in 0 .. tableCount + 1 |->
                      CASE k = tableCount -> start
                        [] k = tableCount + 1 -> start + length
                        [] k < tableCount -> offsets[k]]
    /\ UNCHANGED lengths

LtAdd(length, start) ==
    /\ tableCount' = tableCount + 1
    /\ IF program = "lab5" THEN LtAddLength(length, start) ELSE LtAddEnd(length, start)

LineLen(k) == IF program = "lab5" THEN lengths[k] ELSE offsets[k + 1] - offsets[k]

-----------------------------------------------------------------------------
(* get_table *)

Rest == FileSize - chunkEnd

(* The size of the next piece: what a read returned, or what is mapped. *)
ReadSizes == 1 .. Lesser(BufSiz, Rest)

MappedSizes == {Lesser(CacheSize, Rest)}

WholeFile == {Rest}

ChunkSizes ==
    CASE program \in {"lab5", "lab6"} -> ReadSizes
      [] program = "lab7" -> MappedSizes
      [] program = "lab7-1" -> WholeFile

NextChunk ==
    /\ pc = "scan" /\ Rest > 0
    /\ \E n \in ChunkSizes : chunkEnd' = chunkEnd + n
    /\ pc' = "chunk"
    /\ UNCHANGED <<program, file, offset, lineSize, oldC, tableVars, window, shown, line>>

Newlines == {o \in oldC .. chunkEnd - 1 : file[o + 1] = "newline"}

(* What the line has grown to when its newline is at offset o, and wrongly *)
(* without the part that earlier pieces held.                              *)
GrownHere(o) == o + 1 - oldC

Grown(o) == lineSize + (o + 1 - oldC)

(* memchr finds a newline; lab5 keeps the length without it. *)
NewlineFound ==
    /\ pc = "chunk"
    /\ \E o \in Newlines :
        /\ \A other \in Newlines : o <= other
        /\ LtAdd(IF program = "lab5" THEN Grown(o) - 1 ELSE Grown(o), offset)
        /\ offset' = offset + Grown(o)
        /\ oldC' = o + 1
    /\ lineSize' = 0
    /\ UNCHANGED <<program, file, pc, chunkEnd, window, shown, line>>

ChunkEnds ==
    /\ pc = "chunk" /\ Newlines = {}
    /\ lineSize' = lineSize + (chunkEnd - oldC)
    /\ oldC' = chunkEnd
    /\ pc' = "scan"
    /\ UNCHANGED <<program, file, offset, chunkEnd, tableVars, window, shown, line>>

(* The last line may have no newline.  lab7-1 maps the file at once, which *)
(* fails for an empty file.                                                *)
ScanEnds ==
    /\ pc = "scan" /\ Rest = 0
    /\ IF lineSize # 0 THEN LtAdd(lineSize, offset) ELSE UNCHANGED tableVars
    /\ pc' = IF program = "lab7-1" /\ FileSize = 0 THEN "failed" ELSE "prompt"
    /\ window' = IF program = "lab7-1" THEN [idx |-> 0, len |-> FileSize] ELSE NoWindow
    /\ UNCHANGED <<program, file, scanVars, shown, line>>

(* read or mmap fails. *)
ScanFails ==
    /\ pc = "scan"
    /\ pc' = "failed"
    /\ UNCHANGED <<program, file, scanVars, tableVars, window, shown, line>>

-----------------------------------------------------------------------------
(* print_line *)

(* Is line k inside the window?  Wrongly: does it start there? *)
StartsInside(k) ==
    /\ window.len # 0
    /\ window.idx <= offsets[k] /\ offsets[k] < window.idx + window.len

Inside(k) ==
    /\ window.len # 0
    /\ window.idx <= offsets[k] /\ window.idx + window.len >= offsets[k + 1]

(* get_line's new window for line k: at least the line and as much behind  *)
(* it as fits, or the end of the file, extended down to the start of a     *)
(* page.  The wrong one does not stay in front of the end.                 *)
WantedSize(k) == IF LineLen(k) > CacheSize THEN LineLen(k) ELSE Lesser(CacheSize, FileSize)

WantedOffsetUnclamped(k) == offsets[k]

WantedOffset(k) ==
    IF FileSize - offsets[k] < WantedSize(k) THEN FileSize - WantedSize(k)
    ELSE offsets[k]

AlignedOffset(k) == (WantedOffset(k) \div PageSize) * PageSize

WindowFor(k) ==
    [idx |-> AlignedOffset(k), len |-> WantedSize(k) + (WantedOffset(k) - AlignedOffset(k))]

GetLine(k) == IF program = "lab7" /\ ~Inside(k) THEN WindowFor(k) ELSE window

(* The bytes of line k where they are read from the file, and where they   *)
(* are taken from the mapped part, outside of which the program would be   *)
(* killed.                                                                 *)
ReadLine(k) == SubSeq(file, offsets[k] + 1, offsets[k] + LineLen(k))

MappedLine(k, mapped) ==
    [n \in 1 .. LineLen(k) |->
        LET o == offsets[k] + n - 1
        IN  IF o \in mapped.idx .. mapped.idx + mapped.len - 1 THEN file[o + 1]
            ELSE "unmapped"]

(* What "%s" prints of a string: it ends at the first zero byte.           *)
CString(s) ==
    SubSeq(s, 1, CHOOSE n \in 0 .. Len(s) :
                    /\ \A m \in 1 .. n : s[m] # "zero"
                    /\ n < Len(s) => s[n + 1] = "zero")

NoNewline(k) == file[offsets[k + 1]] # "newline"

(* print_line: lab5 always prints a newline, the others if the line has    *)
(* none; lab6 writes the string literal's terminating zero as well.        *)
PrintedLab5(k) == CString(ReadLine(k)) \o <<"newline">>

PrintedLab6(k) == ReadLine(k) \o (IF NoNewline(k) THEN <<"newline", "zero">> ELSE <<>>)

PrintedMapped(k, mapped) ==
    MappedLine(k, mapped) \o (IF NoNewline(k) THEN <<"newline">> ELSE <<>>)

Printed(k, mapped) ==
    CASE program = "lab5" -> PrintedLab5(k)
      [] program = "lab6" -> PrintedLab6(k)
      [] program \in {"lab7", "lab7-1"} -> PrintedMapped(k, mapped)

Unread == <<"unread">>

PrintLine(k) ==
    /\ window' = GetLine(k)
    /\ shown' = IF shown = Unread THEN Unread ELSE shown \o Printed(k, window')
    /\ line' = line \cup {k}

(* lab5 and lab6 look at the result of neither lseek nor read: when one    *)
(* fails, or less than the line is read, memory that was never written is  *)
(* printed, or another part of the file.  What a listing shows from there  *)
(* on is left open.                                                        *)
PrintUnread(k) ==
    /\ program \in {"lab5", "lab6"} /\ LineLen(k) > 0
    /\ shown' = Unread
    /\ line' = line \cup {k}
    /\ UNCHANGED window

-----------------------------------------------------------------------------
(* main *)

(* The numbers that are answered: a negative one, or one beyond the table, *)
(* is refused and changes nothing, and zero ends the program.              *)
Requests == 1 .. tableCount

Quit ==
    /\ pc = "prompt"
    /\ pc' = "exit"
    /\ UNCHANGED <<program, file, scanVars, tableVars, window, shown, line>>

(* The answer to a request; what was shown before is forgotten. *)
Answer ==
    /\ pc = "prompt"
    /\ shown = <<>>
    /\ \E lineNum \in Requests : PrintLine(lineNum - 1) \/ PrintUnread(lineNum - 1)
    /\ UNCHANGED <<program, file, pc, scanVars, tableVars>>

NextPrompt ==
    /\ pc = "prompt" /\ shown # <<>>
    /\ shown' = <<>> /\ line' = {}
    /\ UNCHANGED <<program, file, pc, scanVars, tableVars, window>>

(* mmap fails in get_line, when the old window is gone already. *)
MapFails ==
    /\ pc \in {"prompt", "dump"} /\ program = "lab7"
    /\ \E k \in 0 .. tableCount - 1 : (pc = "dump" => k = Cardinality(line)) /\ ~Inside(k)
    /\ window' = NoWindow
    /\ pc' = "failed"
    /\ UNCHANGED <<program, file, scanVars, tableVars, shown, line>>

(* Five seconds without a request: every line in turn, and the end. *)
TimesOut ==
    /\ pc = "prompt" /\ program # "lab5"
    /\ shown = <<>>
    /\ pc' = "dump"
    /\ UNCHANGED <<program, file, scanVars, tableVars, window, shown, line>>

DumpLine ==
    /\ pc = "dump" /\ Cardinality(line) < tableCount
    /\ PrintLine(Cardinality(line)) \/ PrintUnread(Cardinality(line))
    /\ UNCHANGED <<program, file, pc, scanVars, tableVars>>

DumpEnds ==
    /\ pc = "dump" /\ Cardinality(line) = tableCount
    /\ pc' = "exit"
    /\ UNCHANGED <<program, file, scanVars, tableVars, window, shown, line>>

Stopped == pc \in {"failed", "exit"} /\ UNCHANGED vars

Next ==
    \/ NextChunk \/ NewlineFound \/ ChunkEnds \/ ScanEnds \/ ScanFails
    \/ Answer \/ NextPrompt \/ Quit \/ MapFails
    \/ TimesOut \/ DumpLine \/ DumpEnds
    \/ Stopped

Spec == Init /\ [][Next]_vars

-----------------------------------------------------------------------------
(* The reference: a line starts at 0 and behind every newline but a last   *)
(* one, and goes up to the next start.                                     *)

Starts == ({0} \cup {o \in 1 .. FileSize : file[o] = "newline"}) \ {FileSize}

StartOf(k) == CHOOSE o \in Starts : Cardinality({p \in Starts : p < o}) = k

EndOf(k) == IF k + 1 < Cardinality(Starts) THEN StartOf(k + 1) ELSE FileSize

Text(k) == SubSeq(file, StartOf(k) + 1, EndOf(k))

Terminated(s) == IF s # <<>> /\ s[Len(s)] = "newline" THEN s ELSE Append(s, "newline")

LineOf(k) == Terminated(IF program = "lab5" THEN CString(Text(k)) ELSE Text(k))

-----------------------------------------------------------------------------
(* Properties. *)

(* No entry is ever written behind the arrays: the growth by one half,     *)
(* rounded down, once per record, keeps up with what a record writes.      *)
EntriesInBounds ==
    IF program = "lab5" THEN tableCount <= capacity
    ELSE tableCount > 0 => tableCount + 1 <= capacity

(* The table is right from the first entry on, wherever the pieces were    *)
(* cut: within a line, in front of a newline, behind one.  When the scan   *)
(* has ended it has every line, the last one even without a newline.  And  *)
(* it fits into its memory at any time.                                    *)
TableOfFile ==
    /\ EntriesInBounds
    /\ \A k \in 0 .. tableCount - 1 :
        /\ offsets[k] = StartOf(k)
        /\ LineLen(k) = EndOf(k) - StartOf(k) -
             (IF program = "lab5" /\ file[EndOf(k)] = "newline" THEN 1 ELSE 0)
    /\ pc \in {"prompt", "dump"} => tableCount = Cardinality(Starts)

(* A window is made of whole pages from its start, never reaches beyond    *)
(* the end of the file, where touching it would kill the program, and is   *)
(* no larger than the cache and a page unless a line is.                   *)
WindowInFile ==
    window # NoWindow =>
        /\ window.idx % PageSize = 0
        /\ window.idx + window.len <= FileSize
        /\ program = "lab7" =>
             \/ window.len < CacheSize + PageSize
             \/ \E k \in 0 .. tableCount - 1 : LineLen(k) > CacheSize /\ Inside(k)

(* What is printed for a number is that line, with a newline at its end    *)
(* whether or not the file has one: the bytes come from inside the window, *)
(* after any sequence of earlier requests that moved it, and after any     *)
(* that could not be read.  lab5 prints it as a string, so up to a zero    *)
(* byte.  When nobody asks for a line, what is printed is the whole file.  *)
(* Nothing is said of an answer or a listing whose reads fell short.       *)
LinesShown ==
    LET zero == IF program = "lab6" /\ Cardinality(Starts) - 1 \in line
                   /\ file[FileSize] # "newline"
                THEN <<"zero">> ELSE <<>>
    IN  shown \notin {<<>>, Unread} =>
          IF pc = "dump" /\ Cardinality(line) = tableCount
          THEN shown = Terminated(file) \o zero
          ELSE Cardinality(line) = 1 =>
                 \A k \in line : shown = LineOf(k) \o zero
====
