----------------------------- MODULE FiclFiles -----------------------------
(* fileaccess.c: the File Access words over the host's files, and the        *)
(* sources of text that INCLUDE-FILE and EVALUATE put on top of one another. *)
(* The host's files, and the buffer that stdio keeps for each open one, are  *)
(* modelled as far as the words can tell: a name leads to a file's text,     *)
(* which lives on without its name while it is open.                         *)
EXTENDS Integers, Sequences, SequencesExt, FiniteSetsExt

CONSTANTS
    Names, Files,       \* the names of files, and the ficlFile records
    Inodes,             \* the texts the host has room for
    Chars,              \* the characters of texts; "\n" ends a line, "\r" is the other line end
    Written,            \* the texts that are written
    Rooms,              \* the u1 of READ-FILE and READ-LINE
    MaxText,            \* bound: the characters of a file
    MaxSources,         \* bound: the texts being interpreted
    Obligations,        \* what the program keeps to, see Keeps
    None                \* no file, no text

AllObligations == {"room_for_a_character", "no_nul", "flushed", "own_codes_caught", "plain_files",
                   "written_alone", "source_left_open"}

ASSUME TextsAssumption == "\n" \in Chars /\ "nul" \notin Chars /\ Written \subseteq Seq(Chars)
ASSUME NumbersAssumption == Rooms \subseteq Nat /\ MaxText \in Nat /\ MaxSources \in Nat
ASSUME ObligationsAssumption == Obligations \subseteq AllObligations

\* What there is of an open FILE: where it stands, and what stdio has of it.
Records == [inode : Inodes, reads : BOOLEAN, writes : BOOLEAN, appends : BOOLEAN, position : Nat,
            eof : BOOLEAN, turn : {"either", "reads", "writes"}, pending : Seq(Chars)]
Texts   == Seq(Chars \cup {"nul"})

ASSUME NoneAssumption ==
    None \notin Files /\ None \notin Inodes /\ None \notin Texts /\ None \notin Records

VARIABLES
    directory,          \* a name's text on the host
    texts,              \* the texts themselves
    file,               \* the FILE of each ficlFile, None if it is closed
    sourceId,           \* vm->sourceId: 0, -1 for a string, or a file
    sources,            \* the texts being interpreted, the innermost last
    said,               \* ghost: what each open file should say
    lines,              \* ghost: what the latest READ-LINEs have brought
    lost                \* the inner loop goes on after its ip was reset

vars == <<directory, texts, file, sourceId, sources, said, lines, lost>>
host == <<directory, texts>>
run  == <<sourceId, sources, lost>>

\* "room_for_a_character": READ-LINE has room for one and the NUL behind it.
\* "no_nul":               no text has one, so none is resized upwards.
\* "flushed":              a file is flushed before its size is asked or set.
\* "own_codes_caught":     a code above zero is caught inside the file that throws it.
\* "plain_files":          READ-LINE reads a file opened to be read only.
\* "written_alone":        a file that one ficlFile writes has no other: what another
\*                         FILE's buffer has read ahead of the writing is not modelled.
\* "source_left_open":     a file is not closed or included again while it is being
\*                         included: the second fclose is of a record that was freed,
\*                         and the model says nothing of what follows.
Keeps(obligation) == obligation \in Obligations

Open        == {f \in Files : file[f] # None}
Free        == Files \ Open
Users(i)    == {f \in Open : file[f].inode = i}
TextOf(f)   == texts[file[f].inode]
Included    == {sources[i].file : i \in DOMAIN sources} \ {None}
Unused      == {i \in Inodes : texts[i] = None}

\* A text with another put over it from a place on, NULs in a gap.
Over(text, at, new) ==
    [i \in 1..Max({Len(text), at + Len(new)}) |->
        IF i \in at + 1..at + Len(new) THEN new[i - at]
        ELSE IF i \in DOMAIN text THEN text[i] ELSE "nul"]

\* What the host has once stdio's buffer is written out.
Flushed(f) ==
    LET r == file[f]
    IN IF r.pending = << >> THEN TextOf(f)
       ELSE IF r.appends THEN TextOf(f) \o r.pending
       ELSE Over(TextOf(f), r.position - Len(r.pending), r.pending)

\* A text without a name and without a user is gone.
Kept(names, records) ==
    {i \in Inodes : (\E n \in Names : names[n] = i)
                    \/ (\E f \in Files : records[f] # None /\ records[f].inode = i)}
Swept(t, names, records) == [i \in Inodes |-> IF i \in Kept(names, records) THEN t[i] ELSE None]

NothingSaid == [text |-> << >>, atEnd |-> FALSE]
NoLines     == [file |-> None, from |-> 0, glued |-> << >>, ends |-> {}, flag |-> TRUE]
Interrupted(f) == lines' = IF lines.file = f THEN NoLines ELSE lines

\* A program acts only while the VM has a word to go to, and a word it reads
\* is one character of the text it is read from.
AtEnd    == sources # << >> /\ Last(sources).rest = 0
Reads    == ~lost /\ ~AtEnd
Consumed == IF sources = << >> THEN << >> ELSE [sources EXCEPT ![Len(sources)].rest = @ - 1]
Acts ==
    /\ Reads
    /\ sources' = Consumed /\ UNCHANGED <<sourceId, lost>>

-----------------------------------------------------------------------------
(* Opening and closing.                                                      *)

\* Faulty: OPEN-FILE writes where it stands.
AppendsNever(word, fam) == FALSE

\* The mode of ficlFileOpen: to write, OPEN-FILE has "a" and CREATE-FILE "w".
Appends(word, fam) == word = "open-file" /\ "write" \in fam

\* A new FILE, at the beginning.
Opened(word, fam, i) ==
    [inode |-> i, reads |-> "read" \in fam, writes |-> "write" \in fam,
     appends |-> Appends(word, fam), position |-> 0, eof |-> FALSE, turn |-> "either", pending |-> << >>]

\* ficlFileOpen.  A fam that says neither is EINVAL; no case is for one that
\* says append, and fopen refuses the mode that is left.  A missing file that
\* is only to be read is ENOENT.  In all of these nothing is opened.
\* CREATE-FILE with r/o does not create: its mode is "r".
OpenFile(word, name, fam) ==
    LET creates == "write" \in fam /\ directory[name] = None
        empties == word = "create-file" /\ "write" \in fam
        opens   == fam # {} /\ "append" \notin fam /\ (creates \/ directory[name] # None)
    IN  /\ IF opens
           THEN \E f \in Free, i \in IF creates THEN Unused ELSE {directory[name]} :
                  /\ Keeps("written_alone") => \A g \in Users(i) : "write" \notin fam /\ ~file[g].writes
                  /\ file' = [file EXCEPT ![f] = Opened(word, fam, i)]
                  /\ texts' = IF creates \/ empties THEN [texts EXCEPT ![i] = << >>] ELSE texts
                  /\ said' = [said EXCEPT ![f] = [text |-> texts'[i], atEnd |-> word = "open-file"]]
                  /\ directory' = [directory EXCEPT ![name] = i]
           ELSE UNCHANGED <<directory, texts, file, said>>
        /\ Acts /\ UNCHANGED lines

\* fclose writes the buffer out; the record is freed whatever it returns.
Closed(f) ==
    /\ file' = [file EXCEPT ![f] = None]
    /\ texts' = Swept([texts EXCEPT ![file[f].inode] = Flushed(f)], directory, file')
    /\ said' = [said EXCEPT ![f] = NothingSaid] /\ Interrupted(f)
    /\ UNCHANGED directory

LeftOpen(f)  == Keeps("source_left_open") => f \notin Included
CloseFile(f) == LeftOpen(f) /\ Closed(f) /\ Acts

\* unlink and rename: an open file keeps its text.
DeleteFile(name) ==
    /\ directory' = [directory EXCEPT ![name] = None]
    /\ texts' = Swept(texts, directory', file)
    /\ UNCHANGED <<file, said, lines>> /\ Acts

RenameFile(from, to) ==
    /\ directory' = IF directory[from] = None \/ from = to THEN directory
                    ELSE [directory EXCEPT ![to] = directory[from], ![from] = None]
    /\ texts' = Swept(texts, directory', file)
    /\ UNCHANGED <<file, said, lines>> /\ Acts

-----------------------------------------------------------------------------
(* Reading and writing.  C wants a seek or a flush between a write and a     *)
(* read, and a seek between a read that did not reach the end and a write:   *)
(* turn keeps programs to that.                                              *)

Readable(f) == file[f].turn # "writes"
Writable(f) == file[f].turn # "reads"
Ahead(f)    == SubSeq(TextOf(f), file[f].position + 1, Len(TextOf(f)))
Advanced(f, n, eof) == [file EXCEPT ![f].position = @ + n, ![f].eof = eof,
                                    ![f].turn = IF eof THEN "either" ELSE "reads"]

\* fread, after clearerr.  A file that is not to be read brings an error.
ReadFile(f, length) ==
    /\ Readable(f)
    /\ file' = IF file[f].reads
               THEN Advanced(f, Min({length, Len(Ahead(f))}), length > Len(Ahead(f)))
               ELSE file
    /\ UNCHANGED <<directory, texts, said>> /\ Interrupted(f) /\ Acts

\* fgets: up to a newline, at most length - 1 characters.
Got(ahead, length) ==
    LET most  == SubSeq(ahead, 1, Min({Len(ahead), length - 1}))
        stops == {i \in DOMAIN most : most[i] = "\n"}
    IN IF stops = {} THEN most ELSE SubSeq(most, 1, Min(stops))

\* strlen.
Shown(text) ==
    LET nuls == {i \in DOMAIN text : text[i] = "nul"}
    IN IF nuls = {} THEN text ELSE SubSeq(text, 1, Min(nuls) - 1)

\* Faulty: the last character goes, whatever it is.
StrippedAlways(text) == IF text # << >> THEN Front(text) ELSE text

\* A line end less: a newline, or a carriage return with nothing behind it in
\* what fgets brought.
Stripped(text) == IF text # << >> /\ Last(text) \in {"\r", "\n"} THEN Front(text) ELSE text

\* READ-LINE.  To the program a piece shorter than its room is a line, any
\* other goes on; with its flag FALSE there is nothing left.
ReadLine(f, length) ==
    LET got   == Got(Ahead(f), length)
        shown == Shown(got)
        piece == Stripped(shown)
        since == IF lines.file = f THEN lines ELSE [NoLines EXCEPT !.file = f, !.from = file[f].position]
        short == Len(piece) < length - 1
        glued == since.glued \o piece \o (IF short /\ shown # << >> THEN <<"\n">> ELSE << >>)
        atEnd == got = Ahead(f) /\ Len(got) < length - 1 /\ (got = << >> \/ Last(got) # "\n")
    IN  /\ Readable(f)
        /\ Keeps("room_for_a_character") => length >= 2
        /\ Keeps("plain_files") => ~file[f].writes
        /\ IF file[f].eof
           THEN lines' = [since EXCEPT !.flag = FALSE] /\ UNCHANGED file
           ELSE IF ~file[f].reads THEN UNCHANGED <<file, lines>>
           ELSE /\ file' = Advanced(f, Len(got), atEnd)
                /\ lines' = [since EXCEPT !.flag = shown # << >>, !.glued = glued, !.ends = @ \union {Len(glued)}]
        /\ UNCHANGED <<directory, texts, said>> /\ Acts

Accepts(f) == file[f].writes

\* fwrite into stdio's buffer.
Wrote(f, text) ==
    LET at == IF file[f].appends THEN Len(Flushed(f)) ELSE file[f].position
    IN  /\ Writable(f) /\ Len(Flushed(f)) + Len(text) <= MaxText
        /\ Keeps("no_nul") => at <= Len(Flushed(f))
        /\ IF Accepts(f)
           THEN /\ file' = [file EXCEPT ![f].pending = @ \o text, ![f].position = at + Len(text),
                                        ![f].eof = FALSE, ![f].turn = "writes"]
                /\ said' = [said EXCEPT ![f].text =
                               Over(@, IF said[f].atEnd THEN Len(@) ELSE file[f].position, text)]
           ELSE file' = [file EXCEPT ![f].eof = FALSE] /\ UNCHANGED said
        /\ UNCHANGED <<directory, texts>> /\ Interrupted(f)

WriteFile(f, text) == Wrote(f, text) /\ Acts
WriteLine(f, text) == Wrote(f, Append(text, "\n")) /\ Acts

\* The buffer goes out, when stdio likes or when it must.
GoesOut(f, record) ==
    /\ texts' = [texts EXCEPT ![file[f].inode] = Flushed(f)]
    /\ file' = [file EXCEPT ![f] = [record EXCEPT !.pending = << >>]]
    /\ UNCHANGED <<directory, said>>
Drain(f) == file[f].pending # << >> /\ GoesOut(f, file[f]) /\ UNCHANGED lines /\ UNCHANGED run

FlushFile(f) ==
    /\ Writable(f) /\ GoesOut(f, [file[f] EXCEPT !.turn = "either"]) /\ UNCHANGED lines /\ Acts

RepositionFile(f, ud) ==
    /\ Keeps("no_nul") => ud <= Len(Flushed(f))
    /\ GoesOut(f, [file[f] EXCEPT !.position = ud, !.eof = FALSE, !.turn = "either"])
    /\ Interrupted(f) /\ Acts

\* fstat and ftruncate pass stdio's buffer by.
FileSize(f) == Len(TextOf(f))
Cut(text, size) == [i \in 1..size |-> IF i \in DOMAIN text THEN text[i] ELSE "nul"]
ResizeFile(f, ud) ==
    /\ Keeps("flushed") => file[f].pending = << >>
    /\ Keeps("no_nul") => ud <= FileSize(f)
    /\ IF file[f].writes
       THEN /\ texts' = [texts EXCEPT ![file[f].inode] = Cut(@, ud)]
            /\ said' = [said EXCEPT ![f].text = Cut(@, ud)]
       ELSE UNCHANGED <<texts, said>>
    /\ UNCHANGED <<directory, file>> /\ Interrupted(f) /\ Acts

-----------------------------------------------------------------------------
(* Sources of text.                                                          *)

Source(f, rest, caught) == [file |-> f, rest |-> rest, id |-> sourceId, caught |-> caught]

\* INCLUDE-FILE reads all there is, and interprets it as one string, with or
\* without a CATCH around it.  What cannot be read is passed over.
IncludeFile(f, caught) ==
    LET size == FileSize(f) - file[f].position
        gets == size > 0 /\ file[f].reads
    IN  /\ Reads /\ Len(sources) < MaxSources /\ LeftOpen(f)
        /\ gets => Readable(f)
        /\ file' = IF gets THEN Advanced(f, size, FALSE) ELSE file
        /\ sources' = Append(Consumed, Source(f, IF gets THEN size ELSE 0, caught))
        /\ sourceId' = f
        /\ Interrupted(f) /\ UNCHANGED <<directory, texts, said, lost>>

Evaluate(length, caught) ==
    /\ Reads /\ Len(sources) < MaxSources
    /\ sources' = Append(Consumed, Source(None, length, caught)) /\ sourceId' = -1
    /\ UNCHANGED <<directory, texts, file, said, lines, lost>>

\* Faulty: what is left is the terminal's.
OuterTerminal(source) == 0

Outer(source) == source.id

\* The text is at its end: an empty line with the string's SOURCE-ID flushes
\* what REFILL waits for, the outer source is back, and the file is closed.
SourceEnds ==
    /\ ~lost /\ AtEnd
    /\ sources' = Front(sources) /\ sourceId' = Outer(Last(sources))
    /\ IF Last(sources).file # None THEN Closed(Last(sources).file)
       ELSE UNCHANGED <<directory, texts, file, said, lines>>
    /\ UNCHANGED lost

\* In an included file RESTART gives the rest of the string up, which is the
\* rest of the file; in a string REFILL only says FALSE.
Refill ==
    /\ Reads /\ sources # << >>
    /\ sources' = IF sourceId = -1 THEN Consumed ELSE [sources EXCEPT ![Len(sources)].rest = 0]
    /\ UNCHANGED <<host, file, said, lines, sourceId, lost>>

\* An error leaves the sources up to the CATCH that is next, whose VM is
\* copied back, or all.  INCLUDE-FILE passes on what is below zero, and its
\* file stays open.
Throw ==
    LET catching == {i \in DOMAIN sources : sources[i].caught}
    IN  /\ Reads /\ sources # << >>
        /\ IF catching = {} THEN sources' = << >> /\ sourceId' = 0
           ELSE /\ sources' = SubSeq(sources, 1, Max(catching) - 1)
                /\ sourceId' = sources[Max(catching)].id
        /\ UNCHANGED <<host, file, said, lines, lost>>

\* Above zero it passes EVALUATE, but not INCLUDE-FILE: that goes on as at the
\* end of its text, and returns to an inner loop whose ip was reset.
ThrowOwn ==
    LET at       == Max({0} \union {i \in DOMAIN sources : sources[i].caught \/ sources[i].file # None})
        swallows == IF at = 0 THEN FALSE ELSE sources[at].file # None
    IN  /\ Reads /\ sources # << >>
        /\ Keeps("own_codes_caught") => ~swallows
        /\ IF at = 0 THEN sources' = << >> /\ sourceId' = 0
           ELSE sources' = SubSeq(sources, 1, at - 1) /\ sourceId' = sources[at].id
        /\ IF swallows THEN Closed(sources[at].file) /\ lost' = TRUE
           ELSE UNCHANGED <<directory, texts, file, said, lines, lost>>

-----------------------------------------------------------------------------
Fams == SUBSET {"read", "write", "append"}

Init ==
    /\ \E first \in BoundedSeq(Chars, MaxText), name \in Names, i \in Inodes :
          /\ directory = [n \in Names |-> IF n = name THEN i ELSE None]
          /\ texts = [j \in Inodes |-> IF j = i THEN first ELSE None]
    /\ file = [f \in Files |-> None] /\ said = [f \in Files |-> NothingSaid]
    /\ sourceId = 0 /\ sources = << >> /\ lines = NoLines /\ lost = FALSE

Next ==
    \/ \E word \in {"open-file", "create-file"}, name \in Names, fam \in Fams : OpenFile(word, name, fam)
    \/ \E name \in Names : DeleteFile(name)
    \/ \E from, to \in Names : RenameFile(from, to)
    \/ \E f \in Open :
          \/ CloseFile(f) \/ FlushFile(f) \/ Drain(f)
          \/ \E length \in Rooms : ReadFile(f, length) \/ ReadLine(f, length)
          \/ \E text \in Written : WriteFile(f, text) \/ WriteLine(f, text)
          \/ \E ud \in 0..MaxText : RepositionFile(f, ud) \/ ResizeFile(f, ud)
          \/ \E caught \in BOOLEAN : IncludeFile(f, caught)
    \/ \E length \in 0..MaxText, caught \in BOOLEAN : Evaluate(length, caught)
    \/ SourceEnds \/ Refill \/ Throw \/ ThrowOwn

Spec == Init /\ [][Next]_vars

-----------------------------------------------------------------------------
(* READ-LINE brings a file in order and loses no place of it: glued, with a  *)
(* newline behind each piece that is shorter than its room, the pieces are   *)
(* what lies between where READ-LINE began and where the file stands, but    *)
(* for a newline that the last line has not.  Only a carriage return that    *)
(* was the last of what one READ-LINE took is read as a newline: the program *)
(* sees the end of a line, although the line may go on.  A flag is FALSE     *)
(* only at the end.                                                          *)
LinesWhole ==
    lines.file # None =>
        LET f     == lines.file
            read  == SubSeq(TextOf(f), lines.from + 1, file[f].position)
            glued == lines.glued
            atEnd == file[f].position = Len(TextOf(f))
        IN  /\ \/ Len(glued) = Len(read)
               \/ /\ atEnd /\ read # << >> /\ Last(read) \notin {"\r", "\n"}
                  /\ Len(glued) = Len(read) + 1 /\ Last(glued) = "\n"
            /\ \A i \in DOMAIN read :
                  \/ glued[i] = read[i]
                  \/ read[i] = "\r" /\ glued[i] = "\n" /\ i \in lines.ends
            /\ ~lines.flag => atEnd

(* A file says, once its buffer is out, what was written into it: behind all *)
(* it said for OPEN-FILE, which never writes over a text wherever the file   *)
(* was positioned, from where it stood for CREATE-FILE.                      *)
WritesKept == \A f \in Open : file[f].writes => Flushed(f) = said[f].text

(* SOURCE-ID names the source that is being interpreted, also when texts     *)
(* include and evaluate each other and an error leaves some of them, and a   *)
(* file that is being included is open, in one place only.                   *)
SourceNamesText ==
    /\ sourceId = IF sources = << >> THEN 0
                  ELSE IF Last(sources).file = None THEN -1 ELSE Last(sources).file
    /\ \A i \in DOMAIN sources : sources[i].file # None =>
          /\ sources[i].file \in Open
          /\ \A k \in DOMAIN sources \ {i} : sources[k].file # sources[i].file

(* INCLUDE-FILE throws on what ends its text: the inner loop never goes on   *)
(* after an error has reset the VM under it.                                 *)
IncludeRethrows == ~lost
=============================================================================
