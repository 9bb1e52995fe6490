------------------------------ MODULE Storage ------------------------------
(***************************************************************************)
(* denaro/infrastructure/storage.py as operators on the contents of files. *)
(*                                                                         *)
(* A journal file is the sequence of its physical lines; a line is the     *)
(* sequence of the pieces written on it, whole records or the torn         *)
(* beginning of one, because `append' opens the file at its end and does   *)
(* not look whether the last line was ever terminated.                     *)
(*                                                                         *)
(* An operator XBug, defined before X, is X with a plausible coding error. *)
(***************************************************************************)
EXTENDS Naturals, Sequences, FiniteSets

EmptyJournal == [lines |-> <<>>, terminated |-> TRUE]

Whole(r) == [rec |-> r, whole |-> TRUE]
TornPiece(r) == [rec |-> r, whole |-> FALSE]

\* The bytes of a piece at the end of the file, without a newline.
Put(j, piece) ==
    IF j.terminated
    THEN [lines |-> Append(j.lines, <<piece>>), terminated |-> FALSE]
    ELSE [j EXCEPT !.lines[Len(j.lines)] = Append(@, piece)]

AppendRecordBug(j, r) == Put(j, Whole(r))

\* Journal.append that returns: the record and its newline are on the disk.
AppendRecord(j, r) == [Put(j, Whole(r)) EXCEPT !.terminated = TRUE]

\* Journal.append cut short, by a crash before the fsync or by a full disk: any
\* prefix of the line may have reached the file.
TornAppends(j, r) ==
    {j, Put(j, TornPiece(r)), Put(j, Whole(r)), AppendRecord(j, r)}

\* json.loads accepts a line with exactly one record; the beginning of one, and
\* two pieces run together, raise JSONDecodeError and are skipped.
Parses(line) == Len(line) = 1 /\ line[1].whole

\* Journal.read_all: the records of the lines that parse, each at the place of its line.
ReadAll(j) ==
    [i \in {k \in DOMAIN j.lines : Parses(j.lines[k])} |-> j.lines[i][1].rec]

\* AtomicFile: the document readers see (main) and the one being written beside
\* it (tmp).  <<d>> is the complete document d; <<>> a file that is not there or
\* does not parse, which read_json_or treats alike.
Unreadable == <<>>
NewFile == [main |-> Unreadable, tmp |-> Unreadable]

\* write_text up to the fsync: the temporary file holds all of the document.
WriteTmp(f, doc) == [f EXCEPT !.tmp = <<doc>>]

\* write_text cut short: what the temporary file holds does not parse.
TearTmp(f) == [f EXCEPT !.tmp = Unreadable]

\* os.replace: the temporary file takes the name of the main one.
Replace(f) == [main |-> f.tmp, tmp |-> Unreadable]

LoadBug(f, default) == default

\* StateStore.load: the document, or the default of the factory.
Load(f, default) == IF f.main = Unreadable THEN default ELSE f.main[1]
=============================================================================
