------------------------------ MODULE TapeFile ------------------------------
(***************************************************************************)
(* A tape as the file it is (record/jsonl.py): a header line and one line  *)
(* per record, written by JsonlStore.append and read back by read_records. *)
(* No state: a file is a sequence of lines.                                *)
(*                                                                         *)
(* A line ends "whole" (with its newline), "bare" (all of its text, no     *)
(* newline), "torn" (a part of its text), or is "junk": two texts on one   *)
(* line, which is what an append makes of a file that does not end in a    *)
(* newline.                                                                *)
(***************************************************************************)
EXTENDS Naturals, SequencesExt

Line(text, end) == [text |-> text, end |-> end]

\* An event as append gets it: a kind, a step, and the fields a reader tells apart.
Event(kind, step, msg, key) == [kind |-> kind, step |-> step, msg |-> msg, key |-> key]
HeaderOf(nothing) == [seq |-> 0, event |-> Event("header", 0, nothing, <<>>)]
Numbered(seq, event) == [seq |-> seq, event |-> event]

\* open("a"): what is written next goes on after whatever the file ends with.
Joined(file, line) ==
  IF file # <<>> /\ Last(file).end # "whole"
    THEN Append(Front(file), Line(line.text, "junk"))
    ELSE Append(file, line)

\* _open: the header first, when the file was empty then.
Headed(file, fresh, header) ==
  IF fresh THEN Joined(file, Line(header, "whole")) ELSE file

Appended(file, fresh, header, record) ==
  Joined(Headed(file, fresh, header), Line(record, "whole"))

\* The files a process that dies in its write or flush may leave behind.
Cuts(file, fresh, header, record) ==
  LET ends == {"whole", "bare", "torn"}
  IN  {file} \cup {Joined(file, Line(header, e)) : e \in IF fresh THEN ends ELSE {}}
             \cup {Joined(Headed(file, fresh, header), Line(record, e)) : e \in ends}

\* read_records: an empty file has no records; a first line that is no header and
\* any line that does not parse raise, and no reader keeps what came before.
Parses(line) == line.end \in {"whole", "bare"}
Readable(file) ==
  file # <<>> => /\ \A i \in 1..Len(file) : Parses(file[i])
                 /\ file[1].text.event.kind = "header"
Records(file) ==
  IF file = <<>> THEN <<>> ELSE [i \in 1..Len(file) - 1 |-> file[i + 1].text]

=============================================================================
