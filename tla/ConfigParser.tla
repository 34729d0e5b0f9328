---------------------------- MODULE ConfigParser ----------------------------
(***************************************************************************)
(* config_parser.c and validation.c of t3: what the lines of a             *)
(* configuration file become.  A line is the sequence of its words, as     *)
(* strtok() finds them.  An empty line has too few words and a comment     *)
(* does not begin with a path: both are skipped with the invalid ones.     *)
(***************************************************************************)
EXTENDS Naturals, SequencesExt

CONSTANTS
  MaxArgs,     \* MAX_ARGS, 8 in the program
  MaxExec,     \* MAX_EXEC, 64 in the program
  Absolute     \* the words that are absolute paths

ASSUME LimitsAssumption == MaxArgs \in Nat /\ MaxExec \in Nat \ {0}

(* Mistake: one word too few is kept.                                      *)
KeptOneLess(line) == SubSeq(line, 1, Min({Len(line), MaxArgs + 2}))
(* The line up to the words that are kept: the path, at most MaxArgs       *)
(* arguments and two files.  The rest is cut with a warning.               *)
Kept(line) == SubSeq(line, 1, Min({Len(line), MaxArgs + 3}))

(* The last two words that were kept are the files for fd 0 and fd 1.      *)
EntryOf(line) ==
  LET words == Kept(line)
      n == Len(words)
  IN  [argv |-> SubSeq(words, 1, n - 2), in |-> words[n - 1], out |-> words[n]]
ExecPath(entry) == Head(entry.argv)

(* Mistake: only the paths are checked.                                    *)
ValidPaths(entry, disk) ==
  {ExecPath(entry), entry.in, entry.out} \subseteq Absolute
(* disk is the file system as access() sees it: the files there are, and   *)
(* those that may be read and written.                                     *)
Valid(entry, disk) ==
  /\ {ExecPath(entry), entry.in, entry.out} \subseteq Absolute
  /\ entry.in \in disk.existing \cap disk.readable
  /\ entry.out \in disk.existing => entry.out \in disk.writable

Accepted(line, disk) == Len(line) >= 3 /\ Valid(EntryOf(line), disk)

(* One turn of the loop of parse(), and the loop.                          *)
AddLine(items, line, disk) ==
  IF Len(items) < MaxExec /\ Accepted(line, disk)
  THEN Append(items, EntryOf(line))
  ELSE items
Parse(file, disk) ==
  LET items[n \in 0..Len(file)] ==
        IF n = 0 THEN <<>> ELSE AddLine(items[n - 1], file[n], disk)
  IN  items[Len(file)]
=============================================================================
