------------------------------- MODULE HexDump -------------------------------
(***************************************************************************)
(* hexdump_f (lgu/hexdump/hexdump.c): rows of sixteen bytes, put together   *)
(* with strcat in two arrays of fixed size.  Strings are modelled by their  *)
(* lengths; limit is not: the function does not use it.                     *)
(***************************************************************************)
EXTENDS Naturals, Sequences

CONSTANT MaxBytes      \* the longest dump

ASSUME DumpAssumption == MaxBytes \in Nat

VARIABLES
  dpc, nbytes,
  i, line,
  hd, hr,     \* strlen of the arrays
  rows        \* what was printed: label and both columns of each row

dumpVars == <<dpc, nbytes, i, line, hd, hr, rows>>

HdSize == 50
HrSize == 20

DumpInit ==
  /\ dpc = "done" /\ nbytes = 0
  /\ i = 0 /\ line = 0 /\ hd = 0 /\ hr = 0 /\ rows = <<>>

hexdump_f(n) ==
  /\ dpc = "done"
  /\ dpc' = "header" /\ nbytes' = n
  /\ i' = 0 /\ line' = 0 /\ hd' = 0 /\ hr' = 0 /\ rows' = <<>>

\* "%02X " and one character, and the gap in the middle of a row.
AppendByte ==
  LET gap == IF i % 16 = 7 THEN 1 ELSE 0
  IN  hd' = hd + 3 + gap /\ hr' = hr + 1 + gap

\* The title row is put together like the others.
dump_header ==
  /\ dpc = "header" /\ i < 16
  /\ AppendByte
  /\ i' = i + 1
  /\ UNCHANGED <<dpc, nbytes, line, rows>>

dump_title ==
  /\ dpc = "header" /\ i = 16
  /\ dpc' = "bytes"
  /\ i' = 0 /\ hd' = 0 /\ hr' = 0
  /\ UNCHANGED <<nbytes, line, rows>>

\* Mutant: a full row is noticed one byte late.
RowFull_Late == i % 16 = 0 /\ i > 0

RowFull == i % 16 = 15

dump_byte ==
  /\ dpc = "bytes" /\ i < nbytes /\ ~RowFull
  /\ AppendByte
  /\ i' = i + 1
  /\ UNCHANGED <<dpc, nbytes, line, rows>>

\* The byte that fills a row; the row is printed and the arrays are emptied.
dump_row ==
  /\ dpc = "bytes" /\ i < nbytes /\ RowFull
  /\ rows' = Append(rows, [label |-> 16 * line, hd |-> hd + 3, hr |-> hr + 1])
  /\ hd' = 0 /\ hr' = 0 /\ line' = line + 1
  /\ i' = i + 1
  /\ UNCHANGED <<dpc, nbytes>>

\* The rest, if there is one.
dump_end ==
  /\ dpc = "bytes" /\ i = nbytes
  /\ dpc' = "done"
  /\ rows' = IF hr > 0 THEN Append(rows, [label |-> 16 * line, hd |-> hd, hr |-> hr]) ELSE rows
  /\ UNCHANGED <<nbytes, i, line, hd, hr>>

DumpNext ==
  \/ \E n \in 0 .. MaxBytes : hexdump_f(n)
  \/ dump_header \/ dump_title \/ dump_byte \/ dump_row \/ dump_end

-----------------------------------------------------------------------------
\* hexdump_f for a row of n bytes at place k, and for all of them.
RowOf(k, n) ==
  LET gap == IF n > 7 THEN 1 ELSE 0
  IN  [label |-> 16 * k, hd |-> 3 * n + gap, hr |-> n + gap]

Dump(n) ==
  [k \in 1 .. (n + 15) \div 16 |-> RowOf(k - 1, IF 16 * k > n THEN n % 16 ELSE 16)]

\* Neither array overflows, the title row included, and the rows show every byte
\* once under its own address, for lengths on both sides of the row's ends, its
\* middle and zero.
DumpIsExact ==
  /\ hd < HdSize /\ hr < HrSize
  /\ \A k \in DOMAIN rows : rows[k].hd < HdSize /\ rows[k].hr < HrSize
  /\ dpc = "done" => rows = Dump(nbytes)
=============================================================================
