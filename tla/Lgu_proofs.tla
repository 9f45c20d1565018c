----------------------------- MODULE Lgu_proofs -----------------------------
(***************************************************************************)
(* Proofs about Lgu: lists of any number of nodes, reading files of every   *)
(* size under every limit, and hex dumps of every length.                   *)
(***************************************************************************)
EXTENDS Lgu, List_proofs, TLAPS

(* fio_easyrw.                                                              *)

InCall == {"open", "read", "overrun", "aborted"}

FioTypes ==
  /\ file \in Nat /\ st_size \in Nat /\ accl \in Nat /\ limit \in Nat
  /\ fpc \in InCall \cup {"idle", "stat"} /\ mode \in {"simple", "block"}
  /\ out \in Nat \cup {NoBuf} /\ out_len \in Nat /\ out_max \in Nat
  /\ given \in Nat

\* The buffer and the descriptor belong to the call while it runs; afterwards there is
\* a buffer only after a simple read that succeeded.
HoldInv ==
  /\ bufs = (IF out = NoBuf THEN 0 ELSE 1)
  /\ fds = (IF fpc \in {"read", "overrun", "aborted"} THEN 1 ELSE 0)
  /\ fpc \in InCall => out # NoBuf
  /\ fpc = "stat" => out = NoBuf
  /\ fpc = "idle" => (out # NoBuf <=> res = "OK" /\ mode = "simple")
  /\ out = NoBuf => out_len = 0

\* What a simple read has stored is within the size that stat gave, and that within the
\* limit.
SimpleInv ==
  mode = "simple" =>
    /\ fpc = "stat" => accl = 0
    /\ (fpc \in InCall \/ (fpc = "idle" /\ res = "OK")) /\ limit # 0 => st_size =< limit
    /\ fpc \in InCall => /\ out_max = st_size % UIntMod
                         /\ out = (out_max + MY_PAGE_SZ) % UIntMod
                         /\ accl =< out_max
    /\ fpc = "overrun" => accl > out
    /\ fpc = "idle" /\ res = "OK" => out_len = accl /\ out_len = st_size % UIntMod

\* A block read has shown every byte, and never more than the limit.
BlockInv ==
  mode = "block" =>
    /\ fpc # "idle" \/ res = "OK" => given = accl
    /\ limit # 0 => given =< limit
    /\ fpc # "overrun"

FioInv == FioTypes /\ HoldInv /\ SimpleInv /\ BlockInv

(* hexdump_f.                                                               *)

\* strlen of both arrays after c bytes of a row.
HdOf(c) == 3 * c + (IF c > 7 THEN 1 ELSE 0)
HrOf(c) == c + (IF c > 7 THEN 1 ELSE 0)

Rows == [label : Nat, hd : Nat, hr : Nat]

\* The arrays hold the bytes of the row that is put together, and the rows before it
\* are printed; a dump that is done has all of them.
DumpInv ==
  /\ dpc \in {"done", "header", "bytes"} /\ nbytes \in Nat /\ i \in Nat /\ line \in Nat
  /\ rows \in Seq(Rows)
  /\ dpc = "header" => i =< 16 /\ hd = HdOf(i) /\ hr = HrOf(i) /\ line = 0 /\ rows = <<>>
  /\ dpc # "header" => i =< nbytes /\ hd = HdOf(i % 16) /\ hr = HrOf(i % 16)
  /\ dpc = "bytes" => /\ line = i \div 16 /\ Len(rows) = line
                      /\ \A k \in 1 .. line : rows[k] = RowOf(k - 1, 16)
  /\ dpc = "done" => rows = Dump(nbytes)

LguIInv == ListInv /\ FioInv /\ DumpInv

-----------------------------------------------------------------------------
(* fio_easyrw.                                                              *)

\* A call that ends with its buffer freed.
LEMMA FreedKeeps ==
  ASSUME FioInv, NEW r, ReturnFreed(r), fds' = 0,
         mode' = mode, given' \in Nat, accl' \in Nat, st_size' \in Nat,
         file' \in Nat, r = "OK" => mode = "block" /\ given' = accl',
         mode = "block" /\ limit # 0 => given' =< limit
  PROVE  FioInv'
<1> USE FioAssumption DEF FioInv, ReturnFreed, fio_easyrw_free_out
<1>1. FioTypes'
  BY DEF FioTypes
<1>2. HoldInv'
  BY DEF HoldInv, FioTypes, InCall
<1>3. SimpleInv' /\ BlockInv'
  BY DEF SimpleInv, BlockInv, FioTypes, InCall
<1> QED
  BY <1>1, <1>2, <1>3

\* Every step of a reader, and every change of the file, keeps FioInv.
LEMMA FioStep ==
  ASSUME FioInv, FioNext
  PROVE  FioInv'
<1> USE FioAssumption DEF FioInv, erwVars
<1>1. CASE fio_easyrw_exit
  BY <1>1 DEF fio_easyrw_exit, FioTypes, HoldInv, SimpleInv, BlockInv, InCall
<1>2. ASSUME NEW m \in {"simple", "block"}, fio_easyrw_call(m) PROVE FioInv'
  BY <1>2 DEF fio_easyrw_call, fio_easyrw_free_out, FioTypes, HoldInv, SimpleInv, BlockInv, InCall
<1>3. CASE fio_stat_fail
  BY <1>3 DEF fio_stat_fail, FioTypes, HoldInv, SimpleInv, BlockInv, InCall, OverLimit
<1>4. CASE fio_stat
  <2>1. FioTypes'
    BY <1>4 DEF fio_stat, fio_easyrw_alloc_out, FioTypes, InCall
  <2>2. HoldInv'
    BY <1>4 DEF fio_stat, fio_easyrw_alloc_out, FioTypes, HoldInv, InCall
  <2>3. SimpleInv'
    BY <1>4 DEF fio_stat, fio_easyrw_alloc_out, OverLimit, FioTypes, SimpleInv, InCall
  <2>4. BlockInv'
    BY <1>4 DEF fio_stat, fio_easyrw_alloc_out, FioTypes, BlockInv, InCall
  <2> QED
    BY <2>1, <2>2, <2>3, <2>4
<1>5. CASE fio_open_fail
  BY <1>5, FreedKeeps DEF fio_open_fail, FioTypes, HoldInv, BlockInv, InCall
<1>6. CASE fio_open
  BY <1>6 DEF fio_open, FioTypes, HoldInv, SimpleInv, BlockInv, InCall
<1>7. CASE fio_read_end
  <2>1. CASE mode = "block"
    BY <1>7, <2>1, FreedKeeps DEF fio_read_end, FioTypes, HoldInv, BlockInv, InCall
  <2>2. CASE mode = "simple" /\ accl # ExpectLen
    BY <1>7, <2>2, FreedKeeps DEF fio_read_end, FioTypes, HoldInv, BlockInv, InCall
  <2>3. CASE mode = "simple" /\ accl = ExpectLen
    <3>1. /\ fpc = "read" /\ fds' = fds - 1 /\ out_len' = ExpectLen /\ fpc' = "idle" /\ res' = "OK"
          /\ UNCHANGED <<limit, out, out_max, bufs, file, mode, st_size, accl, given>>
      BY <1>7, <2>3 DEF fio_read_end
    <3> QED
      BY <2>3, <3>1 DEF ExpectLen, FioTypes, HoldInv, SimpleInv, BlockInv, InCall
  <2> QED
    BY <2>1, <2>2, <2>3 DEF FioTypes
<1>8. CASE fio_read_error
  BY <1>8, FreedKeeps DEF fio_read_error, FioTypes, HoldInv, BlockInv, InCall
<1>9. ASSUME NEW n \in 1 .. MaxFile, fio_read_bytes(n) PROVE FioInv'
  <2>1. n \in Nat /\ fpc = "read" /\ accl' = accl + n /\ fds = 1
        /\ UNCHANGED <<file, mode, st_size>>
    BY <1>9 DEF fio_read_bytes, HoldInv
  <2>2. CASE mode = "simple"
    <3>1. accl + n =< out_max
      BY <1>9, <2>1, <2>2 DEF fio_read_bytes, Count, FioTypes, SimpleInv, InCall
    <3>2. UNCHANGED <<res, fds, given, erwVars>>
          /\ (fpc' = fpc \/ (fpc' = "overrun" /\ accl' > out))
      BY <1>9, <2>2 DEF fio_read_bytes
    <3> QED
      BY <2>1, <2>2, <3>1, <3>2 DEF FioTypes, HoldInv, SimpleInv, BlockInv, InCall
  <2>3. CASE mode = "block" /\ limit # 0 /\ accl' > limit
    <3>1. fds' = fds - 1 /\ ReturnFreed("OVERSZ") /\ UNCHANGED given
      BY <1>9, <2>3 DEF fio_read_bytes
    <3> QED
      BY <2>1, <2>3, <3>1, FreedKeeps DEF FioTypes, BlockInv
  <2>4. CASE mode = "block" /\ ~(limit # 0 /\ accl' > limit)
    <3>1. given' = given + n /\ given = accl
      BY <1>9, <2>1, <2>4 DEF fio_read_bytes, BlockInv
    <3>2. CASE out_len' = n /\ UNCHANGED <<fpc, res, fds, limit, out, out_max, bufs>>
      BY <2>1, <2>4, <3>1, <3>2 DEF FioTypes, HoldInv, SimpleInv, BlockInv, InCall
    <3>3. CASE fds' = fds - 1 /\ ReturnFreed("MISC")
      BY <2>1, <2>4, <3>1, <3>3, FreedKeeps DEF FioTypes, BlockInv
    <3> QED
      BY <1>9, <2>4, <3>2, <3>3 DEF fio_read_bytes
  <2> QED
    BY <2>2, <2>3, <2>4 DEF FioTypes
<1>10. CASE file_changes
  BY <1>10 DEF file_changes, FioTypes, HoldInv, SimpleInv, BlockInv
<1> QED
  BY <1>1, <1>2, <1>3, <1>4, <1>5, <1>6, <1>7, <1>8, <1>9, <1>10 DEF FioNext
-----------------------------------------------------------------------------
(* hexdump_f.                                                               *)

\* A row that is printed after all its bytes is the one RowOf describes.
LEMMA RowIsRowOf ==
  ASSUME NEW k \in Nat, NEW c \in 0 .. 16
  PROVE  /\ [label |-> 16 * k, hd |-> HdOf(c), hr |-> HrOf(c)] = RowOf(k, c)
         /\ RowOf(k, c) \in Rows
BY DEF RowOf, HdOf, HrOf, Rows

\* What printing a row does to the rows.
LEMMA RowsAppend ==
  ASSUME NEW s \in Seq(Rows), NEW r \in Rows
  PROVE  /\ Append(s, r) \in Seq(Rows)
         /\ Len(Append(s, r)) = Len(s) + 1 /\ Len(s) \in Nat
         /\ Append(s, r)[Len(s) + 1] = r
         /\ \A k \in 1 .. Len(s) : Append(s, r)[k] = s[k]
OBVIOUS

\* The dump of n bytes, row by row.
LEMMA DumpRows ==
  ASSUME NEW n \in Nat, NEW s \in Seq(Rows), Len(s) = (n + 15) \div 16,
         \A k \in 1 .. n \div 16 : s[k] = RowOf(k - 1, 16),
         n % 16 # 0 => s[n \div 16 + 1] = RowOf(n \div 16, n % 16)
  PROVE  s = Dump(n)
<1>1. s = [k \in 1 .. (n + 15) \div 16 |-> s[k]]
  OBVIOUS
<1>2. ASSUME NEW k \in 1 .. (n + 15) \div 16
      PROVE  s[k] = RowOf(k - 1, IF 16 * k > n THEN n % 16 ELSE 16)
  <2>1. CASE 16 * k > n
    <3>1. k = n \div 16 + 1 /\ n % 16 # 0 /\ k - 1 = n \div 16
      BY <2>1
    <3> QED
      BY <2>1, <3>1
  <2>2. CASE ~(16 * k > n)
    <3>1. k \in 1 .. n \div 16
      BY <2>2
    <3> QED
      BY <2>2, <3>1
  <2> QED
    BY <2>1, <2>2
<1> HIDE DEF RowOf
<1> QED
  BY <1>1, <1>2 DEF Dump

\* Every step of hexdump_f keeps DumpInv.
LEMMA DumpStep ==
  ASSUME DumpInv, DumpNext
  PROVE  DumpInv'
<1> USE DumpAssumption DEF DumpInv
<1>1. ASSUME NEW n \in 0 .. MaxBytes, hexdump_f(n) PROVE DumpInv'
  BY <1>1 DEF hexdump_f, HdOf, HrOf
<1>2. CASE dump_header
  BY <1>2 DEF dump_header, AppendByte, HdOf, HrOf
<1>3. CASE dump_title
  BY <1>3 DEF dump_title, HdOf, HrOf
<1>4. CASE dump_byte
  <2>1. /\ dpc = "bytes" /\ i < nbytes /\ i % 16 # 15 /\ i' = i + 1
        /\ UNCHANGED <<dpc, nbytes, line, rows>>
    BY <1>4 DEF dump_byte, RowFull
  <2>2. (i + 1) % 16 = (i % 16) + 1 /\ (i + 1) \div 16 = i \div 16
    BY <2>1
  <2>3. hd' = HdOf((i % 16) + 1) /\ hr' = HrOf((i % 16) + 1)
    BY <1>4, <2>1 DEF dump_byte, AppendByte, HdOf, HrOf
  <2> QED
    BY <2>1, <2>2, <2>3
<1>5. CASE dump_row
  <2>1. /\ dpc = "bytes" /\ i < nbytes /\ i % 16 = 15 /\ i' = i + 1 /\ line' = line + 1
        /\ hd' = 0 /\ hr' = 0 /\ UNCHANGED <<dpc, nbytes>>
        /\ rows' = Append(rows, [label |-> 16 * line, hd |-> hd + 3, hr |-> hr + 1])
    BY <1>5 DEF dump_row, RowFull
  <2>2. (i + 1) % 16 = 0 /\ (i + 1) \div 16 = line + 1 /\ HdOf(0) = 0 /\ HrOf(0) = 0
    BY <2>1 DEF HdOf, HrOf
  <2>3. hd + 3 = HdOf(16) /\ hr + 1 = HrOf(16)
    BY <2>1 DEF HdOf, HrOf
  <2>4. rows' = Append(rows, RowOf(line, 16)) /\ RowOf(line, 16) \in Rows
    <3>1. 16 \in 0 .. 16 /\ line \in Nat
      OBVIOUS
    <3>2. [label |-> 16 * line, hd |-> hd + 3, hr |-> hr + 1] = RowOf(line, 16)
          /\ RowOf(line, 16) \in Rows
      BY <2>3, <3>1, RowIsRowOf
    <3> QED
      BY <2>1, <3>2
  <2>5. /\ rows' \in Seq(Rows) /\ Len(rows') = line + 1
        /\ \A k \in 1 .. line + 1 : rows'[k] = RowOf(k - 1, 16)
    BY <2>1, <2>4, RowsAppend
  <2> QED
    BY <2>1, <2>2, <2>5
<1>6. CASE dump_end
  <2>1. dpc = "bytes" /\ dpc' = "done" /\ i = nbytes /\ UNCHANGED <<nbytes, i, line, hd, hr>>
    BY <1>6 DEF dump_end
  <2>2. hr > 0 <=> nbytes % 16 # 0
    BY <2>1 DEF HrOf
  <2>3. CASE nbytes % 16 = 0
    <3>1. rows' = rows /\ (nbytes + 15) \div 16 = line
      BY <1>6, <2>1, <2>2, <2>3 DEF dump_end
    <3>2. rows' = Dump(nbytes)
      BY <2>1, <2>3, <3>1, DumpRows
    <3> QED
      BY <2>1, <3>1, <3>2
  <2>4. CASE nbytes % 16 # 0
    <3>1. /\ rows' = Append(rows, RowOf(line, nbytes % 16)) /\ RowOf(line, nbytes % 16) \in Rows
          /\ (nbytes + 15) \div 16 = line + 1
      <4>1. nbytes % 16 \in 0 .. 16 /\ line \in Nat
        OBVIOUS
      <4>2. [label |-> 16 * line, hd |-> hd, hr |-> hr] = RowOf(line, nbytes % 16)
            /\ RowOf(line, nbytes % 16) \in Rows
        BY <2>1, <4>1, RowIsRowOf
      <4>3. (nbytes + 15) \div 16 = line + 1
        BY <2>1, <2>4
      <4> QED
        BY <1>6, <2>2, <2>4, <4>2, <4>3 DEF dump_end
    <3>2. /\ rows' \in Seq(Rows) /\ Len(rows') = line + 1
          /\ \A k \in 1 .. line : rows'[k] = RowOf(k - 1, 16)
          /\ rows'[line + 1] = RowOf(line, nbytes % 16)
      BY <2>1, <3>1, RowsAppend, SMTT(20)
    <3>3. rows' = Dump(nbytes)
      BY <2>1, <2>4, <3>1, <3>2, DumpRows
    <3> QED
      BY <2>1, <3>2, <3>3
  <2> QED
    BY <2>3, <2>4
<1> QED
  BY <1>1, <1>2, <1>3, <1>4, <1>5, <1>6 DEF DumpNext

-----------------------------------------------------------------------------
(* The theorems.                                                            *)

\* All parts keep their invariants, whichever of them is used.
THEOREM LguInvariant == LguSpec => []LguIInv
<1>1. LguInit => LguIInv
  <2>1. FioInit => FioInv
    BY FioAssumption DEF FioInit, FioInv, FioTypes, HoldInv, SimpleInv, BlockInv, InCall
  <2>2. DumpInit => DumpInv
    <3> SUFFICES ASSUME DumpInit PROVE DumpInv
      OBVIOUS
    <3>1. rows = Dump(0) /\ rows \in Seq(Rows)
      BY DEF DumpInit, Dump
    <3> QED
      BY <3>1 DEF DumpInit, DumpInv, HdOf, HrOf
  <2> QED
    BY <2>1, <2>2, ListInitInv DEF LguInit, LguIInv
<1>2. LguIInv /\ [LguNext]_lguVars => LguIInv'
  <2> SUFFICES ASSUME LguIInv, [LguNext]_lguVars PROVE LguIInv'
    OBVIOUS
  <2>1. FioInv'
    <3>1. CASE FioNext
      BY <3>1, FioStep DEF LguIInv
    <3>2. CASE UNCHANGED fioVars
      BY <3>2 DEF LguIInv, FioInv, fioVars, erwVars, FioTypes, HoldInv, SimpleInv, BlockInv
    <3> QED
      BY <3>1, <3>2 DEF LguNext, lguVars
  <2>2. DumpInv'
    <3>1. CASE DumpNext
      BY <3>1, DumpStep DEF LguIInv
    <3>2. CASE UNCHANGED dumpVars
      BY <3>2 DEF LguIInv, DumpInv, dumpVars
    <3> QED
      BY <3>1, <3>2 DEF LguNext, lguVars
  <2>3. ListInv'
    <3>1. ListInv /\ (ListNext \/ HlistChange \/ UNCHANGED listVars)
      BY DEF LguIInv, LguNext, lguVars
    <3> QED
      BY <3>1, ListStep
  <2> QED
    BY <2>1, <2>2, <2>3 DEF LguIInv
<1> QED
  BY <1>1, <1>2, PTL DEF LguSpec

\* Whatever callers do with lists and hash lists, the pointers of both directions agree, no
\* node is in two lists and list_empty, list_is_last and hlist_empty answer accordingly,
\* for every set of heads and every finite set of nodes.
THEOREM ListsWellLinked == LguSpec => []WellLinked
<1>1. LguIInv => WellLinked
  BY InvWellLinked DEF LguIInv
<1> QED
  BY <1>1, LguInvariant, PTL

\* In every state that callers can reach, every operation of list.h does to the pointers
\* what Lists says it does to the sequences.
THEOREM OperationsImplementSequences == LguSpec => []ImplementsSequences
<1>1. LguIInv => ImplementsSequences
  BY InvImplements DEF LguIInv
<1> QED
  BY <1>1, LguInvariant, PTL

\* A safe loop visits every node once and in order, in lists of any length and whatever
\* its body does with each node.
THEOREM SafeLoopsVisitAll == LguSpec => []SafeLoopVisitsAll
<1>1. LguIInv => SafeLoopVisitsAll
  BY InvLoops DEF LguIInv
<1> QED
  BY <1>1, LguInvariant, PTL

\* A read returns an error and no buffer, or OK and the file: every byte of it when its
\* size is a value of unsigned int, whatever the limit and whatever happens to the file
\* meanwhile.  It loses neither buffer nor descriptor.
THEOREM ReadIsAllOrNothing == LguSpec => []ReadAllOrNothing
<1>1. LguIInv => ReadAllOrNothing
  <2> SUFFICES ASSUME FioInv PROVE ReadAllOrNothing
    BY DEF LguIInv
  <2>1. st_size < UIntMod => st_size % UIntMod = st_size
    BY FioAssumption DEF FioInv, FioTypes
  <2> QED
    BY <2>1 DEF FioInv, FioTypes, HoldInv, SimpleInv, BlockInv, InCall, ReadAllOrNothing
<1> QED
  BY <1>1, LguInvariant, PTL

\* A limit a page below UINT_MAX keeps every store inside the buffer and every length
\* exact, for every width of unsigned int.
THEOREM LimitIsEnough == LguSpec => []LimitProtects
<1>1. LguIInv => LimitProtects
  <2> SUFFICES ASSUME FioInv, limit \in 1 .. UIntMod - MY_PAGE_SZ - 1
        PROVE /\ fpc # "overrun"
              /\ fpc = "idle" /\ res = "OK" /\ mode = "simple" =>
                   out_len = st_size /\ out_len =< limit
              /\ mode = "block" => given =< limit
    BY DEF LguIInv, LimitProtects
  <2> USE FioAssumption DEF FioInv, FioTypes
  <2>1. st_size =< limit => st_size % UIntMod = st_size
    OBVIOUS
  <2>2. fpc # "overrun"
    <3> SUFFICES ASSUME fpc = "overrun" PROVE FALSE
      OBVIOUS
    <3>1. mode = "simple" /\ st_size =< limit /\ out_max = st_size % UIntMod /\ accl =< out_max
          /\ out = (out_max + MY_PAGE_SZ) % UIntMod /\ accl > out
      BY DEF SimpleInv, BlockInv, InCall
    <3>2. out_max =< limit /\ out = out_max + MY_PAGE_SZ
      BY <2>1, <3>1
    <3> QED
      BY <3>1, <3>2
  <2>3. fpc = "idle" /\ res = "OK" /\ mode = "simple" => out_len = st_size /\ out_len =< limit
    BY <2>1 DEF SimpleInv
  <2>4. mode = "block" => given =< limit
    BY DEF BlockInv
  <2> QED
    BY <2>2, <2>3, <2>4
<1> QED
  BY <1>1, LguInvariant, PTL

\* hexdump_f prints every byte once under its address and overflows neither array, for
\* every length.
THEOREM DumpOfEveryLength == LguSpec => []DumpIsExact
<1>1. LguIInv => DumpIsExact
  <2> SUFFICES ASSUME DumpInv PROVE DumpIsExact
    BY DEF LguIInv
  <2> USE DEF DumpInv
  <2>1. hd < HdSize /\ hr < HrSize
    BY DEF HdOf, HrOf, HdSize, HrSize
  <2>2. \A k \in DOMAIN rows : rows[k].hd < HdSize /\ rows[k].hr < HrSize
    <3> SUFFICES ASSUME NEW k \in DOMAIN rows
          PROVE rows[k].hd < HdSize /\ rows[k].hr < HrSize
      OBVIOUS
    <3>1. \E c \in 0 .. 16 : rows[k] = RowOf(k - 1, c)
      <4>1. CASE dpc = "bytes"
        BY <4>1, SMTT(20)
      <4>2. CASE dpc = "header"
        BY <4>2
      <4>3. CASE dpc = "done"
        <5>1. k \in 1 .. (nbytes + 15) \div 16
              /\ rows[k] = RowOf(k - 1, IF 16 * k > nbytes THEN nbytes % 16 ELSE 16)
          BY <4>3 DEF Dump
        <5>2. (IF 16 * k > nbytes THEN nbytes % 16 ELSE 16) \in 0 .. 16
          OBVIOUS
        <5> QED
          BY <5>1, <5>2
      <4> QED
        BY <4>1, <4>2, <4>3
    <3> QED
      BY <3>1 DEF RowOf, HdSize, HrSize
  <2> QED
    BY <2>1, <2>2 DEF DumpIsExact
<1> QED
  BY <1>1, LguInvariant, PTL
=============================================================================
