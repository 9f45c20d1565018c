------------------------------ MODULE FioEasyRw ------------------------------
(***************************************************************************)
(* Reading a file (lgu/fio/fio_easyrw.c): at once into a buffer that stat   *)
(* gave the size of, or block by block through a callback, while somebody   *)
(* else makes the file longer and shorter.                                  *)
(*                                                                         *)
(* Bytes are counted, not looked at.  External: read returns 0 at the end   *)
(* of the file or for a count of 0, any smaller number of bytes than were   *)
(* asked for, or an error; stat, malloc and open can fail.                  *)
(***************************************************************************)
EXTENDS Naturals

CONSTANTS
  UIntMod,      \* number of values of an unsigned int
  MY_PAGE_SZ,
  BlockSize,    \* the 8192 of fio_easyrw_read
  Limits,       \* values for limit; 0: unlimited
  MaxFile,      \* the largest file, above UIntMod
  NoBuf         \* out = NULL

ASSUME FioAssumption ==
  /\ {UIntMod, MY_PAGE_SZ, BlockSize, MaxFile} \subseteq Nat \ {0}
  /\ BlockSize + MY_PAGE_SZ < UIntMod
  /\ Limits \subseteq Nat /\ NoBuf \notin Nat

VARIABLES
  file,                              \* the size of the file
  fpc, mode, st_size, accl,          \* the call: its place, read_simple or read, its locals
  limit, out, out_len, out_max,      \* struct fio_easyrw; out is the size of the buffer
  res,                               \* what the last call returned
  bufs, fds,                         \* buffers not freed and descriptors not closed
  given                              \* bytes the callback was shown

erwVars == <<limit, out, out_len, out_max, bufs>>
fioVars == <<file, fpc, mode, st_size, accl, res, fds, given, erwVars>>

FioInit ==
  /\ file = 0
  /\ fpc = "idle" /\ mode = "simple" /\ st_size = 0 /\ accl = 0
  /\ limit = 0 /\ out = NoBuf /\ out_len = 0 /\ out_max = 0
  /\ res = "NONE" /\ bufs = 0 /\ fds = 0 /\ given = 0

\* A page more than len, computed in an unsigned int.
fio_easyrw_alloc_out(len) ==
  /\ out' = (len + MY_PAGE_SZ) % UIntMod /\ out_len' = 0 /\ out_max' = len
  /\ bufs' = bufs + 1
  /\ UNCHANGED limit

fio_easyrw_free_out ==
  /\ bufs' = IF out = NoBuf THEN bufs ELSE bufs - 1
  /\ out' = NoBuf /\ out_len' = 0 /\ out_max' = 0
  /\ UNCHANGED limit

\* Every early return after the first frees the buffer.
ReturnFreed(r) ==
  /\ fpc' = "idle" /\ res' = r
  /\ fio_easyrw_free_out

\* fio_easyrw_exit, and fio_easyrw_init for the next user.
fio_easyrw_exit ==
  /\ fpc = "idle"
  /\ limit' \in Limits
  /\ bufs' = IF out = NoBuf THEN bufs ELSE bufs - 1
  /\ out' = NoBuf /\ out_len' = 0 /\ out_max' = 0
  /\ res' = "NONE" /\ st_size' = 0 /\ accl' = 0 /\ given' = 0
  /\ UNCHANGED <<file, fpc, mode, fds>>

\* fio_easyrw_read_simple or fio_easyrw_read is called, with or without a path.
fio_easyrw_call(m) ==
  /\ fpc = "idle"
  /\ mode' = m /\ st_size' = 0 /\ accl' = 0 /\ given' = 0
  /\ fio_easyrw_free_out
  /\ \/ fpc' = "stat" /\ res' = "NONE"
     \/ fpc' = "idle" /\ res' = "INVAL"
  /\ UNCHANGED <<file, fds>>

\* Mutant: the limit is not looked at.
OverLimit_Never(size) == FALSE

OverLimit(size) == mode = "simple" /\ limit # 0 /\ limit < size

\* stat fails, the file is not regular, too large, or there is no memory.
fio_stat_fail ==
  /\ fpc = "stat" /\ fpc' = "idle"
  /\ st_size' = file
  /\ res' \in {"OPEN"} \cup IF OverLimit(file) THEN {"OVERSZ"} ELSE {"NOMEM"}
  /\ UNCHANGED <<file, mode, accl, fds, given, erwVars>>

\* stat, and a buffer for the whole file or for a block.
fio_stat ==
  /\ fpc = "stat" /\ ~OverLimit(file)
  /\ fpc' = "open"
  /\ st_size' = file
  /\ fio_easyrw_alloc_out(IF mode = "simple" THEN file % UIntMod ELSE BlockSize)
  /\ UNCHANGED <<file, mode, accl, res, fds, given>>

fio_open_fail ==
  /\ fpc = "open" /\ ReturnFreed("OPEN")
  /\ UNCHANGED <<file, mode, st_size, accl, fds, given>>

\* open, and the assertions before the loop: out_max > 0.
fio_open ==
  /\ fpc = "open"
  /\ fpc' = IF out_max > 0 THEN "read" ELSE "aborted"
  /\ fds' = fds + 1
  /\ UNCHANGED <<file, mode, st_size, accl, res, given, erwVars>>

-----------------------------------------------------------------------------
(* The loops.                                                               *)

Count == IF mode = "simple" THEN out_max - accl ELSE out_max
AtEnd == file =< accl \/ Count = 0
ExpectLen == st_size % UIntMod

\* Mutant: a file that got shorter is taken for a complete one.
fio_read_end_Short ==
  /\ fpc = "read" /\ AtEnd /\ fds' = fds - 1
  /\ IF mode = "simple"
     THEN /\ out_len' = ExpectLen
          /\ fpc' = "idle" /\ res' = "OK" /\ UNCHANGED <<limit, out, out_max, bufs>>
     ELSE ReturnFreed("OK")
  /\ UNCHANGED <<file, mode, st_size, accl, given>>

\* read returns 0: the buffer stays with the caller, or the blocks are done.
fio_read_end ==
  /\ fpc = "read" /\ AtEnd /\ fds' = fds - 1
  /\ CASE mode = "block" -> ReturnFreed("OK")
       [] mode = "simple" /\ accl # ExpectLen -> ReturnFreed("IO")
       [] OTHER -> /\ out_len' = ExpectLen
                   /\ fpc' = "idle" /\ res' = "OK"
                   /\ UNCHANGED <<limit, out, out_max, bufs>>
  /\ UNCHANGED <<file, mode, st_size, accl, given>>

fio_read_error ==
  /\ fpc = "read" /\ fds' = fds - 1 /\ ReturnFreed("IO")
  /\ UNCHANGED <<file, mode, st_size, accl, given>>

\* read returns n bytes; in the block loop they are shown to the callback.  The
\* test accl > expect_len cannot succeed: Count is what is left of expect_len.  What
\* follows a store behind the buffer is undefined, and the model stops there.
fio_read_bytes(n) ==
  /\ fpc = "read" /\ ~AtEnd /\ n =< Count /\ n =< file - accl
  /\ accl' = accl + n
  /\ \/ /\ mode = "simple" /\ accl' > out
        /\ fpc' = "overrun" /\ UNCHANGED <<res, fds, given, erwVars>>
     \/ /\ mode = "simple" /\ accl' =< out
        /\ UNCHANGED <<fpc, res, fds, given, erwVars>>
     \/ /\ mode = "block" /\ limit # 0 /\ accl' > limit
        /\ fds' = fds - 1 /\ ReturnFreed("OVERSZ") /\ UNCHANGED given
     \/ /\ mode = "block" /\ ~(limit # 0 /\ accl' > limit)
        /\ given' = given + n
        /\ \/ out_len' = n /\ UNCHANGED <<fpc, res, fds, limit, out, out_max, bufs>>
           \/ fds' = fds - 1 /\ ReturnFreed("MISC")
  /\ UNCHANGED <<file, mode, st_size>>

\* Somebody else writes or truncates the file.
file_changes ==
  /\ file' \in 0 .. MaxFile
  /\ UNCHANGED <<fpc, mode, st_size, accl, res, fds, given, erwVars>>

FioNext ==
  \/ fio_easyrw_exit \/ (\E m \in {"simple", "block"} : fio_easyrw_call(m))
  \/ fio_stat_fail \/ fio_stat \/ fio_open_fail \/ fio_open
  \/ fio_read_end \/ fio_read_error \/ (\E n \in 1 .. MaxFile : fio_read_bytes(n))
  \/ file_changes

-----------------------------------------------------------------------------
(* Properties.                                                              *)

\* Whatever happens to the file meanwhile, a call returns everything or nothing.
\* After OK the caller owns one buffer with as many bytes in it as out_len says, all
\* of the file as stat saw it if its size is a value of unsigned int, or its callback
\* was shown every byte that was read.  (A larger file that no limit refuses is cut to
\* its size modulo UIntMod and still returned as OK.)  After an error there is no
\* buffer.  On every path the descriptor is closed and no buffer is lost, also when
\* the structure is used again with a buffer still in it.
ReadAllOrNothing ==
  fpc = "idle" =>
    /\ fds = 0 /\ bufs = (IF out = NoBuf THEN 0 ELSE 1)
    /\ IF res = "OK" /\ mode = "simple"
       THEN out # NoBuf /\ out_len = accl /\ (st_size < UIntMod => out_len = st_size)
       ELSE out = NoBuf /\ out_len = 0
    /\ res = "OK" /\ mode = "block" => given = accl

\* A limit that leaves a page below UINT_MAX protects the caller from files of any
\* size and from files that grow after stat: no byte is stored outside the buffer, the
\* length that is returned is the file's and not what is left of it in an unsigned
\* int, and a callback never sees more bytes than the limit.
LimitProtects ==
  limit \in 1 .. UIntMod - MY_PAGE_SZ - 1 =>
    /\ fpc # "overrun"
    /\ fpc = "idle" /\ res = "OK" /\ mode = "simple" => out_len = st_size /\ out_len =< limit
    /\ mode = "block" => given =< limit

\* "Read all data into output." (fio_easyrw.c:127), with "never alloc a zero buf"
\* (:46) for the empty file: reading a regular file ends with a result.
EveryFileIsRead == fpc # "aborted"
=============================================================================
