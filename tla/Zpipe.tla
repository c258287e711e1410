-------------------------------- MODULE Zpipe --------------------------------
(***************************************************************************)
(* def and inf of code/zlib/zlib.c: a file goes through deflate or inflate *)
(* in pieces of CHUNK. Data is counted, not looked at: each unit read puts *)
(* a number of units the library chooses behind its output. The library    *)
(* works on until it has no input or no room for output.                   *)
(***************************************************************************)
EXTENDS Integers

CONSTANTS CHUNK,
          SourceSizes,      \* lengths of the file read
          MaxExpansion      \* bound: units one unit read becomes

ASSUME ZpipeAssumption == CHUNK \in Nat \ {0} /\ SourceSizes \subseteq Nat /\ MaxExpansion \in Nat

VARIABLES zmode,            \* "def" or "inf"
          zsource,          \* [size, end]: its length, and that of the stream in it when it is inflated
          zstage,           \* "init", "read", "run", "check" or "returned"
          zstrm,            \* [avail_in, avail_out, next]: next is what was read of zsource
          zpending,         \* units in the library
          zfinished,        \* the library has reported Z_STREAM_END
          zflush,           \* Z_FINISH was asked for
          zdest,            \* units written
          zmade,            \* units the library has made
          zlive,            \* the library's state is allocated
          zret              \* the value returned

zpipeVars == <<zmode, zsource, zstage, zstrm, zpending, zfinished, zflush, zdest, zmade, zlive, zret>>

ZpipeInit(modes, sizes) ==
  /\ zmode \in modes
  /\ zsource \in {[size |-> size, end |-> end] : size \in sizes, end \in sizes}
  /\ IF zmode = "def" THEN zsource.end = zsource.size ELSE zsource.end > 0
  /\ zstage = "init" /\ zstrm = [avail_in |-> 0, avail_out |-> 0, next |-> 0]
  /\ zpending = 0 /\ zfinished = FALSE /\ zflush = FALSE /\ zdest = 0 /\ zmade = 0 /\ zlive = 0
  /\ zret = "Z_OK"

\* deflateInit and inflateInit.
InitStream ==
  /\ zstage = "init"
  /\ \/ zstage' = "read" /\ zlive' = 1 /\ UNCHANGED zret
     \/ zstage' = "returned" /\ zret' = "Z_MEM_ERROR" /\ UNCHANGED zlive
  /\ UNCHANGED <<zmode, zsource, zstrm, zpending, zfinished, zflush, zdest, zmade>>

\* deflateEnd or inflateEnd, and return.
EndStream(ret) == zstage' = "returned" /\ zret' = ret /\ zlive' = zlive - 1
EndOnly(ret) == EndStream(ret) /\ UNCHANGED <<zmode, zsource, zstrm, zpending, zfinished, zflush, zdest, zmade>>

\* fread gives fewer than CHUNK only at the end, and feof is set by a read that
\* gives fewer. inf stops when it gets nothing, without the end of the stream.
ReadSource ==
  LET rest == zsource.size - zstrm.next
      got == IF rest < CHUNK THEN rest ELSE CHUNK
  IN /\ zstage = "read"
     /\ \/ EndOnly("Z_ERRNO")
        \/ zmode = "inf" /\ got = 0 /\ EndOnly("Z_DATA_ERROR")
        \/ /\ zmode = "def" \/ got > 0
           /\ zstrm' = [zstrm EXCEPT !.avail_in = got, !.next = @ + got]
           /\ zflush' = (zmode = "def" /\ got < CHUNK) /\ zstage' = "run"
           /\ UNCHANGED <<zmode, zsource, zpending, zfinished, zdest, zmade, zlive, zret>>

\* Of the input, what still belongs to the stream: inflate stops at its end.
InStream ==
  LET begin == zstrm.next - zstrm.avail_in
  IN IF zsource.end <= begin THEN 0 ELSE IF zsource.end >= zstrm.next THEN zstrm.avail_in ELSE zsource.end - begin

\* Z_STREAM_END: all of the stream has gone in and out again.
AtEnd(used, rest) ==
  rest = 0 /\ IF zmode = "def" THEN zflush /\ used = zstrm.avail_in
              ELSE zstrm.next - zstrm.avail_in + used = zsource.end

\* One call of deflate or inflate, and the fwrite of what it gives.
RunStream ==
  /\ zstage = "run"
  /\ \E used \in 0..InStream : \E new \in 0..(used * MaxExpansion) :
       LET out == IF zpending + new < CHUNK THEN zpending + new ELSE CHUNK
           rest == zpending + new - out
       IN /\ out < CHUNK => used = InStream
          /\ zstrm' = [zstrm EXCEPT !.avail_in = @ - used, !.avail_out = CHUNK - out]
          /\ zpending' = rest /\ zmade' = zmade + new /\ zfinished' = (zfinished \/ AtEnd(used, rest))
          /\ \/ zdest' = zdest + out /\ zstage' = "check" /\ UNCHANGED <<zlive, zret>>
             \/ EndStream("Z_ERRNO") /\ UNCHANGED zdest
  /\ UNCHANGED <<zmode, zsource, zflush>>

\* inflate finds an error in the data, wants a dictionary or has no memory.
RunFails == zstage = "run" /\ zmode = "inf" /\ EndOnly("Z_DATA_ERROR")

\* MUTANT OutputFull: a full buffer is not asked about.
OutputFullNever == FALSE
OutputFull == zstrm.avail_out = 0

\* The conditions of the two loops.
CheckStream ==
  /\ zstage = "check"
  /\ IF OutputFull THEN zstage' = "run" /\ UNCHANGED <<zlive, zret>>
     ELSE IF IF zmode = "def" THEN zflush ELSE zfinished THEN EndStream("Z_OK")
     ELSE zstage' = "read" /\ UNCHANGED <<zlive, zret>>
  /\ UNCHANGED <<zmode, zsource, zstrm, zpending, zfinished, zflush, zdest, zmade>>

ZpipeNext == InitStream \/ ReadSource \/ RunStream \/ RunFails \/ CheckStream

----------------------------------------------------------------------------
\* Z_OK is returned only when all of the stream was read and written, the
\* assertions of def hold (zlib.c:76, 80), and the state of the library is
\* freed once, on every way out. inf without an end of the stream gives an error.
StreamWhole ==
  /\ zlive = IF zstage \in {"init", "returned"} THEN 0 ELSE 1
  /\ zstage = "returned" /\ zret = "Z_OK" =>
       /\ zfinished /\ zdest = zmade /\ zpending = 0
       /\ zmode = "def" => zstrm.next = zsource.size
       /\ zmode = "inf" => zsource.end <= zstrm.next
  /\ zmode = "def" /\ zstage \in {"read", "check"} /\ zstrm.avail_out > 0 => zstrm.avail_in = 0
=============================================================================
