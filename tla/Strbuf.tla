-------------------------------- MODULE Strbuf --------------------------------
(***************************************************************************)
(* String buffers as values, src/src/rtl/rtl_strbuf.c: a length, a maximal *)
(* length, and as many bytes.  Both lengths are words of LEN values        *)
(* (uint16_t), and so is every count the functions take.                   *)
(***************************************************************************)
EXTENDS Integers, SequencesExt

CONSTANTS
    LEN,          \* 2^16 in the code
    Junk          \* a byte nobody wrote

ASSUME StrbufAssumption == LEN \in Nat \ {0, 1}

Smaller(a, b) == IF a < b THEN a ELSE b

\* rtl_strbuf_alloc, given the memory: size is an unsigned, larger ones are cut.
Allocated(size) ==
    LET max == IF size > LEN - 1 THEN LEN - 1 ELSE size
    IN [length |-> 0, max_length |-> max, data |-> [i \in 1 .. max |-> Junk]]

\* rtl_strbuf_append_bytes: what does not fit is left out.
ToCopy_All(sb, count) == count                                          \* mutant
ToCopy(sb, count) == Smaller(count, sb.max_length - sb.length)

Appended(sb, bytes) ==
    LET to_copy == ToCopy(sb, Len(bytes) % LEN)
    IN [sb EXCEPT !.length = @ + to_copy,
                  !.data = SubSeq(@, 1, sb.length) \o SubSeq(bytes, 1, to_copy)
                           \o SubSeq(@, sb.length + to_copy + 1, Len(@))]

\* rtl_strbuf_set_length: the argument is cut to 16 bits, then limited.
WithLength(sb, length) == [sb EXCEPT !.length = Smaller(sb.max_length, length % LEN)]

\* rtl_strbuf_resize, given the memory: a buffer only ever grows.
Grows_Always(sb, size) == size % LEN # sb.max_length                    \* mutant
Grows(sb, size) == size % LEN > sb.max_length

Resized(sb, size) ==
    LET max == size % LEN
    IN [sb EXCEPT !.length = Smaller(@, max),
                  !.max_length = max,
                  !.data = [i \in 1 .. max |-> IF i <= Len(@) THEN @[i] ELSE Junk]]

\* Somebody writes bytes through rtl_strbuf_get_buffer.
Filled(sb, bytes) ==
    [sb EXCEPT !.data = bytes \o SubSeq(@, Len(bytes) + 1, Len(@))]

\* rtl_strbuf_get_buffer, up to rtl_strbuf_get_length.
Contents(sb) == SubSeq(sb.data, 1, sb.length)
=============================================================================
