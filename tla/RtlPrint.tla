------------------------------- MODULE RtlPrint -------------------------------
(***************************************************************************)
(* Formatted output, src/src/rtl/rtl_print.c: one call of rtl_xprint_fd or *)
(* rtl_xprint_sb, one step per character put.  A format is read directive  *)
(* by directive: a character, a "%%", or a conversion with the flags,      *)
(* width and precision that stand before its letter; the arguments come    *)
(* from the virtual machine's data stack (nextarg_stack).                  *)
(***************************************************************************)
EXTENDS Strbuf

CONSTANTS
    BUFFER_SIZE,  \* 1024 in the code
    WORD,         \* values of an unsigned argument (2^32)
    Words,        \* bound: those the program prints
    Widths,       \* bound: field widths and precisions
    Texts,        \* bound: what string buffers and strings hold
    SIZE,         \* the maximal length of the string buffer printed to
    DIRECTIVES,   \* bound: directives of the format
    OPERANDS      \* bound: operands on the data stack

conv_digits == <<"0", "1", "2", "3", "4", "5", "6", "7", "8", "9",
                 "A", "B", "C", "D", "E", "F", "H", "G">>

\* What is put, and what is in memory.
Chars ==
    {"a", "c", "%", "-", " ", "NUL"} \cup Range(conv_digits)
      \cup UNION {Range(t) : t \in Texts}
Bytes == Chars \cup {Junk}

ASSUME PrintAssumption ==
    /\ BUFFER_SIZE \in 2 .. LEN
    /\ WORD \in Nat \ {0, 1} /\ Words \subseteq 0 .. WORD - 1
    /\ Widths \subseteq Nat
    /\ Texts \subseteq Seq(Chars)
    /\ SIZE \in 0 .. LEN - 1
    /\ DIRECTIVES \in Nat /\ OPERANDS \in Nat

VARIABLES
    pc,           \* "format", "text", or how the call ended
    conv,         \* the conversion in progress: its directive and argument
    text,         \* what conv_text has still to put of the text
    space_count,  \* and of the padding
    buffer, buffer_mark, write_count,
    writer,       \* "fd", or "sb"
    sb,           \* the string buffer, when the writer is one
    left,         \* directives and operands left
    put, flushed, \* history: what was put, and what the flush procedures were given
    begun         \* history: characters put before the conversion in progress

context == <<buffer, buffer_mark, write_count, sb, put, flushed>>
vars == <<pc, conv, text, space_count, context, writer, left, begun>>

NoConv == [spec |-> "none"]

Init ==
    /\ pc = "format"
    /\ conv = NoConv /\ text = <<>> /\ space_count = 0
    /\ buffer = [i \in 0 .. BUFFER_SIZE - 1 |-> Junk]
    /\ buffer_mark = 0 /\ write_count = 0
    /\ writer \in {"fd", "sb"}
    /\ sb = Allocated(SIZE)
    /\ left = [directives |-> DIRECTIVES, operands |-> OPERANDS]
    /\ put = <<>> /\ flushed = <<>> /\ begun = 0

-----------------------------------------------------------------------------
\* flush_fd, flush_sb: the first mark characters of buf.  write(2)'s result is not
\* looked at.
Flush(buf, mark) ==
    LET bytes == [i \in 1 .. mark |-> buf[i - 1]]
    IN /\ flushed' = flushed \o bytes
       /\ sb' = IF writer = "sb" THEN Appended(sb, bytes) ELSE sb

\* A full buffer is flushed with the mark it had before ch was stored.
IsFull_TooLate(mark) == mark > BUFFER_SIZE                              \* mutant
IsFull(mark) == mark = BUFFER_SIZE
MarkAfter_Kept(mark) == mark - 1                                        \* mutant
MarkAfter(mark) == 0

put_char(ch) ==
    LET stored == [buffer EXCEPT ![buffer_mark] = ch]
    IN /\ buffer' = stored
       /\ put' = Append(put, ch)
       /\ IF IsFull(buffer_mark + 1)
          THEN /\ Flush(stored, buffer_mark)
               /\ write_count' = write_count + buffer_mark + 1
               /\ buffer_mark' = MarkAfter(buffer_mark + 1)
          ELSE /\ buffer_mark' = buffer_mark + 1
               /\ UNCHANGED <<write_count, sb, flushed>>

-----------------------------------------------------------------------------
\* Numbers.  conv_base_r puts the digits of value / base first.
Digits(base) ==
    LET digits[value \in 0 .. WORD - 1] ==
          (IF value \div base # 0 THEN digits[value \div base] ELSE <<>>)
            \o <<conv_digits[(value % base) + 1]>>
    IN digits

\* An int below 0, as the unsigned word w.
IsNegative(w) == w >= WORD \div 2

\* What a conversion hands to conv_text, by its letter, and what it pads with.
Base(spec) == CASE spec = "u" -> 10 [] spec = "o" -> 18 [] spec = "x" -> 16

TextOf(c) ==
    CASE c.spec = "d" /\ IsNegative(c.arg) -> <<"-">> \o Digits(10)[WORD - c.arg]
      [] c.spec = "d" /\ ~IsNegative(c.arg) -> Digits(10)[c.arg]
      [] c.spec \in {"u", "o", "x"} -> Digits(Base(c.spec))[c.arg]
      [] c.spec = "b" -> c.arg
      [] c.spec = "s" -> Append(c.arg, "NUL")   \* xstrlen counts the terminator

PadOf_LeftToo(c) ==                                                     \* mutant
    IF c.zero_padded /\ c.spec \in {"d", "u", "o", "x"} THEN "0" ELSE " "
PadOf(c) ==
    IF c.zero_padded /\ ~c.left_adjusted /\ c.spec \in {"d", "u", "o", "x"}
       /\ ~(c.spec = "d" /\ IsNegative(c.arg))
    THEN "0" ELSE " "

NotGiven == -1

\* conv_text's two lengths: the text is cut first, then padded.
TextLength(c) ==
    IF c.prec # NotGiven /\ c.prec < Len(TextOf(c)) THEN c.prec ELSE Len(TextOf(c))

SpaceCount_Uncut(c) ==                                                  \* mutant
    IF c.width > Len(TextOf(c)) THEN c.width - Len(TextOf(c)) ELSE 0
SpaceCount(c) ==
    IF c.width # NotGiven /\ c.width > TextLength(c) THEN c.width - TextLength(c) ELSE 0

Arguments(spec) ==
    IF spec \in {"d", "u", "o", "x"} THEN Words
    ELSE IF spec \in {"b", "s"} THEN Texts ELSE {"c"}

Conversions ==
    UNION {[spec : {spec}, arg : Arguments(spec),
            zero_padded : BOOLEAN, left_adjusted : BOOLEAN,
            width : Widths \cup {NotGiven}, prec : Widths \cup {NotGiven}]
           : spec \in {"d", "u", "o", "x", "b", "s"}}

-----------------------------------------------------------------------------
\* __print_internal
Reads == pc = "format" /\ left.directives > 0

OneLess == left' = [left EXCEPT !.directives = @ - 1]

\* A character of the format, or "%%".
PutFormat ==
    /\ Reads
    /\ \E ch \in {"a", "%"} : put_char(ch)
    /\ OneLess
    /\ UNCHANGED <<pc, conv, text, space_count, writer, begun>>

\* nextarg_stack finds the data stack empty: vm_panic, with the buffer not flushed.
NoArgument ==
    /\ Reads /\ left.operands = 0
    /\ pc' = "panic"
    /\ UNCHANGED <<conv, text, space_count, context, writer, left, begun>>

TakesArgument ==
    /\ Reads /\ left.operands > 0
    /\ left' = [directives |-> left.directives - 1, operands |-> left.operands - 1]

PutArgument ==
    /\ TakesArgument
    /\ put_char("c")
    /\ UNCHANGED <<pc, conv, text, space_count, writer, begun>>

\* A letter that is no conversion takes an argument and puts nothing.
SkipUnknown ==
    /\ TakesArgument
    /\ UNCHANGED <<pc, conv, text, space_count, context, writer, begun>>

Convert ==
    /\ TakesArgument
    /\ \E c \in Conversions :
         /\ conv' = c
         /\ text' = SubSeq(TextOf(c), 1, TextLength(c))
         /\ space_count' = SpaceCount(c)
    /\ begun' = Len(put)
    /\ pc' = "text"
    /\ UNCHANGED <<context, writer>>

\* The format ends within a conversion: the argument is taken, and the cursor steps
\* over the terminating NUL.
RunsOff ==
    /\ TakesArgument
    /\ pc' = "undefined"
    /\ UNCHANGED <<conv, text, space_count, context, writer, begun>>

-----------------------------------------------------------------------------
\* conv_text's loops: the text first when it is left adjusted, the padding first
\* when it is not.
PutText ==
    /\ pc = "text" /\ text # <<>>
    /\ conv.left_adjusted \/ space_count = 0
    /\ put_char(Head(text))
    /\ text' = Tail(text)
    /\ UNCHANGED <<pc, conv, space_count, writer, left, begun>>

PutPad ==
    /\ pc = "text" /\ space_count > 0
    /\ conv.left_adjusted => text = <<>>
    /\ put_char(PadOf(conv))
    /\ space_count' = space_count - 1
    /\ UNCHANGED <<pc, conv, text, writer, left, begun>>

Converted == pc = "text" /\ text = <<>> /\ space_count = 0

EndConversion ==
    /\ Converted
    /\ pc' = "format" /\ conv' = NoConv /\ begun' = 0
    /\ UNCHANGED <<text, space_count, context, writer, left>>

EndFormat ==
    /\ pc = "format"
    /\ IF buffer_mark # 0
       THEN Flush(buffer, buffer_mark)
       ELSE UNCHANGED <<sb, flushed>>
    /\ write_count' = write_count + buffer_mark
    /\ buffer_mark' = 0
    /\ pc' = "done"
    /\ UNCHANGED <<conv, text, space_count, buffer, writer, left, put, begun>>

Next ==
    \/ PutFormat \/ NoArgument \/ PutArgument \/ SkipUnknown \/ Convert \/ RunsOff
    \/ PutText \/ PutPad \/ EndConversion \/ EndFormat

Spec == Init /\ [][Next]_vars

-----------------------------------------------------------------------------
\* The mark stays inside the buffer and the string buffer inside its memory.
TypeOK ==
    /\ pc \in {"format", "text", "done", "panic", "undefined"}
    /\ conv \in Conversions \cup {NoConv}
    /\ text \in Seq(Chars) /\ space_count \in Nat
    /\ buffer \in [0 .. BUFFER_SIZE - 1 -> Bytes]
    /\ buffer_mark \in 0 .. BUFFER_SIZE - 1 /\ write_count \in Nat
    /\ writer \in {"fd", "sb"}
    /\ sb \in [length : 0 .. SIZE, max_length : {SIZE}, data : Seq(Bytes)]
    /\ Len(sb.data) = SIZE
    /\ left \in [directives : Nat, operands : Nat]
    /\ put \in Seq(Chars) /\ flushed \in Seq(Bytes) /\ begun \in 0 .. Len(put)

\* The count returned counts every character put, and the characters handed to
\* write(2) or to the string buffer are those put, in their order, once each and
\* none missing but every BUFFER_SIZE-th: put_char (l.85-89) flushes a full buffer
\* with the mark of the character before.
LosesOnlyLast ==
    LET counted == Len(put) - buffer_mark
        received == counted - counted \div BUFFER_SIZE
    IN /\ write_count = counted
       /\ flushed = [i \in 1 .. received |-> put[i + (i - 1) \div (BUFFER_SIZE - 1)]]
       /\ [i \in 1 .. buffer_mark |-> buffer[i - 1]] = SubSeq(put, counted + 1, Len(put))

\* What is printed to a string buffer is in it as far as it fits (flush_sb,
\* rtl_strbuf_append_bytes), whatever the flushes it came in.
StrbufHoldsPrefix ==
    writer = "sb" => Contents(sb) = SubSeq(flushed, 1, Smaller(Len(flushed), SIZE))

Field == SubSeq(put, begun + 1, Len(put))

\* A conversion leaves a field of its width or more, never longer for the padding: the
\* text, cut to the precision, at the side asked for, and pads of one kind at the other
\* (conv_text, l.94).
FieldsAsAsked ==
    Converted =>
      LET cut == SubSeq(TextOf(conv), 1, TextLength(conv))
          pads == Len(Field) - Len(cut)
      IN /\ pads >= 0 /\ Len(Field) >= conv.width
         /\ pads > 0 => Len(Field) = conv.width
         /\ IF conv.left_adjusted
            THEN /\ SubSeq(Field, 1, Len(cut)) = cut
                 /\ \A i \in Len(cut) + 1 .. Len(Field) : Field[i] = " "
            ELSE /\ SubSeq(Field, pads + 1, Len(Field)) = cut
                 /\ \A i, j \in 1 .. pads : Field[i] = Field[j]

\* The digits of a base, and the number a sequence of them writes.
DigitsOf(base) == {conv_digits[i] : i \in 1 .. base}

ValueOf(digits, base) ==
    LET value[n \in 0 .. Len(digits)] ==
          IF n = 0 THEN 0
          ELSE value[n - 1] * base + (CHOOSE i \in 1 .. base : conv_digits[i] = digits[n]) - 1
    IN value[Len(digits)]

\* The argument of c, a number below 0 behind a "-".
Writes(token, base, c) ==
    LET negative == c.spec = "d" /\ IsNegative(c.arg)
        digits == IF negative THEN Tail(token) ELSE token
    IN /\ negative => Head(token) = "-"
       /\ digits # <<>> /\ \A i \in DOMAIN digits : digits[i] \in DigitsOf(base)
       /\ ValueOf(digits, base) = IF negative THEN WORD - c.arg ELSE c.arg

\* Somebody who reads the field finds blanks, then the number without a blank, then blanks.
ReadsAs(field, base, c) ==
    \E i, j \in DOMAIN field :
        /\ \A k \in DOMAIN field : field[k] = " " <=> k \notin i .. j
        /\ i <= j /\ Writes(SubSeq(field, i, j), base, c)

\* The conversion in progress is of a number, and no precision cuts it.
Whole == conv.spec \in {"d", "u", "o", "x"} /\ TextLength(conv) = Len(TextOf(conv))

\* A number that is not cut reads back as itself from its field: neither the order of
\* the recursion in conv_base_r nor the zeros conv_d, conv_uox and conv_text pad with
\* (before the digits, never behind them and never before a sign) change it.
ReadsBack ==
    Converted /\ Whole =>
      ReadsAs(Field, IF conv.spec = "d" THEN 10 ELSE Base(conv.spec), conv)

\* The comment of 'o' in __print_internal (l.259) says "Unsigned octal".
OctalIsOctal == Converted /\ Whole /\ conv.spec = "o" => ReadsAs(Field, 8, conv)
=============================================================================
