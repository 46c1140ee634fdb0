-------------------------------- MODULE Text ---------------------------------
(***************************************************************************)
(* Text in CPVMM.  Two formatters: vmm_vsprintf_s of libc/sprintf.c, which *)
(* the monitor's console uses, and vscnprintf of bootstrap_print.c, behind *)
(* the loader's bprint, with its own strtoul, 64-bit division and text     *)
(* screen.  And the copies of libc/common_libc.c, which move memory a word *)
(* at a time and choose a direction so that the two areas may overlap.     *)
(*                                                                         *)
(* A text is a sequence of characters; reading past its end gives NUL.     *)
(* The loader is a 32-bit program, so its int and long have the same       *)
(* width: HalfWord stands for 2^32, and a long long is below HalfWord^2.   *)
(* No caller of bprint uses %c (which measures a string without an end) or *)
(* a width given by an argument; neither is among the formats.  The case   *)
(* of hexadecimal digits is left out.                                      *)
(***************************************************************************)
EXTENDS Integers, SequencesExt

CONSTANTS HalfWord,      \* 2^32, scaled
          Directives,    \* the callers' directives: [d, base, wide, sign]
          Values,        \* arguments
          PrintRoom,     \* size of bprint's buffer, scaled
          SprintFormats, \* formats given to vmm_vsprintf_s
          SprintRooms,   \* sizes given to vmm_vsprintf_s
          ScreenTexts,   \* texts printed on the screen: [f, args]
          MaxLines, MaxCols,
          MaxBprints,    \* bound: texts printed on the screen
          MemBytes, WordBytes

ASSUME TextAssumption ==
  /\ HalfWord \in Nat \ {0, 1} /\ WordBytes \in Nat \ {0} /\ PrintRoom \in Nat \ {0}
  /\ MaxLines \in Nat \ {0} /\ MaxCols \in Nat \ {0}

VARIABLE tx              \* the call last made, its result, and the screen

NUL == ""
Ch(s, i) == IF i \in DOMAIN s THEN s[i] ELSE NUL
Digits10 == <<"0", "1", "2", "3", "4", "5", "6", "7", "8", "9">>
Digits16 == Digits10 \o <<"a", "b", "c", "d", "e", "f">>
DigitSet == ToSet(Digits10)
DigitVal(c) == (CHOOSE n \in 1..16 : Digits16[n] = c) - 1
Repeat(c, n) == IF n > 0 THEN [i \in 1..n |-> c] ELSE <<>>
Least(m, n) == IF m < n THEN m ELSE n
Cut(s, n) == SubSeq(s, 1, Least(n, Len(s)))
(* The first index from i on whose character is outside S. *)
PastAll(s, i, S) == CHOOSE j \in i..(Len(s) + 1) : Ch(s, j) \notin S /\ \A k \in i..(j - 1) : s[k] \in S

-----------------------------------------------------------------------------
(* libc/sprintf.c.  The file defines __builtin_va_arg away: whatever the
   caller passes, the formatter takes 0, and a string argument is NULL. *)
VaArg(v) == 0
NullString == <<"<", "n", "u", "l", "l", " ", "s", "t", "r", "i", "n", "g", ">">>
MAX_NUMBER_CHARS == 30

FlagOf == [c \in {"-", "+", " ", ",", "#", "l", "L", "I"} |->
             CASE c = "-" -> {"left"} [] c = "+" -> {"sign"} [] c = " " -> {"blank"} [] c = "," -> {"comma"}
               [] c = "#" -> {"0x", "zero"} [] OTHER -> {"long"}]

(* get_flags_and_width_and_precision: i is the place of the character read
   last; the answer's i is the place of the conversion. *)
RECURSIVE GetFlagsAndWidth(_, _)
GetFlagsAndWidth(f, s) ==
  LET i == s.i + 1
      c == Ch(f, i)
      t == [s EXCEPT !.i = i]
  IN CASE c \in DOMAIN FlagOf -> GetFlagsAndWidth(f, [t EXCEPT !.flags = @ \cup FlagOf[c]])
       [] c = "*" -> GetFlagsAndWidth(f, IF s.atPrecision THEN [t EXCEPT !.precision = VaArg(0)]
                                                           ELSE [t EXCEPT !.width = VaArg(0)])
       [] c = "." /\ ~s.donePrecision ->
            GetFlagsAndWidth(f, [t EXCEPT !.atPrecision = TRUE, !.donePrecision = TRUE, !.precision = 0])
       [] c = "0" -> GetFlagsAndWidth(f, IF s.atPrecision THEN t ELSE [t EXCEPT !.flags = @ \cup {"zero"}])
       [] c \in DigitSet \ {"0"} ->
            LET j == PastAll(f, i, DigitSet)
                n == FoldLeft(LAMBDA a, d : a * 10 + DigitVal(d), 0, SubSeq(f, i, j - 1))
                u == [t EXCEPT !.i = j - 1, !.atPrecision = FALSE]
            IN GetFlagsAndWidth(f, IF s.atPrecision THEN [u EXCEPT !.precision = n] ELSE [u EXCEPT !.width = n])
       [] OTHER -> t

(* The digits of a number, last one first, with a comma after every third. *)
RECURSIVE DigitsOf(_, _, _, _)
DigitsOf(u, base, comma, count) ==
  LET more == u \div base # 0
  IN <<Digits16[(u % base) + 1]>> \o (IF comma /\ (count + 1) % 3 = 0 /\ more THEN <<",">> ELSE <<>>)
     \o (IF more THEN DigitsOf(u \div base, base, comma, count + 1) ELSE <<>>)

(* A faulty form: the digits go out in the order they were computed. *)
LastDigitFirst(limits, value, flags, width, base) ==
  Cut(DigitsOf(value, base, FALSE, 0), limits)

(* safe_value_to_string: the sign, which does not count against the limit,
   then the padding and the digits, cut to the limit. *)
SafeValueToString(limits, value, flags, width, base) ==
  LET sign == IF limits < 2 \/ "unsigned" \in flags THEN <<>>
              ELSE IF value < 0 THEN <<"-">>
              ELSE IF "sign" \in flags THEN <<"+">> ELSE IF "blank" \in flags THEN <<" ">> ELSE <<>>
      digits == DigitsOf(IF value < 0 THEN -value ELSE value, base, "comma" \in flags, 0)
      pad == IF "zero" \in flags THEN "0" ELSE " "
      room == Least(width, MAX_NUMBER_CHARS) - (Len(digits) + Len(sign))
      padded == digits \o (IF "zero" \notin flags /\ "left" \in flags THEN <<>> ELSE Repeat(pad, room))
  IN IF limits = 0 THEN <<>> ELSE sign \o Cut(Reverse(padded), limits)

SafeValueToHexStr(limits, value, flags, width) ==
  IF "0x" \in flags /\ limits > 2
  THEN <<"0", "x">> \o SafeValueToString(limits - 2, value, flags \cup {"unsigned"}, IF width > 2 THEN width - 2 ELSE 0, 16)
  ELSE SafeValueToString(limits, value, flags \cup {"unsigned"}, width, 16)

(* vmm_vsprintf_s's conversion of one directive: what it appends.  A GUID
   argument is NULL and prints nothing. *)
ConvertedText(c, s, avail) ==
  CASE c \in {"x", "X"} -> SafeValueToHexStr(avail, VaArg(0), s.flags, s.width)
    [] c \in {"p", "P"} -> SafeValueToHexStr(avail, VaArg(0), s.flags \cup {"0x", "zero", "long"},
                                             IF s.width = 0 THEN 10 ELSE s.width)
    [] c \in {"u", "d", "i"} ->
         SafeValueToString(avail, VaArg(0), IF c = "u" THEN s.flags \cup {"unsigned"} ELSE s.flags, s.width, 10)
    [] c = "s" -> LET n == IF s.width = 0 THEN Len(NullString) ELSE Least(s.width, Len(NullString))
                  IN Cut(SubSeq(NullString, 1, n) \o Repeat(" ", s.width - n), avail)
    [] c = "g" -> <<>>
    [] c = "c" -> <<NUL>>
    [] OTHER -> <<c>>

RECURSIVE Sprint(_, _, _, _)
Sprint(f, i, buffer, avail) ==
  IF Ch(f, i) = NUL \/ avail <= 0 THEN buffer
  ELSE IF f[i] # "%"
       THEN LET out == (IF f[i] = "\n" /\ avail > 2 THEN <<"\r">> ELSE <<>>) \o <<f[i]>>
            IN Sprint(f, i + 1, buffer \o out, avail - Len(out))
       ELSE LET s == GetFlagsAndWidth(f, [i |-> i, flags |-> {}, width |-> 0, precision |-> 65535,
                                          atPrecision |-> FALSE, donePrecision |-> FALSE])
                out == ConvertedText(Ch(f, s.i), s, avail)
            IN Sprint(f, s.i + 1, buffer \o out, avail - Len(out))

(* vmm_vsprintf_s: the text without the NUL put after it, or "failed". *)
VmmVsprintf(size, f) == IF size = 0 THEN [ok |-> FALSE, text |-> <<>>]
                        ELSE [ok |-> TRUE, text |-> Sprint(f, 1, <<>>, size - 1)]

-----------------------------------------------------------------------------
(* bootstrap_print.c: strtoul, from place i of s, in base 10, the only one
   asked for.  A number beyond ULONG_MAX saturates; without any digit the end
   is the start. *)
Strtoul(s, i) ==
  LET start == PastAll(s, i, {" ", "\t", "\n"})
      first == IF Ch(s, start) \in {"-", "+"} THEN start + 1 ELSE start
      end == PastAll(s, first, {Digits16[n] : n \in 1..10})
      n == FoldLeft(LAMBDA a, d : IF a * 10 + DigitVal(d) >= HalfWord THEN HalfWord ELSE a * 10 + DigitVal(d),
                    0, SubSeq(s, first, end - 1))
  IN [val |-> IF n = HalfWord THEN HalfWord - 1 ELSE IF Ch(s, start) = "-" THEN (-n) % HalfWord ELSE n,
      end |-> IF end = first THEN i ELSE end]

(* div64: a 64-bit number is divided half by half.  A faulty form first:
   the remainder of the upper half is dropped. *)
Div64Upper(num, base) ==
  [quot |-> ((num \div HalfWord) \div base) * HalfWord + ((num % HalfWord) \div base), rem |-> num % base]
Div64(num, base) ==
  LET high == num \div HalfWord
      low == num % HalfWord
      lower == (high % base) * HalfWord + low
  IN IF high = 0 THEN [quot |-> low \div base, rem |-> low % base]
     ELSE [quot |-> (high \div base) * HalfWord + (lower \div base), rem |-> lower % base]

(* int2str's digits, last one first, while the 32-byte string has room. *)
RECURSIVE Convert(_, _, _)
Convert(nval, base, room) ==
  IF room = 0 THEN <<>>
  ELSE LET d == Div64(nval, base)
       IN <<Digits16[d.rem + 1]>> \o (IF d.quot = 0 THEN <<>> ELSE Convert(d.quot, base, room - 1))

Int2str(val, m) ==
  LET prefix == IF "#" \notin m.flag THEN <<>>
                ELSE CASE m.base = 8 -> <<"0">> [] m.base = 16 -> <<"0", "x">> [] OTHER -> <<>>
      sign == IF m.base # 10 \/ ~m.sign THEN <<>>
              ELSE IF val < 0 THEN <<"-">> ELSE IF "+" \in m.flag THEN <<"+">> ELSE IF " " \in m.flag THEN <<" ">> ELSE <<>>
      room == 32 - Len(prefix \o sign)
      nval == (IF sign = <<"-">> THEN -val ELSE val) % (IF m.long = "longlong" THEN HalfWord * HalfWord ELSE HalfWord)
      number == Convert(nval, m.base, room)
  IN prefix \o sign \o Reverse(Cut(number \o Repeat("0", m.precision - Len(number)), room))

(* write_char_to_buffer answers 0 when the buffer is full, which its callers
   take as the next place. *)
WriteChar(st, c) == IF st.pos >= PrintRoom THEN [st EXCEPT !.pos = 0]
                    ELSE [st EXCEPT !.buf[st.pos] = c, !.pos = @ + 1]
WriteChars(st, cs) == FoldLeft(WriteChar, st, cs)
WriteString(st, cs, digit) ==
  LET pads == st.mods.width - Len(cs)
  IN IF "-" \in st.mods.flag THEN WriteChars(st, cs \o Repeat(" ", pads))
     ELSE WriteChars(st, Repeat(IF digit /\ "0" \in st.mods.flag THEN "0" ELSE " ", pads) \o cs)
WriteNumber(st) == WriteString([st EXCEPT !.args = Tail(@)], Int2str(Head(st.args), st.mods), TRUE)

(* The parts of a directive.  The flags and the precision add to those of
   the directives before it: vscnprintf clears its modifiers once. *)
LongOf(f, i) ==
  IF Ch(f, i) \in {"L", "j"} THEN [kind |-> "longlong", n |-> 1]
  ELSE IF Ch(f, i) # "l" THEN [kind |-> "norm", n |-> 0]
  ELSE IF Ch(f, i + 1) = "l" THEN [kind |-> "longlong", n |-> 2] ELSE [kind |-> "long", n |-> 1]
Modified(st, j, w, p, long) ==
  [st EXCEPT !.i = p.end + long.n,
             !.mods = [flag |-> @.flag \cup {st.f[k] : k \in (st.i + 1)..(j - 1)}, width |-> w.val,
                       precision |-> p.val, long |-> long.kind, base |-> 10, sign |-> FALSE]]
ParseLong(st, j, w, p) == Modified(st, j, w, p, LongOf(st.f, p.end))
ParsePrecision(st, j, w) ==
  ParseLong(st, j, w, IF Ch(st.f, w.end) = "." THEN Strtoul(st.f, w.end + 1)
                      ELSE [val |-> st.mods.precision, end |-> w.end])
ParseWidth(st, j) == ParsePrecision(st, j, Strtoul(st.f, j))
ParseModifiers(st) == ParseWidth(st, PastAll(st.f, st.i + 1, {"-", "+", " ", "#", "0"}))
DirectiveWith(st, m, c) ==
  LET With(base, sign) == WriteNumber([m EXCEPT !.mods.base = base, !.mods.sign = sign])
      done == CASE c = "s" -> WriteString([m EXCEPT !.args = Tail(@)], Head(m.args), FALSE)
                [] c = "o" -> With(8, FALSE)
                [] c \in {"x", "X"} -> With(16, FALSE)
                [] c = "p" -> WriteNumber([m EXCEPT !.mods.flag = @ \cup {"#"}, !.mods.long = "long", !.mods.base = 16])
                [] c \in {"i", "d"} -> With(10, TRUE)
                [] c = "u" -> With(10, FALSE)
                [] c \in {"e", "E"} -> m
                [] OTHER -> WriteChar(m, "%")
  IN [done EXCEPT !.i = IF c \in {"s", "o", "x", "X", "p", "i", "d", "u", "e", "E", "%"} THEN m.i + 1 ELSE st.i + 1]
ConvertedBy(st, m) == DirectiveWith(st, m, Ch(m.f, m.i))
Directive(st) == ConvertedBy(st, ParseModifiers(st))

(* vscnprintf: room is looked at between directives, not between the
   characters copied.  ret is the length without the NUL. *)
RECURSIVE Vscn(_, _)
Vscn(st, copying) ==
  IF ~copying /\ st.pos >= PrintRoom
  THEN [buf |-> [st.buf EXCEPT ![st.pos - 1] = NUL], ret |-> st.pos - 1]
  ELSE IF Ch(st.f, st.i) = "%" THEN Vscn(Directive(st), FALSE)
  ELSE LET w == WriteChar(st, Ch(st.f, st.i))
       IN IF Ch(st.f, st.i) = NUL THEN [buf |-> w.buf, ret |-> w.pos - 1]
          ELSE Vscn([w EXCEPT !.i = @ + 1], TRUE)
Vscnprintf(f, args) ==
  Vscn([f |-> f, i |-> 1, args |-> args, pos |-> 0, buf |-> [k \in 0..(PrintRoom - 1) |-> NUL],
        mods |-> [flag |-> {}, width |-> 0, precision |-> 0, long |-> "norm", base |-> 10, sign |-> FALSE]], FALSE)

(* What vga_puts takes from the buffer: up to the count, which is unsigned,
   and up to the NUL. *)
Shown(r) ==
  LET n == CHOOSE k \in 0..PrintRoom : (k = PrintRoom \/ r.buf[k] = NUL) /\ \A j \in 0..(k - 1) : r.buf[j] # NUL
      cnt == IF r.ret < 0 THEN n ELSE Least(r.ret, n)
  IN [k \in 1..cnt |-> r.buf[k - 1]]

-----------------------------------------------------------------------------
(* The text screen.  all is every row ever begun, whatever the screen still
   holds; top is the row of all at the screen's first line.  It is compared
   with the screen and nothing in the code depends on it. *)
BlankRow == [x \in 0..(MaxCols - 1) |-> " "]
ScreenReset == [cells |-> [y \in 0..(MaxLines - 1) |-> BlankRow], x |-> 0, y |-> 0,
                all |-> [y \in 0..(MaxLines - 1) |-> BlankRow], top |-> 0]
(* bootstrap_partial_reset: on to the last line, whatever is there. *)
PartialReset(sc) == [sc EXCEPT !.x = 0, !.y = MaxLines - 1]

(* A faulty form: the lines move up and the last one keeps its old text. *)
ScrollKeepsLast(cells) == [y \in 0..(MaxLines - 1) |-> IF y = MaxLines - 1 THEN cells[y] ELSE cells[y + 1]]
ScrollScreen(cells) == [y \in 0..(MaxLines - 1) |-> IF y = MaxLines - 1 THEN BlankRow ELSE cells[y + 1]]

VgaPutc(sc, c) ==
  LET plain == c \notin {"\n", "\r", "\t"}
      put == IF plain THEN [sc EXCEPT !.cells[sc.y][sc.x] = c, !.all[sc.top + sc.y][sc.x] = c] ELSE sc
      x == CASE c \in {"\n", "\r"} -> 0 [] c = "\t" -> sc.x + 4 [] OTHER -> sc.x + 1
      newRow == c = "\n" \/ x >= MaxCols
      y == IF newRow THEN sc.y + 1 ELSE sc.y
  IN IF y < MaxLines THEN [put EXCEPT !.x = x % MaxCols, !.y = y]
     ELSE [put EXCEPT !.cells = ScrollScreen(@), !.x = x % MaxCols, !.y = y - 1, !.top = @ + 1,
                      !.all = [r \in 0..(sc.top + MaxLines) |-> IF r \in DOMAIN @ THEN @[r] ELSE BlankRow]]
VgaPuts(sc, cs) == FoldLeft(VgaPutc, sc, cs)

-----------------------------------------------------------------------------
(* libc/common_libc.c: a word or a byte is loaded, then stored. *)
Store(mem, d, s, n) == [a \in DOMAIN mem |-> IF a \in d..(d + n - 1) THEN mem[s + (a - d)] ELSE mem[a]]
CopyAscending(mem, dest, src, count) ==
  LET words == count \div WordBytes
      byWord == FoldLeft(LAMBDA m, i : Store(m, dest + (i - 1) * WordBytes, src + (i - 1) * WordBytes, WordBytes),
                         mem, [i \in 1..words |-> i])
  IN FoldLeft(LAMBDA m, j : Store(m, dest + j, src + j, 1), byWord,
              [k \in 1..(count - words * WordBytes) |-> words * WordBytes + k - 1])
(* A faulty form: the words before the remaining bytes. *)
WordsFirst(mem, dest, src, count) ==
  LET words == count \div WordBytes
      byWord == FoldLeft(LAMBDA m, i : Store(m, dest + (i - 1) * WordBytes, src + (i - 1) * WordBytes, WordBytes),
                         mem, [k \in 1..words |-> words + 1 - k])
  IN FoldLeft(LAMBDA m, i : Store(m, dest + count - i, src + count - i, 1), byWord, [i \in 1..(count % WordBytes) |-> i])
CopyDescending(mem, dest, src, count) ==
  LET words == count \div WordBytes
      byByte == FoldLeft(LAMBDA m, i : Store(m, dest + count - i, src + count - i, 1),
                         mem, [i \in 1..(count % WordBytes) |-> i])
  IN FoldLeft(LAMBDA m, i : Store(m, dest + (i - 1) * WordBytes, src + (i - 1) * WordBytes, WordBytes),
              byByte, [k \in 1..words |-> words + 1 - k])
VmmMemcpy(mem, dest, src, count) ==
  IF dest >= src THEN CopyDescending(mem, dest, src, count) ELSE CopyAscending(mem, dest, src, count)

-----------------------------------------------------------------------------
NoText == [op |-> "none"]
TxInit == tx = [call |-> NoText, screen |-> ScreenReset, prints |-> 0, reset |-> FALSE]

(* A format of two directives with a character after each. *)
FormatOf(d1, d2) == d1.d \o <<":">> \o d2.d \o <<";">>

Fresh0 == tx.prints = 0 /\ tx.call = NoText
Formats(d1, d2, v1, v2) ==
  /\ Fresh0
  /\ tx' = [tx EXCEPT !.call = [op |-> "format", ds |-> <<d1, d2>>, vs |-> <<v1, v2>>,
                                r |-> Vscnprintf(FormatOf(d1, d2), <<v1, v2>>)]]
Sprints(f, size) ==
  /\ Fresh0
  /\ tx' = [tx EXCEPT !.call = [op |-> "sprint", f |-> f, size |-> size, r |-> VmmVsprintf(size, f)]]
Copies(dest, src, count) ==
  /\ Fresh0 /\ dest + count <= MemBytes + 1 /\ src + count <= MemBytes + 1
  /\ LET mem == [a \in 1..MemBytes |-> a]
     IN tx' = [tx EXCEPT !.call = [op |-> "copy", dest |-> dest, src |-> src, count |-> count,
                                   r |-> VmmMemcpy(mem, dest, src, count)]]
(* bprint: the text goes to the screen. *)
Bprint(t) ==
  /\ tx.call = NoText /\ tx.prints < MaxBprints
  /\ tx' = [tx EXCEPT !.screen = VgaPuts(@, Shown(Vscnprintf(t.f, t.args))), !.prints = @ + 1]
BootstrapPartialReset ==
  /\ tx.call = NoText /\ ~tx.reset
  /\ tx' = [tx EXCEPT !.screen = PartialReset(@), !.reset = TRUE]
TxRest == (tx.call # NoText \/ tx.prints = MaxBprints) /\ UNCHANGED tx

TxNext ==
  \/ \E d1, d2 \in Directives, v1, v2 \in Values : Formats(d1, d2, v1, v2)
  \/ \E f \in SprintFormats, size \in SprintRooms : Sprints(f, size)
  \/ \E dest, src \in 1..MemBytes, count \in 0..MemBytes : Copies(dest, src, count)
  \/ \E t \in ScreenTexts : Bprint(t)
  \/ BootstrapPartialReset
  \/ TxRest
TxSpec == TxInit /\ [][TxNext]_tx

(* Type invariant; the cursor stays on the screen. *)
TxTypeOK ==
  /\ tx.prints \in 0..MaxBprints /\ tx.reset \in BOOLEAN
  /\ tx.screen.x \in 0..(MaxCols - 1) /\ tx.screen.y \in 0..(MaxLines - 1)
  /\ tx.call.op \in {"none", "format", "sprint", "copy"}

-----------------------------------------------------------------------------
(* The number a text shows: blanks, sign, base prefix and digits.  Padding
   zeros may stand before the prefix, when an earlier directive's prefix flag
   is still set. *)
ReadNumber(cs, base) ==
  LET b == PastAll(cs, 1, {" "})
      neg == Ch(cs, b) = "-"
      g == IF Ch(cs, b) \in {"-", "+"} THEN b + 1 ELSE b
      h == IF Contains(cs, "x") THEN (CHOOSE k \in g..Len(cs) : cs[k] = "x") + 1 ELSE g
      n == FoldLeft(LAMBDA a, d : a * base + DigitVal(d), 0, SubSeq(cs, h, Len(cs)))
  IN IF neg THEN -n ELSE n
Meaning(d, v) == IF d.sign THEN v ELSE v % (IF d.wide THEN HalfWord * HalfWord ELSE HalfWord)
Until(cs, c) == SubSeq(cs, 1, (CHOOSE j \in 1..Len(cs) : cs[j] = c /\ \A k \in 1..(j - 1) : cs[k] # c) - 1)
FormatReadsBack(call) ==
  LET out == Shown(call.r)
      one == Until(out, ":")
      two == Until(SubSeq(out, Len(one) + 2, Len(out)), ";")
      Fits(d, cs, v) == ReadNumber(cs, d.base) = Meaning(d, v) /\ Len(cs) >= d.width
  IN /\ call.r.ret = Len(out) /\ Len(out) = Len(one) + Len(two) + 2
     /\ Fits(call.ds[1], one, call.vs[1]) /\ Fits(call.ds[2], two, call.vs[2])

(* What vmm_vsprintf_s leaves fits its buffer with the NUL, and but for its
   last two characters is the beginning of what a larger buffer would hold. *)
SprintFits(call) ==
  LET t == call.r.text
      full == VmmVsprintf(200, call.f).text
  IN IF call.size = 0 THEN ~call.r.ok
     ELSE /\ Len(t) + 1 <= call.size
          /\ IsPrefix(SubSeq(t, 1, Len(t) - 2), full)
          /\ Len(full) + 1 <= call.size => t = full
(* A copy moves the bytes the source had before it, overlapping or not. *)
CopyMoves(call) ==
  call.r = [a \in 1..MemBytes |-> IF a \in call.dest..(call.dest + call.count - 1)
                                  THEN call.src + (a - call.dest) ELSE a]
(* TextSound: a printed number reads back as the argument it was given, for
   the loader's callers; the monitor's formatter stays inside its buffer; the
   screen shows the last rows written; a copy is right whichever way the two
   areas overlap. *)
TextSound ==
  /\ CASE tx.call.op = "format" -> FormatReadsBack(tx.call)
       [] tx.call.op = "sprint" -> SprintFits(tx.call)
       [] tx.call.op = "copy" -> CopyMoves(tx.call)
       [] OTHER -> TRUE
  /\ \A y \in 0..(MaxLines - 1) : tx.screen.cells[y] = tx.screen.all[tx.screen.top + y]
====
