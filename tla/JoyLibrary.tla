------------------------------ MODULE JoyLibrary ------------------------------
(***************************************************************************)
(* The operators of Joy that hand their work to C's library: conversions   *)
(* of text and numbers, times, streams                                     *)
(* (src/NetRexx/languages/netjoy/interp.c:447-593 and 748-886).            *)
(*                                                                         *)
(* A stream is what fopen's malloc gives room, so it lies among the        *)
(* strings: <<file, position, end of file, error>>, and <<>> once it is    *)
(* closed, when nobody may look at it.  The files can only be read.        *)
(***************************************************************************)
EXTENDS JoyOperators

CONSTANTS
  Disk,         \* the files, a sequence of [path, holds]
  INPLINEMAX    \* the room for a line or a number

ASSUME LibraryAssumption ==
  /\ INPLINEMAX \in Nat \ {0, 1}
  /\ \A k \in DOMAIN Disk : Disk[k].path \in Seq(Nat \ {0}) /\ Disk[k].holds \in Seq(Nat)

PoppedTo(m, k) == [m EXCEPT !.stk = Under(m, k)]

\* Memory that malloc gave and nobody wrote.
LeavesUnwritten(m, k) ==
  Leaves([m EXCEPT !.chars = Append(@, <<>>)], k, Value("STRING", StringAddress(m)))

-----------------------------------------------------------------------------
(* Text and numbers: strtol, strtod and sprintf of C.                      *)

DigitOf(c) == CASE c \in 48 .. 57 -> c - 48
                [] c \in 65 .. 90 -> c - 55
                [] c \in 97 .. 122 -> c - 87
                [] c \notin (48 .. 57) \cup (65 .. 90) \cup (97 .. 122) -> 36
FigureOf(d, capital) == IF d < 10 THEN 48 + d ELSE IF capital THEN 55 + d ELSE 87 + d

Minus == 45
Point == 46
Unsigned(s) == IF s # <<>> /\ s[1] = Minus THEN Tail(s) ELSE s
Signed(s, n) == IF s # <<>> /\ s[1] = Minus THEN -n ELSE n

\* The digits of base b that s begins with, and what they count.
Figures(s, b) ==
  LET others == {k \in DOMAIN s : DigitOf(s[k]) >= b}
  IN  IF others = {} THEN s
      ELSE SubSeq(s, 1, (CHOOSE k \in others : \A j \in others : k <= j) - 1)
Counted(s, b) ==
  LET sum[k \in 0 .. Len(s)] == IF k = 0 THEN 0 ELSE b * sum[k - 1] + DigitOf(s[k])
  IN  sum[Len(s)]

\* A prefix 0x, or 0, tells the base that is asked for as 0.
strtol(s, base) ==
  LET t == Unsigned(s)
      hex == Len(t) > 2 /\ t[1] = 48 /\ DigitOf(t[2]) = 33 /\ DigitOf(t[3]) < 16
      b == IF base # 0 THEN base ELSE IF hex THEN 16 ELSE IF t # <<>> /\ t[1] = 48 THEN 8 ELSE 10
      digits == Figures(IF b = 16 /\ hex THEN SubSeq(t, 3, Len(t)) ELSE t, b)
  IN  IF b \in 2 .. 36 THEN Signed(s, Counted(digits, b)) ELSE 0

\* In halves; a smaller part is cut off.
strtod(s) ==
  LET t == Unsigned(s)
      whole == Figures(t, 10)
      k == Len(whole) + 1
      half == Len(t) > k /\ t[k] = Point /\ DigitOf(t[k + 1]) \in 5 .. 9
  IN  Signed(s, 2 * Counted(whole, 10) + IF half THEN 1 ELSE 0)

\* n in base b; less than 0 in base 8 or 16 it has 64 bits.
Written(n, b, capital) ==
  LET rest[k \in 0 .. 22] == IF k = 0 THEN n ELSE rest[k - 1] \div b
      places == IF n < 0 THEN (IF b = 8 THEN 22 ELSE 16)
                ELSE CHOOSE k \in 1 .. 22 : rest[k] = 0 /\ \A j \in 1 .. k - 1 : rest[j] # 0
      digit(k) == rest[places - k] % (IF n < 0 /\ b = 8 /\ k = 1 THEN 2 ELSE b)
  IN  [k \in 1 .. places |-> FigureOf(digit(k), capital)]

Repeated(c, n) == IF n < 0 THEN <<>> ELSE [k \in 1 .. n |-> c]

\* A field of the width, on whose left the text is when the width is negative.
Padded(s, width) ==
  IF width < 0 THEN s \o Repeated(32, -width - Len(s)) ELSE Repeated(32, width - Len(s)) \o s

Sign(n) == IF n < 0 THEN <<Minus>> ELSE <<>>

IntegerModes == {100, 105, 111, 120, 88}    \* d i o x X
FloatModes   == {101, 69, 102, 103, 71}     \* e E f g G
Fractional   == 102

sprintf_l(n, width, prec, mode) ==
  LET decimal == mode \in {100, 105}
      figures == Written(IF decimal THEN Absolute(n) ELSE n,
                         IF decimal THEN 10 ELSE IF mode = 111 THEN 8 ELSE 16, mode = 88)
      digits  == IF n = 0 /\ prec = 0 THEN <<>> ELSE Repeated(48, prec - Len(figures)) \o figures
  IN  Padded((IF decimal THEN Sign(n) ELSE <<>>) \o digits, width)

\* Mode f of a number of halves; without digits after the point, to the even one.
sprintf_f(h, width, prec) ==
  LET a == Absolute(h)
      p == IF prec < 0 THEN 6 ELSE prec
      whole == a \div 2
      nearest == IF a % 2 = 0 THEN whole ELSE whole + (whole % 2)
      after == <<Point, IF a % 2 = 0 THEN 48 ELSE 53>> \o Repeated(48, p - 1)
  IN  Padded(Sign(h) \o (IF p = 0 THEN Written(nearest, 10, FALSE) ELSE Written(whole, 10, FALSE) \o after),
             width)

\* sprintf does not know of the room for the result.
Printed(m, k, s) ==
  LeavesString(m, k, s) \cup IF Len(s) >= INPLINEMAX THEN Crashes(m) ELSE {}

strtol_(m) ==
  IF Arg(m, 1).op # "INT" THEN Error(m)
  ELSE IF Arg(m, 2).op # "STRING" THEN Error(PoppedTo(m, 1))
  ELSE Leaves(m, 2, Value("INT", strtol(StringAt(m.chars, Arg(m, 2).u), Arg(m, 1).u)))

strtod_(m) ==
  IF Arg(m, 1).op # "STRING" THEN Error(m)
  ELSE Leaves(m, 1, Value("FLOAT", strtod(StringAt(m.chars, Arg(m, 1).u))))

\* formatf takes an integer, and its bits for those of a double: next to 0, or no
\* number.  What modes other than f make of a number is left open.
NotANumber == <<Minus, 110, 97, 110>>
Formats(o, m) ==
  LET prec == Arg(m, 1)
      width == Arg(m, 2)
      mode == Arg(m, 3)
      n == Arg(m, 4)
      modes == IF o = "format" THEN IntegerModes ELSE FloatModes
  IN  IF {prec.op, width.op} # {"INT"} THEN Error(m)
      ELSE IF mode.op # "CHAR" THEN Error(PoppedTo(m, 2))
      ELSE IF mode.u \notin modes \/ n.op \notin (IF o = "format" THEN Numeric ELSE Floatable)
           THEN Error(PoppedTo(m, 3))
      ELSE IF o = "format" THEN Printed(m, 4, sprintf_l(n.u, width.u, prec.u, mode.u))
      ELSE IF mode.u = Fractional
           THEN Printed(m, 4, IF n.op = "INT" /\ n.u < 0 THEN Padded(NotANumber, width.u)
                              ELSE sprintf_f(IF n.op = "INT" THEN 0 ELSE n.u, width.u, prec.u))
      ELSE LeavesUnwritten(m, 4)

-----------------------------------------------------------------------------
(* Times.  C's calendar, of universal time, for the years 1969 to 1971,    *)
(* which have 365 days each; other years, and months that the calendar     *)
(* would carry over, are not told apart.                                   *)

Day == 86400
DaysBefore == <<0, 31, 59, 90, 120, 151, 181, 212, 243, 273, 304, 334>>
Elsewhen   == -Far

tm(t) ==
  LET day  == t \div Day
      yday == day % 365
      mon  == CHOOSE k \in 1 .. 12 : DaysBefore[k] <= yday /\ \A j \in k + 1 .. 12 : DaysBefore[j] > yday
  IN  [year |-> 70 + day \div 365, mon |-> mon - 1, mday |-> yday - DaysBefore[mon] + 1,
       hour |-> (t % Day) \div 3600, min |-> (t % 3600) \div 60, sec |-> t % 60,
       isdst |-> 0, yday |-> yday, wday |-> (4 + day) % 7]

mktime(d) ==
  IF d.year \notin 69 .. 71 \/ d.mon \notin 0 .. 11 THEN Elsewhen
  ELSE (365 * (d.year - 70) + DaysBefore[d.mon + 1] + d.mday - 1) * Day + 3600 * d.hour + 60 * d.min + d.sec

\* UNMKTIME
Times(d) ==
  LET int(k) == Value("INT", k)
  IN  <<int(d.year + 1900), int(d.mon + 1), int(d.mday), int(d.hour), int(d.min), int(d.sec),
        Value("BOOL", d.isdst), int(d.yday), int(IF d.wday = 0 THEN 7 ELSE d.wday)>>

\* The first six fields are integers, up to a node that is none; then a logical, if
\* there is one, and two integers.  One that is passed over is 0, the year 1900 and
\* the month January.
decode_time(m, p) ==
  LET length == LengthIn(m.heap, p)
      is(k, type) == k <= length /\ m.heap[NthIn(m.heap, p, k)].op = type
      date == CHOOSE k \in 0 .. 6 : (\A j \in 1 .. k : is(j, "INT")) /\ (k < 6 => ~is(k + 1, "INT"))
      dst  == IF is(date + 1, "BOOL") THEN date + 1 ELSE date
      num(k) == m.heap[NthIn(m.heap, p, k)].u
      field(k) == IF k <= date THEN num(k) ELSE 0
      later(k) == IF \A j \in 1 .. k : is(dst + j, "INT") THEN num(dst + k) ELSE 0
  IN  [year |-> IF date = 0 THEN 0 ELSE field(1) - 1900, mon |-> IF date < 2 THEN 0 ELSE field(2) - 1,
       mday |-> field(3), hour |-> field(4), min |-> field(5), sec |-> field(6),
       isdst |-> IF dst > date THEN num(dst) ELSE 0, yday |-> later(1), wday |-> later(2)]

\* Of strftime's conversions the one of the weekday, whose letters are not told
\* apart.  It takes the weekday as it is.
Percent == 37
NameOfDay(wday) ==
  LET lengths == <<6, 6, 7, 9, 8, 6, 8>>
  IN  IF wday \in 0 .. 6 THEN Repeated(65 + wday, lengths[wday + 1]) ELSE <<63>>
strftime(fmt, d) ==
  LET text[k \in 0 .. Len(fmt)] ==
        IF k = 0 THEN <<>>
        ELSE CASE fmt[k] = Percent -> text[k - 1]
               [] k > 1 /\ fmt[k] # Percent /\ fmt[k - 1] = Percent -> text[k - 1] \o NameOfDay(d.wday)
               [] fmt[k] # Percent /\ (k > 1 => fmt[k - 1] # Percent) -> Append(text[k - 1], fmt[k])
  IN  text[Len(fmt)]

\* localtime and gmtime
UNMKTIME(m) == IF Arg(m, 1).op # "INT" THEN Error(m) ELSE LeavesList(m, 1, Times(tm(Arg(m, 1).u)), NULL)

mktime_(m) ==
  IF Arg(m, 1).op # "LIST" THEN Error(m)
  ELSE Leaves(m, 1, Value("INT", mktime(decode_time(m, Arg(m, 1).u))))

\* A result for which the room is not sufficient is not written.
strftime_(m) ==
  LET fmt  == StringAt(m.chars, Arg(m, 1).u)
      text == strftime(fmt, decode_time(m, Arg(m, 2).u))
  IN  IF Arg(m, 1).op # "STRING" THEN Error(m)
      ELSE IF Arg(m, 2).op # "LIST" THEN Error(PoppedTo(m, 1))
      ELSE IF Len(text) < 3 * Len(fmt) + 1 THEN LeavesString(m, 2, text) ELSE LeavesUnwritten(m, 2)

-----------------------------------------------------------------------------
(***************************************************************************)
(* Files and streams (interp.c:748-886), and all these operators together. *)
(***************************************************************************)
NewLine == 10
ReadMode == <<114>>

Block(v) == v.u \div Stride
Stream(m, v) ==
  LET b == m.chars[Block(v)] IN [file |-> b[1], pos |-> b[2], eof |-> b[3], error |-> b[4]]
WithStream(m, v, s) == [m EXCEPT !.chars[Block(v)] = <<s.file, s.pos, s.eof, s.error>>]
Holds(s) == Disk[s.file].holds

\* C's read: n bytes from the position on, and the end of the file if there are less.
Following(s, n) == SubSeq(Holds(s), s.pos + 1, IF s.pos + n > Len(Holds(s)) THEN Len(Holds(s)) ELSE s.pos + n)
Advanced(s, got, n) == [s EXCEPT !.pos = @ + Len(got), !.eof = IF Len(got) # n THEN 1 ELSE @]

\* C's write, of what cannot be written.
Refuses(s, n) == IF n = 0 THEN s ELSE [s EXCEPT !.error = 1]

\* C's fgets with room for n: up to the end of the line, or what there is room for.
LineOf(s, n) ==
  LET got == Following(s, n - 1)
      ends == {k \in DOMAIN got : got[k] = NewLine}
      line == IF ends = {} THEN got ELSE SubSeq(got, 1, CHOOSE k \in ends : \A j \in ends : k <= j)
  IN  [text |-> line, on |-> Advanced(s, line, IF ends = {} THEN n - 1 ELSE Len(line))]

\* The stream that v refers to, if it does: F of the stream.  A closed stream is
\* memory that was given back.
FILE(m, v, errs, F(_)) ==
  IF v.op # "FILE" \/ v.u = NULL THEN errs
  ELSE IF m.chars[Block(v)] = <<>> THEN Crashes(m)
  ELSE F(Stream(m, v))

fopen_(m) ==
  LET mode == Arg(m, 1)
      path == Arg(m, 2)
      found == {k \in DOMAIN Disk : Disk[k].path = StringAt(m.chars, path.u)}
      opened == [m EXCEPT !.chars = Append(@, <<CHOOSE k \in found : TRUE, 0, 0, 0>>)]
  IN  IF {mode.op, path.op} # {"STRING"} THEN Error(m)
      ELSE IF StringAt(m.chars, mode.u) # ReadMode \/ found = {} THEN Leaves(m, 2, Value("FILE", NULL))
      ELSE Leaves(opened, 2, Value("FILE", StringAddress(m)))

fclose_(m) ==
  LET v == Arg(m, 1)
      popped == {PoppedTo(m, 1)}
  IN  IF v.op = "FILE" /\ v.u = NULL THEN popped
      ELSE FILE(m, v, Error(m), LAMBDA s : {[n EXCEPT !.chars[Block(v)] = <<>>] : n \in popped})

\* The room is doubled while there is no end of the line, and the line is read
\* on at length.  strlen is of all that was read, not of what this call read: from
\* the third call on there is a 0 in front of it.
fgets_(m) ==
  LET v == Arg(m, 1)
      start(s) == [on |-> s, buff |-> <<>>, length |-> 0, size |-> INPLINEMAX, done |-> FALSE]
      reads(r) ==
        LET line == LineOf(r.on, r.size - r.length)
            buff == IF r.length = Len(r.buff) THEN r.buff \o line.text ELSE r.buff
        IN  IF line.text = <<>> THEN [r EXCEPT !.on = line.on, !.done = TRUE]
            ELSE [on |-> line.on, buff |-> buff, length |-> r.length + Len(buff), size |-> 2 * r.size,
                  done |-> \E k \in DOMAIN buff : buff[k] = NewLine]
      line(s) == LET loop[k \in 0 .. Len(Holds(s)) + 1] ==
                       IF k = 0 THEN start(s)
                       ELSE CHOOSE r \in {IF q.done THEN q ELSE reads(q) : q \in {loop[k - 1]}} : TRUE
                 IN  loop[Len(Holds(s)) + 1]
  IN  FILE(m, v, Error(m), LAMBDA s : LeavesString(WithStream(m, v, line(s).on), 0, line(s).buff))

fgetch_(m) ==
  LET v == Arg(m, 1)
      got(s) == Following(s, 1)
  IN  FILE(m, v, Error(m), LAMBDA s :
           Leaves(WithStream(m, v, Advanced(s, got(s), 1)), 0,
                  Value("CHAR", IF got(s) = <<>> THEN -1 ELSE got(s)[1])))

\* feof, ferror, ftell
Tells(o, m) ==
  FILE(m, Arg(m, 1), Error(m), LAMBDA s :
       Leaves(m, 0, CASE o = "feof" -> Value("BOOL", s.eof) [] o = "ferror" -> Value("BOOL", s.error)
                      [] o = "ftell" -> Value("INT", s.pos)))

\* fput and fputchars pop what they have written.  What is no string, fputchars
\* takes for the address of one.
Puts(o, m) ==
  LET v == Arg(m, 2)
      y == Arg(m, 1)
      n == IF o = "fput" THEN 1 ELSE Len(StringAt(m.chars, y.u))
  IN  FILE(m, v, Error(m), LAMBDA s :
           IF o = "fputchars" /\ y.op # "STRING" THEN Crashes(m)
           ELSE {WithStream(PoppedTo(m, 1), v, Refuses(s, n))})

\* A character is not accepted.
fputch_(m) ==
  IF Arg(m, 1).op # "INT" THEN Error(m)
  ELSE FILE(m, Arg(m, 2), Error(PoppedTo(m, 1)), LAMBDA s :
            {WithStream(PoppedTo(m, 1), Arg(m, 2), Refuses(s, 1))})

\* The list takes the place of the stream.  malloc has no room for less than 0.
fread_(m) ==
  LET n == Arg(m, 1).u
      v == Arg(m, 2)
      list(got) == [k \in DOMAIN got |-> Value("INT", got[k])]
  IN  IF Arg(m, 1).op # "INT" THEN Error(m)
      ELSE FILE(m, v, Error(PoppedTo(m, 1)), LAMBDA s :
                IF n < 0 /\ Following(s, Len(Holds(s))) # <<>> THEN Crashes(m)
                ELSE LET got == Following(s, n)
                     IN  LeavesList(WithStream(m, v, Advanced(s, got, n)), 2, list(got), NULL))

fwrite_(m) ==
  LET y == Arg(m, 1)
      n == LengthIn(m.heap, y.u)
  IN  IF y.op # "LIST" THEN Error(m)
      ELSE IF \E k \in 1 .. n : m.heap[NthIn(m.heap, y.u, k)].op # "INT" THEN Error(m)
      ELSE FILE(m, Arg(m, 2), Error(PoppedTo(m, 1)), LAMBDA s :
                {WithStream(PoppedTo(m, 1), Arg(m, 2), Refuses(s, n))})

\* The result says whether fseek failed, and stays on the stack.
fseek_(m) ==
  LET whence == Arg(m, 1)
      pos == Arg(m, 2)
      v == Arg(m, 3)
      to(s) == pos.u + (CASE whence.u = 1 -> s.pos [] whence.u = 2 -> Len(Holds(s))
                          [] whence.u \notin {1, 2} -> 0)
      fails(s) == whence.u \notin 0 .. 2 \/ to(s) < 0
  IN  IF {whence.op, pos.op} # {"INT"} THEN Error(m)
      ELSE FILE(m, v, Error(PoppedTo(m, 2)), LAMBDA s :
                Leaves(IF fails(s) THEN PoppedTo(m, 2)
                       ELSE WithStream(PoppedTo(m, 2), v, [s EXCEPT !.pos = to(s), !.eof = 0]),
                       0, Bool(fails(s))))

\* fremove and frename, which fail.
Removes(o, m) ==
  IF Arg(m, 1).op # "STRING" \/ (o = "frename" /\ Arg(m, 2).op # "STRING") THEN Error(m)
  ELSE Leaves(m, IF o = "frename" THEN 2 ELSE 1, Bool(FALSE))

-----------------------------------------------------------------------------
(* All of them. *)

\* ONEPARAM, TWOPARAMS, ...
LibraryAsks ==
  [strtol |-> 2, strtod |-> 1, format |-> 4, formatf |-> 4, localtime |-> 1, gmtime |-> 1,
   mktime |-> 1, strftime |-> 2, fopen |-> 2, fclose |-> 1, fflush |-> 1, feof |-> 1, ferror |-> 1,
   ftell |-> 1, fgetch |-> 1, fgets |-> 1, fput |-> 2, fputch |-> 2, fputchars |-> 2, fread |-> 2,
   fwrite |-> 2, fseek |-> 3, fremove |-> 1, frename |-> 2]
Library == DOMAIN LibraryAsks

Hands(o, m) ==
  CASE o = "strtol" -> strtol_(m)
    [] o = "strtod" -> strtod_(m)
    [] o \in {"format", "formatf"} -> Formats(o, m)
    [] o \in {"localtime", "gmtime"} -> UNMKTIME(m)
    [] o = "mktime" -> mktime_(m)
    [] o = "strftime" -> strftime_(m)
    [] o = "fopen" -> fopen_(m)
    [] o = "fclose" -> fclose_(m)
    [] o = "fflush" -> FILE(m, Arg(m, 1), Error(m), LAMBDA s : {m})
    [] o \in {"feof", "ferror", "ftell"} -> Tells(o, m)
    [] o = "fgetch" -> fgetch_(m)
    [] o = "fgets" -> fgets_(m)
    [] o \in {"fput", "fputchars"} -> Puts(o, m)
    [] o = "fputch" -> fputch_(m)
    [] o = "fread" -> fread_(m)
    [] o = "fwrite" -> fwrite_(m)
    [] o = "fseek" -> fseek_(m)
    [] o \in {"fremove", "frename"} -> Removes(o, m)

\* The outcomes of any operator.
Performs(o, m) ==
  IF o \notin Library THEN Operate(o, m)
  ELSE IF Param(m, LibraryAsks[o]) = NULL THEN Error(m)
  ELSE Hands(o, m)

=============================================================================
