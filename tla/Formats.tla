------------------------------ MODULE Formats -------------------------------
(***************************************************************************)
(* The numbers, sizes, durations and times of the pages (utils.js).  A     *)
(* formatted number is its digits as a number of hundredths, with the      *)
(* index of its unit, 1 for none.  Quotients are rounded exactly, halves   *)
(* up; the code rounds the binary fraction nearest to them.                *)
(***************************************************************************)
EXTENDS Integers, Sequences, SequencesExt, FiniteSetsExt

CONSTANTS Durations, Counts, DataSizes,  \* the numbers formatted: milliseconds, rows, bytes
          Nanos,                         \* durations of the server in nanoseconds
          Rated, Millis,                 \* rows or bytes a rate is of, milliseconds it is over
          Null                           \* what a text that is not a number is read as

VARIABLE input

\* The nearest whole number to n / d; k * n / d without large products.
Rounded(n, d) == (n \div d) + (IF 2 * (n % d) >= d THEN 1 ELSE 0)
RoundedTimes(k, n, d) == IF d % k = 0 THEN Rounded(n, d \div k) ELSE Rounded(k * n, d)

\* The hundredths shown of n / d: three digits, or a whole number.
precisionRound(n, d) ==
    IF n \div d < 10 THEN RoundedTimes(100, n, d)
    ELSE IF n \div d < 100 THEN 10 * RoundedTimes(10, n, d)
    ELSE 100 * Rounded(n, d)

\* How many of each unit make one of the next: ms, s, m, h, d, w; none, K, M, B, T, Q;
\* B, K, M, G, T, P.
DurationRatios == << 1000, 60, 60, 24, 7 >>
CountRatios == << 1000, 1000, 1000, 1000, 1000 >>
SizeRatios == << 1024, 1024, 1024, 1024, 1024 >>

\* A number is n of the unit from, so that n is small; one of the unit u in units from,
\* or more than any n.
MaxNumber == 2147483647
Times(a, b) == IF a > MaxNumber \div b THEN MaxNumber ELSE a * b
OneOf(u, from, ratios) == FoldLeft(Times, 1, SubSeq(ratios, from, u - 1))

\* Whether a number is more than one of the unit u, or at least one.
Exceeds(n, from, u, ratios) == IF u < from THEN n > 0 ELSE n > OneOf(u, from, ratios)
Reaches(n, from, u, ratios) == IF u < from THEN n > 0 ELSE n >= OneOf(u, from, ratios)

\* What is shown of a number in a unit.  A number of a larger unit than the one it is
\* shown in is one of it, or zero.
InUnit(n, from, unit, ratios) ==
    [unit |-> unit,
     hundredths |-> IF unit >= from THEN precisionRound(n, OneOf(unit, from, ratios))
                    ELSE precisionRound(Times(n, OneOf(from, unit, ratios)), 1)]

Units(ratios) == 1..(Len(ratios) + 1)

formatDuration(n, from) ==
    InUnit(n, from, Max({1} \cup {u \in Units(DurationRatios) : Exceeds(n, from, u, DurationRatios)}), DurationRatios)

formatCount(n, from) ==
    InUnit(n, from, Max({1} \cup {u \in Units(CountRatios) : Exceeds(n, from, u, CountRatios)}), CountRatios)

formatRows(n, from) ==
    [count |-> formatCount(n, from), noun |-> IF n = 1 /\ from = 1 THEN "row" ELSE "rows"]

formatDataSize(n, from) ==
    InUnit(n, from, Max({1} \cup {u \in Units(SizeRatios) : Reaches(n, from, u, SizeRatios)}), SizeRatios)

\* Rows or bytes per second, cut to a whole number.
computeRate(count, ms) == IF ms = 0 THEN 0 ELSE (count * 1000) \div ms

-----------------------------------------------------------------------------
(* Durations and sizes as the server writes them: hundredths of the largest  *)
(* unit there is one of.                                                      *)
NanoUnits == << [name |-> "ns", size |-> 1], [name |-> "us", size |-> 1000],
                [name |-> "ms", size |-> 1000000], [name |-> "s", size |-> 1000000000] >>
MilliUnits == << [name |-> "ms", size |-> 1], [name |-> "s", size |-> 1000], [name |-> "m", size |-> 60000],
                 [name |-> "h", size |-> 3600000], [name |-> "d", size |-> 86400000] >>
ByteUnits == << "B", "kB", "MB", "GB", "TB", "PB" >>

Written(n, units) ==
    LET u == Max({1} \cup {i \in DOMAIN units : n >= units[i].size})
    IN  [name |-> units[u].name, hundredths |-> RoundedTimes(100, n, units[u].size)]

WrittenSize(n, from) ==
    LET u == Max({1} \cup {i \in DOMAIN ByteUnits : Reaches(n, from, i, SizeRatios)})
    IN  [name |-> ByteUnits[u], hundredths |-> RoundedTimes(100, n, OneOf(u, from, SizeRatios))]

\* The milliseconds of a unit, as a fraction.  The name is Null when the text is not a
\* number and a word.
parseDuration(name) ==
    CASE name = "ns" -> << 1, 1000000 >> [] name = "us" -> << 1, 1000 >> [] name = "ms" -> << 1, 1 >>
      [] name = "s" -> << 1000, 1 >> [] name = "m" -> << 60000, 1 >> [] name = "h" -> << 3600000, 1 >>
      [] name = "d" -> << 86400000, 1 >> [] OTHER -> Null

\* The bytes of a unit, as a power of 1024.
parseDataSize(name) ==
    CASE name = "B" -> 0 [] name = "kB" -> 1 [] name = "MB" -> 2 [] name = "GB" -> 3
      [] name = "TB" -> 4 [] name = "PB" -> 5 [] OTHER -> Null

-----------------------------------------------------------------------------
(* Times of day and dates. *)
Padded(n) == IF n < 10 THEN << 0, n >> ELSE << n \div 10, n % 10 >>

formatShortTime(hours, minutes) ==
    [ hour |-> IF hours % 12 = 0 THEN 12 ELSE hours % 12, minutes |-> Padded(minutes),
      half |-> IF hours >= 12 THEN "pm" ELSE "am" ]

\* Months are counted from zero.
formatShortDateTime(month, day, hours, minutes) ==
    [month |-> Padded(month + 1), day |-> Padded(day), time |-> formatShortTime(hours, minutes)]

Init ==
    \/ \E n \in Durations : input = [kind |-> "duration", n |-> n, from |-> 1]
    \/ \E n \in Counts, from \in Units(CountRatios) :
          (from = 1 \/ n < MaxNumber \div 1000) /\ input = [kind |-> "count", n |-> n, from |-> from]
    \/ \E n \in Rated, ms \in Millis : input = [kind |-> "rate", n |-> n, ms |-> ms]
    \/ \E n \in DataSizes, from \in Units(SizeRatios) : input = [kind |-> "size", n |-> n, from |-> from]
    \/ \E n \in Nanos : input = [kind |-> "nanos", n |-> n]
    \/ \E month \in 0..11, day \in {1, 9, 10, 31}, hours \in 0..23, minutes \in {0, 9, 10, 59} :
          input = [kind |-> "time", month |-> month, day |-> day, hours |-> hours, minutes |-> minutes]

-----------------------------------------------------------------------------
(* Properties. *)

\* One shown number is not more than another, of the same or of a larger unit.
NotMore(a, b, ratios) ==
    IF a.unit = b.unit THEN a.hundredths <= b.hundredths
    ELSE a.unit < b.unit /\ a.hundredths <= Times(b.hundredths, OneOf(b.unit, a.unit, ratios))

\* A larger number never looks smaller, across the change of the unit and of the number
\* of decimals too.
OrderIsKept ==
    /\ input.kind = "duration" =>
          NotMore(formatDuration(input.n, input.from), formatDuration(input.n + 1, input.from), DurationRatios)
    /\ input.kind = "count" =>
          NotMore(formatCount(input.n, input.from), formatCount(input.n + 1, input.from), CountRatios)
    /\ input.kind = "rate" => NotMore(formatCount(computeRate(input.n, input.ms), 1),
                                      formatCount(computeRate(input.n + 1, input.ms), 1), CountRatios)
    /\ input.kind = "size" =>
          NotMore(formatDataSize(input.n, input.from), formatDataSize(input.n + 1, input.from), SizeRatios)

Distance(a, b) == IF a < b THEN b - a ELSE a - b

\* h hundredths of a unit are n, within half a percent.
Close(h, unit, n) ==
    IF unit % 100 = 0 THEN Distance(h * (unit \div 100), n) <= n \div 200 ELSE Distance(h * unit, 100 * n) <= n \div 2

\* What is shown is the number, within half a percent.
CloseTo(shown, n, from, ratios) ==
    IF shown.unit >= from THEN Close(shown.hundredths, OneOf(shown.unit, from, ratios), n)
    ELSE Close(shown.hundredths, 1, n * OneOf(from, shown.unit, ratios))

\* What is shown is within half a percent of the number, and it is "1" of the smallest
\* unit exactly when the noun beside it is in the singular.
ShownIsClose ==
    /\ input.kind = "duration" => CloseTo(formatDuration(input.n, input.from), input.n, input.from, DurationRatios)
    /\ input.kind = "size" => CloseTo(formatDataSize(input.n, input.from), input.n, input.from, SizeRatios)
    /\ input.kind = "count" =>
          LET rows == formatRows(input.n, input.from)
          IN  /\ CloseTo(rows.count, input.n, input.from, CountRatios)
              /\ rows.noun = "row" <=> rows.count.unit = 1 /\ rows.count.hundredths = 100

\* Three digits are enough to show a number, or as many as it has before the point.
ShownIsShort ==
    LET Short(shown) == shown.hundredths >= 1000 => shown.hundredths % 10 = 0 /\ (shown.hundredths >= 10000 => shown.hundredths % 100 = 0)
    IN  /\ input.kind = "duration" => Short(formatDuration(input.n, input.from))
        /\ input.kind = "count" => Short(formatCount(input.n, input.from))
        /\ input.kind = "size" => Short(formatDataSize(input.n, input.from))

\* What the server writes is read back, whatever the unit, within half a percent.
WrittenIsRead ==
    LET Read(w, base) == (parseDuration(w.name)[1] * base) \div parseDuration(w.name)[2]
    IN  /\ input.kind = "duration" =>
              LET w == Written(input.n, MilliUnits) IN Close(w.hundredths, Read(w, 1), input.n)
        /\ input.kind = "nanos" =>
              LET w == Written(input.n, NanoUnits) IN Close(w.hundredths, Read(w, 1000000), input.n)
        /\ input.kind = "size" =>
              LET w == WrittenSize(input.n, input.from)
              IN  CloseTo([unit |-> parseDataSize(w.name) + 1, hundredths |-> w.hundredths],
                          input.n, input.from, SizeRatios)

\* A date and time can be read back to the minute.
TimeIsReadable ==
    input.kind = "time" =>
        LET shown == formatShortDateTime(input.month, input.day, input.hours, input.minutes)
            Number(p) == 10 * p[1] + p[2]
        IN  /\ shown.time.hour \in 1..12
            /\ (shown.time.hour % 12) + (IF shown.time.half = "pm" THEN 12 ELSE 0) = input.hours
            /\ Number(shown.time.minutes) = input.minutes
            /\ Number(shown.month) = input.month + 1 /\ Number(shown.day) = input.day
=============================================================================
