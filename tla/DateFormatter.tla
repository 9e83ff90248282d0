---------------------------- MODULE DateFormatter ----------------------------
(***************************************************************************)
(* DateFormatter::fromTime() and AccessLogDateTimeFormatter::fromTime():   *)
(* formatted times that a thread keeps for the current second.             *)
(*                                                                         *)
(* A format is a sequence of tokens: "c" a literal character, "Y" one of   *)
(* the conversions left to absl::FormatTime(), "f" and "1f" fractions of a *)
(* second, "s" the seconds since the epoch.  A string is a sequence of     *)
(* cells that say which character is there: <<"t", s>> depends on second   *)
(* s, <<"s", s>> is a digit of s, <<"n", i>> the i-th digit of the         *)
(* fraction, Placeholder a '?'.                                            *)
(***************************************************************************)
EXTENDS Integers, Sequences, SequencesExt

CONSTANTS
  Formats,      \* the format strings in use
  Seconds,      \* the seconds that times fall into, below 100
  Digits        \* digits of the fraction, 9 in the code

VARIABLES
  formatted,      \* cached_time.formatted: per format the second, string and offsets
  seconds_length, \* cached_time.seconds_length
  log,            \* the cached second and milliseconds of the access log's formatter
  ret             \* the last call and its answer

vars == <<formatted, seconds_length, log, ret>>

Placeholder == <<"?", 0>>
Specifier == {"f", "1f", "s"}

Repeat(cell, n) == [i \in 1..n |-> cell]
SecondsLength(s) == IF s < 10 THEN 1 ELSE 2
SecondsStr(s) == Repeat(<<"s", s>>, SecondsLength(s))

\* Lengths in the format string, and absl::FormatTime() of a token.
RawLength(token) == IF token = "c" THEN 1 ELSE 2
Conversion(token, s) == IF token = "c" THEN <<<<"c", 0>>>> ELSE Repeat(<<"t", s>>, 4)

Sum(f, n) == FoldLeft(LAMBDA a, b : a + b, 0, [i \in 1..n |-> f[i]])
RawSize(segment) == Sum([i \in DOMAIN segment |-> RawLength(segment[i])], Len(segment))
FormatTime(segment, s) == FlattenSeq([i \in DOMAIN segment |-> Conversion(segment[i], s)])

\* parse(): the segments in front of the specifiers and the rest of the string,
\* which gets a specifier of width 0; position_ counts placeholders of width_
\* characters, 2 for the seconds, and unformatted segments.
Width(token) == CASE token = "f" -> Digits [] token = "1f" -> 1 [] token = "s" -> 2
Parse(format) ==
  LET at == SelectSeq([i \in DOMAIN format |-> i], LAMBDA i : format[i] \in Specifier)
      ends == IF Len(format) > 0 /\ Last(format) \notin Specifier
              THEN Append(at, Len(format) + 1) ELSE at
      segment(k) == SubSeq(format, IF k = 1 THEN 1 ELSE ends[k - 1] + 1, ends[k] - 1)
      width(k) == IF ends[k] > Len(format) THEN 0 ELSE Width(format[ends[k]])
      step[k \in 0..Len(ends)] ==
        IF k = 0 THEN 0 ELSE step[k - 1] + RawSize(segment(k)) + width(k)
  IN  [k \in DOMAIN ends |->
         [position |-> step[k - 1] + RawSize(segment(k)), width |-> width(k),
          segment |-> segment(k),
          second |-> ends[k] <= Len(format) /\ format[ends[k]] = "s"]]

\* fromTimeAndPrepareSpecifierOffsets(): the string with placeholders, and how far
\* each specifier moved because segments and seconds have another length.
Prepare(specifiers, s) ==
  [sec |-> s,
   str |-> FlattenSeq([k \in DOMAIN specifiers |->
             FormatTime(specifiers[k].segment, s) \o
             (IF specifiers[k].second THEN SecondsStr(s)
              ELSE Repeat(Placeholder, specifiers[k].width))]),
   offsets |-> [k \in DOMAIN specifiers |->
     Sum([j \in DOMAIN specifiers |->
            Len(FormatTime(specifiers[j].segment, s)) - RawSize(specifiers[j].segment) +
            (IF specifiers[j].second THEN SecondsLength(s) - 2 ELSE 0)], k)]]

\* Mutant of Remaining: entries of other seconds stay in the cache.
RemainingAll(format, s) == DOMAIN formatted

\* The entries that survive a miss: those of the same second.
Remaining(format, s) == {f \in DOMAIN formatted : formatted[f].sec = s}

\* The nanoseconds since the epoch as a string: the digits of s, then the fraction
\* (the padding to 10 digits only adds what a second 0 lacks).
Nanoseconds(s) == SecondsStr(s) \o [i \in 1..Digits |-> <<"n", i>>]

\* The replace() calls: the placeholders become digits of the fraction.
Replaced(specifiers, entry, length, s) ==
  LET fraction == {k \in DOMAIN specifiers : specifiers[k].width > 0 /\ ~specifiers[k].second}
      start(k) == specifiers[k].position + entry.offsets[k]
      in(k, i) == start(k) < i /\ i <= start(k) + specifiers[k].width
  IN  [i \in DOMAIN entry.str |->
         IF \E k \in fraction : in(k, i)
         THEN LET k == CHOOSE k \in fraction : in(k, i)
              IN  Nanoseconds(s)[length + i - start(k)]
         ELSE entry.str[i]]

\* DateFormatter::fromTime()
FromTime(format, s) ==
  LET hit == format \in DOMAIN formatted /\ formatted[format].sec = s
      specifiers == Parse(format)
  IN  /\ formatted' = IF hit THEN formatted
                      ELSE [f \in Remaining(format, s) \cup {format} |->
                              IF f = format /\ f \notin Remaining(format, s)
                              THEN Prepare(specifiers, s) ELSE formatted[f]]
      /\ seconds_length' = IF hit THEN seconds_length ELSE SecondsLength(s)
      /\ ret' = [format |-> format, sec |-> s, ms |-> 0,
                 str |-> Replaced(specifiers, formatted'[format], seconds_length', s)]
      /\ UNCHANGED log

\* AccessLogDateTimeFormatter::fromTime(): inside a second only the milliseconds
\* of the cached string are overwritten.
LogFromTime(s, ms) ==
  /\ log' = IF log # <<>> /\ log[1] = s THEN [log EXCEPT ![2] = ms] ELSE <<s, ms>>
  /\ ret' = [format |-> <<"log">>, sec |-> s, ms |-> ms,
             str |-> <<<<"s", log'[1]>>, <<"n", log'[2]>>>>]
  /\ UNCHANGED <<formatted, seconds_length>>

Init ==
  /\ formatted = [f \in {} |-> 0]
  /\ seconds_length = 0 /\ log = <<>>
  /\ ret = [format |-> <<>>, sec |-> 0, ms |-> 0, str |-> <<>>]

Next ==
  \/ \E format \in Formats, s \in Seconds : FromTime(format, s)
  \/ \E s \in Seconds, ms \in 0..1 : LogFromTime(s, ms)

Spec == Init /\ [][Next]_vars
------------------------------------------------------------------------------
\* What a format means, token by token.
Meaning(token, s) ==
  CASE token = "f" -> [i \in 1..Digits |-> <<"n", i>>]
    [] token = "1f" -> <<<<"n", 1>>>>
    [] token = "s" -> SecondsStr(s)
    [] token \notin Specifier -> Conversion(token, s)

\* Whatever the thread formatted before, fromTime() returns the text of this format
\* for this second: entries of an older second and the one seconds_length that all
\* formats share are never used with another second, and every placeholder is
\* found although segments and seconds change their length.  The access log's
\* formatter returns this second with these milliseconds.
CachedTimesAreFresh ==
  ret.str = CASE ret.format = <<"log">> -> <<<<"s", ret.sec>>, <<"n", ret.ms>>>>
              [] OTHER -> FlattenSeq([i \in DOMAIN ret.format |-> Meaning(ret.format[i], ret.sec)])
==============================================================================
