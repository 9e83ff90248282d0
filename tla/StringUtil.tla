----------------------------- MODULE StringUtil -----------------------------
(***************************************************************************)
(* The pure functions of StringUtil, evaluated for every string `source`   *)
(* over a small alphabet.  A string is a sequence of characters: "_" a     *)
(* whitespace, "," the delimiter, "a" and "A" one letter in two cases, "n" *)
(* a letter, "\n" a newline, "bs" a backslash; "0".."9" digits, "+" and    *)
(* "-" signs.                                                              *)
(***************************************************************************)
EXTENDS Naturals, Sequences, SequencesExt, FiniteSetsExt

CONSTANTS
  Alphabets,    \* the sets of characters that strings are made of
  MaxLength,    \* the longest string
  Word          \* 2^64 in the code: unsigned integers are 0..Word-1

VARIABLE source

Blank(c) == c \in {"_", "\n"}
Digit == [c \in {"0", "1", "9"} |-> CASE c = "0" -> 0 [] c = "1" -> 1 [] c = "9" -> 9]
NotFound == 0           \* npos: positions count from 1 here

\* find_first_not_of, find_last_not_of
FirstNot(s, P(_)) == LET I == {i \in DOMAIN s : ~P(s[i])} IN IF I = {} THEN NotFound ELSE Min(I)
LastNot(s, P(_)) == LET I == {i \in DOMAIN s : ~P(s[i])} IN IF I = {} THEN NotFound ELSE Max(I)

Ltrim(s) ==
  LET pos == FirstNot(s, Blank) IN IF pos # NotFound THEN SubSeq(s, pos, Len(s)) ELSE <<>>
Rtrim(s) == LET pos == LastNot(s, Blank) IN SubSeq(s, 1, pos)
Trim(s) == Ltrim(Rtrim(s))
RemoveTrailingCharacters(s, ch) == SubSeq(s, 1, LastNot(s, LAMBDA c : c = ch))

\* source.find(delimiter)
FindIn(s, d) ==
  LET I == {i \in 1..(Len(s) - Len(d) + 1) : SubSeq(s, i, i + Len(d) - 1) = d}
  IN  IF I = {} THEN NotFound ELSE Min(I)
CropRight(s, d) == LET pos == FindIn(s, d) IN IF pos # NotFound THEN SubSeq(s, 1, pos - 1) ELSE s
CropLeft(s, d) ==
  LET pos == FindIn(s, d) IN IF pos # NotFound THEN SubSeq(s, pos + Len(d), Len(s)) ELSE s

\* absl::StrSplit() by any character of a set: the pieces, empty ones included.
StrSplit(s, delimiters) ==
  LET at == SelectSeq([i \in 1..(Len(s) + 1) |-> i],
                      LAMBDA i : i > Len(s) \/ s[i] \in delimiters)
  IN  [k \in DOMAIN at |-> SubSeq(s, IF k = 1 THEN 1 ELSE at[k - 1] + 1, at[k] - 1)]

SplitToken(s, delimiters, keep_empty_string, trim_whitespace) ==
  LET keep(piece) == \/ keep_empty_string
                     \/ (IF trim_whitespace THEN Trim(piece) ELSE piece) # <<>>
      pieces == SelectSeq(StrSplit(s, delimiters), keep)
  IN  IF trim_whitespace THEN [k \in DOMAIN pieces |-> Trim(pieces[k])] ELSE pieces

ToUpper(s) == [i \in DOMAIN s |-> IF s[i] = "a" THEN "A" ELSE s[i]]
EqualsIgnoreCase(s, t) == ToUpper(s) = ToUpper(t)

\* findToken(): trim_whitespace is passed as keep_empty_string, and the tokens are
\* trimmed afterwards.
FindToken(s, delimiters, token, trim_whitespace) ==
  LET tokens == SplitToken(s, delimiters, trim_whitespace, FALSE)
  IN  \E k \in DOMAIN tokens : token = IF trim_whitespace THEN Trim(tokens[k]) ELSE tokens[k]
CaseFindToken(s, delimiters, token, trim_whitespace) ==
  LET tokens == SplitToken(s, delimiters, trim_whitespace, FALSE)
  IN  \E k \in DOMAIN tokens :
        EqualsIgnoreCase(token, IF trim_whitespace THEN Trim(tokens[k]) ELSE tokens[k])

\* Mutant of InTokens: the set of tokens is looked up with their case.
InTokensExactly(t, tokens) == t \in tokens

\* CaseUnorderedSet::count()
InTokens(t, tokens) == \E u \in tokens : EqualsIgnoreCase(t, u)

RemoveTokens(s, delimiters, tokens, joiner) ==
  LET values == SelectSeq(SplitToken(s, delimiters, FALSE, TRUE), LAMBDA t : ~InTokens(t, tokens))
  IN  FlattenSeq([k \in DOMAIN values |-> IF k = 1 THEN values[k] ELSE <<joiner>> \o values[k]])

\* The switch of escapeToOstream().
EscapeChar(c) ==
  CASE c = "\n" -> <<"bs", "n">>
    [] c = "bs" -> <<"bs", "bs">>
    [] OTHER -> <<c>>
EscapeToOstream(s) == FlattenSeq([i \in DOMAIN s |-> EscapeChar(s[i])])
\* escape() leaves the backslash alone.
Escape(s) == FlattenSeq([i \in DOMAIN s |-> IF s[i] = "bs" THEN <<s[i]>> ELSE EscapeChar(s[i])])

HasEmptySpace(s) == \E i \in DOMAIN s : Blank(s[i])
ReplaceAllEmptySpace(s) == [i \in DOMAIN s |-> IF Blank(s[i]) THEN "." ELSE s[i]]

\* std::strtoull() on base 10: blanks, a sign, digits; no digits: no conversion.
\* A value that does not fit gives ULLONG_MAX and ERANGE, a minus negates modulo Word.
Strtoull(s) ==
  LET t == Ltrim(s)
      sign == IF t # <<>> /\ t[1] \in {"+", "-"} THEN 1 ELSE 0
      stops == {i \in (sign + 1)..Len(t) : t[i] \notin DOMAIN Digit}
      last == IF stops = {} THEN Len(t) ELSE Min(stops) - 1
      value == FoldLeft(LAMBDA acc, c : 10 * acc + Digit[c], 0, SubSeq(t, sign + 1, last))
      range == value >= Word
      out == IF range THEN Word - 1
             ELSE IF sign = 1 /\ t[1] = "-" THEN (Word - value) % Word ELSE value
  IN  IF last = sign THEN [ok |-> FALSE, out |-> 0, rest |-> s]
      ELSE [ok |-> ~(out = Word - 1 /\ range), out |-> out, rest |-> SubSeq(t, last + 1, Len(t))]

\* StringUtil::atoull(): the whole string must be used.
Atoull(s) == LET r == Strtoull(s) IN [ok |-> s # <<>> /\ r.ok /\ r.rest = <<>>, out |-> r.out]

\* itoa(): the digits from the last to the first, then reversed in place.
Itoa(i) ==
  LET backwards[n \in 0..Word] == <<n % 10>> \o (IF n \div 10 > 0 THEN backwards[n \div 10] ELSE <<>>)
  IN  Reverse(backwards[i])

\* strlcpy(): what is in dst before the terminator, for a size that is not zero.
Strlcpy(s, size) == SubSeq(s, 1, Min({Len(s), size - 1}))

Init == source = <<>>
\* The caller passes another string.
Next ==
  \E A \in Alphabets : \E c \in A :
    /\ Len(source) < MaxLength /\ \A i \in DOMAIN source : source[i] \in A
    /\ source' = Append(source, c)
Spec == Init /\ [][Next]_source
------------------------------------------------------------------------------
Comma == <<",">>

\* The functions agree with each other on the same string: trim() removes exactly
\* the blanks at both ends; cropRight() and cropLeft() are what is around the first
\* delimiter; a token is found exactly when some trimmed piece is equal to it; a
\* removed token is not found again, in whatever case, and the others are.
StringFunctionsAgree ==
  /\ \E i, j \in 0..Len(source) :
       /\ source = SubSeq(source, 1, i) \o Trim(source) \o SubSeq(source, j + 1, Len(source))
       /\ \A k \in (1..i) \cup ((j + 1)..Len(source)) : Blank(source[k])
       /\ Trim(source) # <<>> => ~Blank(Head(Trim(source))) /\ ~Blank(Last(Trim(source)))
  /\ IF FindIn(source, Comma) = NotFound
     THEN CropLeft(source, Comma) = source /\ CropRight(source, Comma) = source
     ELSE CropRight(source, Comma) \o Comma \o CropLeft(source, Comma) = source
  /\ \A token \in {<<"a">>, <<"A">>} :
       LET removed == RemoveTokens(source, {","}, {token}, ",")
       IN  /\ FindToken(source, {","}, token, TRUE) <=>
                \E i, j \in 1..(Len(source) + 1) :
                  /\ i = 1 \/ source[i - 1] = ","
                  /\ j = Len(source) + 1 \/ source[j] = ","
                  /\ Trim(SubSeq(source, i, j - 1)) = token
           /\ ~CaseFindToken(removed, {","}, token, TRUE)
           /\ FindToken(source, {","}, <<"n">>, TRUE) <=> FindToken(removed, {","}, <<"n">>, TRUE)
  /\ HasEmptySpace(source) <=> ReplaceAllEmptySpace(source) # source
  /\ \A size \in 1..MaxLength :
       Len(Strlcpy(source, size)) < size /\ IsPrefix(Strlcpy(source, size), source)

\* Removes one level of escaping.
Unescape(s) ==
  LET From[i \in 1..(Len(s) + 1)] ==
        IF i > Len(s) THEN <<>>
        ELSE IF s[i] = "bs" /\ i < Len(s)
        THEN <<IF s[i + 1] = "n" THEN "\n" ELSE s[i + 1]>> \o From[i + 2]
        ELSE <<s[i]>> \o From[i + 1]
  IN  From[1]

\* Conversions lose nothing: a string that escapeToOstream() wrote can be read back,
\* whatever backslashes it has, and one that escape() wrote if it has none; atoull() accepts a numeral exactly when it fits, at the limit too; itoa()
\* writes the number it was given, without leading zeros.
ConversionsAreExact ==
  /\ Unescape(EscapeToOstream(source)) = source
  /\ "\n" \notin ToSet(Escape(source))
  /\ "bs" \notin ToSet(source) => Unescape(Escape(source)) = source
  /\ (\A i \in DOMAIN source : source[i] \in DOMAIN Digit) =>
       LET value == FoldLeft(LAMBDA acc, c : 10 * acc + Digit[c], 0, source)
       IN  /\ Atoull(source).ok <=> source # <<>> /\ value < Word
           /\ Atoull(source).ok => Atoull(source).out = value
           /\ value < Word =>
                /\ FoldLeft(LAMBDA acc, d : 10 * acc + d, 0, Itoa(value)) = value
                /\ value > 0 => Head(Itoa(value)) # 0
==============================================================================
